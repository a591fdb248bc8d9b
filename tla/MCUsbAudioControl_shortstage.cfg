CONSTANTS
  Codes <- MC_Codes
  MuteBytes <- MC_MuteBytes
  Channels <- MC_Channels
  RestoreVols <- MC_RestoreVols
  SetAttribs <- MC_SetAttribs
  StageShorts <- MC_ShortStages
  StaleBytes <- MC_StaleBytes
SPECIFICATION Spec
INVARIANT SetReadsOnlyDataStage
