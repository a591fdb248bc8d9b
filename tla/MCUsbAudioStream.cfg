CONSTANTS
  P <- MC_P
  CursorMod <- MC_CursorMod
  BufferUnits <- MC_BufferUnits
  InLens <- MC_FullInLens
  OutLens <- MC_FullOutLens
  AvailSet <- MC_AvailSet
  RestoreAlts <- MC_RestoreAlts
  MaxCursor <- MC_MaxCursor
SPECIFICATION Spec
INVARIANTS
  TypeOK
  MemorySafe
PROPERTIES
  PlaybackDelivered
  CaptureFilled
  RefinesStreamState
