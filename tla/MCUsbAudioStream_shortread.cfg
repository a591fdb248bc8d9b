CONSTANTS
  P <- MC_P
  BufferUnits <- MC_BufferUnits
  AvailSet <- MC_AvailSet
  RestoreAlts <- MC_RestoreAlts
  CursorMod <- MC_CursorMod
  MaxCursor <- MC_MaxCursor
  InLens <- MC_FrameInLens
  OutLens <- MC_FullOutLens
SPECIFICATION Spec
INVARIANT MemorySafe
