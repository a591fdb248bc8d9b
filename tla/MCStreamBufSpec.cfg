CONSTANTS
  P <- MC_P
  CursorMod <- MC_CursorMod
  Capacity <- MC_Capacity
  ReadLens <- MC_ReadLens
  MaxPackets <- MC_MaxPackets
  Junk = Junk
SPECIFICATION Spec
INVARIANTS
  TypeOK
  MemorySafe
PROPERTIES
  RefinesFifo
