CONSTANTS
  Codes <- MC_Codes
SPECIFICATION Spec
INVARIANTS
  TypeOK
  GetCurInRange
PROPERTIES
  ReadBackStable
