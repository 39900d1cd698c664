SPECIFICATION FairSpec
CONSTANTS
  Size = 3
  Barriers = 1
  Codes <- SomeCodes
  MaxSignals = 2
  GroupLeader = TRUE
CHECK_DEADLOCK FALSE
INVARIANTS
  TypeOK
  BarrierTogether
  SuccessIsReal
  FileWhileNeeded
PROPERTIES
  AllDown
