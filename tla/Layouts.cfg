SPECIFICATION Spec
CONSTANTS
  p1 = p1
  p2 = p2
  Procs = {p1, p2}
  Rank <- SomeRank
  Counts = {1, 2}
  CookieUnits = 4
  NodeUnits = 1
  ListSize = 4
  PoolUnits = 17
  IovMax = 4
  Jobs <- SomeJobs
  Trigger = 1
  Nobody = Nobody
  NoType = NoType
  NoOutcome = NoOutcome
CHECK_DEADLOCK FALSE
INVARIANTS
  TypeOK
  PoolSound
  Interned
  ArrivesIntact
  AcceptsWhatFits
