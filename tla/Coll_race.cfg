SPECIFICATION Spec
CONSTANTS
  p1 = p1
  p2 = p2
  p3 = p3
  c1 = c1
  c2 = c2
  c3 = c3
  Procs = {p1, p2, p3}
  Cookies = {c1, c2, c3}
  NSlots = 1
  Kinds = {"bcast"}
  MaxCalls = 1
  Programs <- EveryProgram
  Rank <- SomeRank
  Trigger = 1
  AtomicCounts = FALSE
  Outcomes = {0}
  Nobody = Nobody
  NoCookie = NoCookie
SYMMETRY Symmetry
CHECK_DEADLOCK FALSE
INVARIANTS
  RefCount
