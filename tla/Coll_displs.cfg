SPECIFICATION Spec
CONSTANTS
  p1 = p1
  p2 = p2
  c1 = c1
  c2 = c2
  c3 = c3
  c4 = c4
  Procs = {p1, p2}
  Cookies = {c1, c2, c3, c4}
  NSlots = 2
  Kinds = {"gatherv"}
  MaxCalls = 3
  Programs <- EveryProgram
  Rank <- SomeRank
  Trigger = 1
  AtomicCounts = TRUE
  Outcomes = {0}
  Nobody = Nobody
  NoCookie = NoCookie
SYMMETRY Symmetry
CHECK_DEADLOCK FALSE
INVARIANTS
  Completed
