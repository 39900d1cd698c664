SPECIFICATION FairSpec
CONSTANTS
  p1 = p1
  p2 = p2
  c1 = c1
  c2 = c2
  c3 = c3
  c4 = c4
  Procs = {p1, p2}
  Cookies = {c1, c2, c3, c4}
  NSlots = 1
  Kinds = {"bcast", "gatherv", "allgather", "allreduce", "scan"}
  MaxCalls = 2
  Programs <- EveryProgram
  Rank <- SomeRank
  Trigger = 1
  AtomicCounts = TRUE
  Outcomes = {0}
  Nobody = Nobody
  NoCookie = NoCookie
CHECK_DEADLOCK FALSE
INVARIANTS
  TypeOK
  SlotMatchesCall
PROPERTIES
  AllReturn
