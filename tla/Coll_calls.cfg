SPECIFICATION Spec
CONSTANTS
  p1 = p1
  p2 = p2
  p3 = p3
  c1 = c1
  c2 = c2
  c3 = c3
  c4 = c4
  c5 = c5
  Procs = {p1, p2, p3}
  Cookies = {c1, c2, c3, c4, c5}
  NSlots = 2
  Kinds = {"bcast", "gather", "gatherv", "allgather", "allreduce", "inplace", "scan", "exscan"}
  MaxCalls = 2
  Programs <- Pairs
  Rank <- SomeRank
  Trigger = 1
  AtomicCounts = TRUE
  Outcomes = {0}
  Nobody = Nobody
  NoCookie = NoCookie
SYMMETRY CookieSymmetry
CHECK_DEADLOCK FALSE
INVARIANTS
  Completed
  BufferStillOwned
  BusyExact
  RefCount
  HeldIsLive
