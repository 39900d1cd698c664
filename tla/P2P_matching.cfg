SPECIFICATION Spec
CONSTANTS
  p1 = p1
  p2 = p2
  c1 = c1
  c2 = c2
  c3 = c3
  c4 = c4
  Procs = {p1, p2}
  Cookies = {c1, c2, c3, c4}
  Slots = 2
  Tags = {0, 1}
  Asked <- EveryTag
  Calls = {"Issend", "Irecv"}
  MaxPosted = 2
  Trigger = 1
  AnySource = AnySource
  NoCookie = NoCookie
SYMMETRY Symmetry
CHECK_DEADLOCK FALSE
INVARIANTS
  NoMissedMatch
  InOrder
  MetOnce
PROPERTIES
  ImplementsPromise
