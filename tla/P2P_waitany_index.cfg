SPECIFICATION Spec
CONSTANTS
  p1 = p1
  p2 = p2
  c1 = c1
  c2 = c2
  c3 = c3
  Procs = {p1, p2}
  Cookies = {c1, c2, c3}
  Slots = 3
  Tags = {0}
  Asked <- EveryTag
  Calls = {"Issend", "Irecv", "Waitany"}
  MaxPosted = 2
  Trigger = 1
  AnySource = AnySource
  NoCookie = NoCookie
SYMMETRY Symmetry
CHECK_DEADLOCK FALSE
INVARIANTS
  DoneBeforeReturn
