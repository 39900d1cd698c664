SPECIFICATION Spec
CONSTANTS
  p1 = p1
  p2 = p2
  c1 = c1
  c2 = c2
  Procs = {p1, p2}
  Cookies = {c1, c2}
  Slots = 2
  Tags = {0}
  Asked <- EveryTag
  Calls = {"Issend", "Irecv", "Wait", "Test", "Waitany"}
  MaxPosted = 2
  Trigger = 1
  AnySource = AnySource
  NoCookie = NoCookie
SYMMETRY Symmetry
CHECK_DEADLOCK FALSE
INVARIANTS
  TypeOK
  RefCount
  HeldIsLive
  OnePlace
  OneMover
  DoneBeforeReturn
  StatusCorrect
  OwnGarbageReclaimed
PROPERTIES
  StableWhileHeld
  ImplementsPromise
