SPECIFICATION FairSpec
CONSTANTS
  p1 = p1
  p2 = p2
  c1 = c1
  c2 = c2
  Procs = {p1, p2}
  Cookies = {c1, c2}
  Slots = 1
  Tags = {0}
  Asked <- EveryTag
  Calls = {"Issend", "Irecv", "Waitany"}
  MaxPosted = 1
  Trigger = 1
  AnySource = AnySource
  NoCookie = NoCookie
CHECK_DEADLOCK FALSE
PROPERTIES
  WaitanyReturns
