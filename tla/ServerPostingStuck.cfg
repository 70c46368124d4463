\* A client vanishes while events are sent.
CONSTANTS
  Conns = {c1}
  Sns = {0, 1}
  Hooks = {}
  Capacity = 2
  ClientOps = {"identify"}
  Faulty = {c1}
  MayShutdown = FALSE
SPECIFICATION FairSpec
PROPERTY PostingEnds
CHECK_DEADLOCK FALSE
