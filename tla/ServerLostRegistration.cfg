\* A client registers between the posts of a Send and its write-back.
CONSTANTS
  Conns = {c1}
  Sns = {0}
  Hooks = {}
  Capacity = 2
  ClientOps = {"identify"}
  Faulty = {}
  MayShutdown = FALSE
SPECIFICATION Spec
INVARIANT RegisteredWhileServed
CHECK_DEADLOCK FALSE
