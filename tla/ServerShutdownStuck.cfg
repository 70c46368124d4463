\* Three connections are closed by Server.Close.
CONSTANTS
  Conns = {c1, c2, c3}
  Sns = {}
  Hooks = {}
  Capacity = 2
  ClientOps = {"identify"}
  Faulty = {}
  MayShutdown = TRUE
SPECIFICATION FairSpec
PROPERTY ShutdownCompletes
CHECK_DEADLOCK FALSE
