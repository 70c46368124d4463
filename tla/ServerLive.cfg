\* Every first message of a client, one Send, one webhook created and deleted at any
\* time.  Or Server.Close, with two healthy connections and one Send, or one and two.
CONSTANTS
  Conns = {c1, c2}
  Sns = {0, 1}
  Hooks = {u1}
  Capacity = 2
  ClientOps = {"identify", "badIdentify", "other", "garbage"}
  Faulty = {c1}
  MayShutdown = TRUE
  Instances <- LiveInstances
SPECIFICATION MCFairSpec
INVARIANTS OneWriter RegisteredOnce CloseMeansEnded
PROPERTY SendsComplete VanishedClientsAreReleased 
CHECK_DEADLOCK FALSE
