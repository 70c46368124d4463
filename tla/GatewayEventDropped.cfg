CONSTANTS
  ShardCount = 1
  Clients = {k1, k2}
  MaxSessions = 1
  MaxSeq = 4
  MaxCleanups = 1
  Datum <- EqualData
  Requests = {}
  Frames = {"expired"}
  QueueSize = 2
  ForceSize = 1
SPECIFICATION Spec
INVARIANT EveryEventHandled
CHECK_DEADLOCK FALSE
