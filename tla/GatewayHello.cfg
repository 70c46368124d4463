CONSTANTS
  ShardCount = 1
  Clients = {k1, k2}
  MaxSessions = 1
  MaxSeq = 3
  MaxCleanups = 1
  Datum <- EqualData
  Requests = {"invalid"}
  Frames = {"refused", "expired"}
  QueueSize = 2
  ForceSize = 1
SPECIFICATION Spec
INVARIANT HelloSetsTicker
CHECK_DEADLOCK FALSE
