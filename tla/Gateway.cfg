CONSTANTS
  ShardCount = 1
  Clients = {k1, k2}
  MaxSessions = 1
  MaxSeq = 4
  MaxCleanups = 1
  Datum <- EqualData
  Requests = {"invalid"}
  Frames = {"refused", "expired"}
  QueueSize = 1
  ForceSize = 1
SPECIFICATION Spec
INVARIANTS TypeOK OnePlace NothingSkipped
SYMMETRY AnyClient
CHECK_DEADLOCK FALSE
