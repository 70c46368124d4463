\* One client that resumes, three events, room for two in the queue: the oldest is
\* evicted.  Or two connections, one of which may vanish or fall silent, and two Sends.
CONSTANTS
  Conns = {c1, c2}
  Sns = {0, 1, 2}
  Hooks = {}
  Capacity = 2
  ClientOps = {"identify", "other"}
  Faulty = {c1}
  MayShutdown = FALSE
  Instances <- SafeInstances
SPECIFICATION MCSpec
INVARIANTS TypeOK OneWriter CloseMeansEnded RegisteredOnce NoDuplicates NoGapOnResume
PROPERTY ImplementsSubscription
CHECK_DEADLOCK FALSE
