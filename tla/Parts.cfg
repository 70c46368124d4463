\* files: one file and one handle, two saves each with a lifetime or none.
\* token: three forcers and room for one.
\* ingest: two callbacks of any kind and room for one; two upsets.
CONSTANTS
  Idents = {f1}
  InfoIdents = {h1}
  Saves = {1, 2}
  TTLs = {0, 1}
  MaxTime = 2
  Forcers = {1, 2, 3}
  ForceRoom = 1
  Requests = {1, 2}
  Callbacks <- MCCallbacks
  Undecodable = {5}
  QueueSize = 1
  MaxUpsets = 2
SPECIFICATION PartsSpec
INVARIANTS
  PartsTypeOK FilesHaveOwners ExpiryIsScheduled GroupMessageOnce 
PROPERTIES ExpiredFilesGo TokenRecovers ForcersReturn AcceptedIsHandled
CHECK_DEADLOCK FALSE
