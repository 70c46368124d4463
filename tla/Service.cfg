\* logins: three connections; events, answers: two events; chats: two requests.
\* create: two requests, three targets.
\* pages: two channels, the first's ID longer; pages shorter than the store.
\* config: an edit, a write that is cut off, a token the template may not write
\* as it is.
\* queue: five events and room for three.
CONSTANTS
  Jobs = {1, 2, 3}
  Calls = {1, 2}
  Users = {"u"}
  Groups = {"g"}
  DirectChannels = {"d"}
  Messages = {1, 2}
  ChatTargets = {"group:g", "private:u"}
  GuildTargets = {"c"}
  Contents <- MCContents
  Sources = {"none", "a", "b", "bad"}
  Unreadable = {"bad"}
  Channels = {1, 2}
  Ids = {1, 2, 3}
  Longer <- MCLonger
  Limits = {2, 3}
  MaxSeen = 4
  MaxEdits = 1
  MaxCuts = 1
  OddTexts = {"satori_token"}
  Sns = {0, 1, 2, 3, 4}
  Capacity = 3
SPECIFICATION ServiceSpec
INVARIANTS
  NumbersUnique LatestLoginTellsStatus AnswerFindsChannel AnswerFindsMessage
  RefusedChangesNothing MediaFits UploadsAreUsed WalkRepeatsNothing WalkLeavesNoGap
  SettingsRecoverable SettingsInEffect Bounded LatestPushes ResumeExact
CHECK_DEADLOCK FALSE
