--------------------------- MODULE EventProcessor ---------------------------
(***************************************************************************)
(* The event processor (processor): every event of the platform, and every *)
(* READY and error of a gateway connection, is handled in a goroutine of    *)
(* its own that takes a number, may fail, writes the process-wide tables   *)
(* the HTTP API reads, stores a message and hands an event to Server.Send. *)
(* A handler is the sequence of its steps; what the events say beyond that *)
(* is left out.  Numbers and tables are lost with the process.             *)
(***************************************************************************)
EXTENDS Integers, Sequences, FiniteSets, FiniteSetsExt, EventDispatch

CONSTANTS
  Jobs,          \* the goroutines of a run
  Users,         \* open IDs of users
  Groups,        \* open IDs of groups
  DirectChannels \* channels of direct messages in a guild

ASSUME ProcessorAssumption ==
  /\ Users \cap Groups = {} /\ (Users \cup Groups) \cap DirectChannels = {}
  /\ Cardinality(Jobs) >= 1

VARIABLES
  jobs,          \* the goroutines: slot, step, subject, number, events built
  count,         \* EventIDTable.count
  status,        \* StatusMapping
  openIdType,    \* OpenIdMapping: "private", "group" or nothing
  directChannel, \* DirectChannelIdMapping: the channels a guild is known for
  saved,         \* the message database: type and channel of each job's message
  unsaved,       \* history: jobs whose SaveMessage failed
  sent           \* history: the events handed to Server.Send

processorVars == <<jobs, count, status, openIdType, directChannel, saved, unsaved, sent>>

Platforms == {"qq", "qqguild"}
OpenIds == Users \cup Groups
Subjects == OpenIds \cup DirectChannels \cup {"other"}
-----------------------------------------------------------------------------
(* Steps.  "fail": an error may end the handler here, and nothing after it   *)
(* happens.  An event that is no login.updated says the bot is online.       *)
Number == <<"number">>
Fail == <<"fail">>
Send == <<"send">>
SetStatus(p, s) == <<"status", p, s>>
Table(what) == <<"table", what>>
Save(type) == <<"save", type>>
Event(p) == <<"event", p>>
LoginEvent(p) == <<"login", p>>

(* ReadyHandler and ErrorNotifyHandler: both platforms' status, then an      *)
(* event for each, built after its number was taken.                         *)
StatusSetLast(s) ==
  <<Number, LoginEvent("qq"), Number, LoginEvent("qqguild"), Send, Send,
    SetStatus("qq", s), SetStatus("qqguild", s)>>

LoginUpdated(s) ==
  <<SetStatus("qq", s), SetStatus("qqguild", s),
    Number, LoginEvent("qq"), Number, LoginEvent("qqguild"), Send, Send>>

ReadyHandler == LoginUpdated("online")
ErrorNotifyHandler == LoginUpdated("offline")

(* Messages.  A timestamp that cannot be parsed ends the handler after its   *)
(* number is taken; SaveMessage's error is ignored.                          *)
TableLast == <<Number, Fail, Save("private"), Event("qq"), Send, Table("private")>>
SavedAsGroup == <<Number, Fail, Table("private"), Save("group"), Event("qq"), Send>>

ProcessC2CMessage == <<Number, Fail, Table("private"), Save("private"), Event("qq"), Send>>
ProcessGroupMessage == <<Number, Fail, Table("group"), Save("group"), Event("qq"), Send>>
ProcessChannelDirectMessage ==
  <<Number, Fail, Table("direct"), Fail, Event("qqguild"), Send>>
ProcessGuildATMessage == <<Number, Fail, Event("qqguild"), Send>>
ProcessGuildNormalMessage == <<Number, Fail, Event("qqguild"), Send>>

(* What happens in groups and guilds.  The data of a withdrawn message is    *)
(* checked before a number is taken, the type of the others after.           *)
ProcessGroupAddRobot == <<Number, Table("group"), Event("qq"), Send>>
ProcessGroupDelRobot == <<Number, Table("none"), Event("qq"), Send>>
ProcessGuildEvent == <<Number, Fail, Event("qqguild"), Send>>
ProcessMemberEvent == <<Number, Fail, Event("qqguild"), Send>>
ProcessChannelEvent == <<Number, Event("qqguild"), Send>>
ProcessMessageDelete == <<Fail, Number, Event("qqguild"), Send>>
ProcessMessageReaction == <<Number, Fail, Event("qqguild"), Send>>

(* Everything else is an internal event.                                     *)
ProcessQQGuildInternal == <<Number, Event("qqguild"), Send>>
ProcessInteractionEvent(p) == <<Number, Event(p), Send>>

(* The adapters registered for each slot; an interaction's platform is that  *)
(* of its chat type.                                                         *)
HandlerOf(slot) ==
  CASE slot = "Ready" -> {ReadyHandler}
    [] slot = "ErrorNotify" -> {ErrorNotifyHandler}
    [] slot = "C2CMessage" -> {ProcessC2CMessage}
    [] slot = "GroupATMessage" -> {ProcessGroupMessage}
    [] slot = "DirectMessage" -> {ProcessChannelDirectMessage}
    [] slot = "ATMessage" -> {ProcessGuildATMessage}
    [] slot = "Message" -> {ProcessGuildNormalMessage}
    [] slot = "GroupAddbot" -> {ProcessGroupAddRobot}
    [] slot = "GroupDelbot" -> {ProcessGroupDelRobot}
    [] slot = "Guild" -> {ProcessGuildEvent}
    [] slot = "GuildMember" -> {ProcessMemberEvent}
    [] slot = "Channel" -> {ProcessChannelEvent}
    [] slot \in {"MessageDelete", "PublicMessageDelete", "DirectMessageDelete"}
         -> {ProcessMessageDelete}
    [] slot = "MessageReaction" -> {ProcessMessageReaction}
    [] slot = "Interaction" -> {ProcessInteractionEvent(p) : p \in Platforms}
    [] slot \in {"Plain", "Audio", "MessageAudit", "Thread", "Post", "Reply", "ForumAudit"}
         -> {ProcessQQGuildInternal}
    [] OTHER -> {}

SubjectsOf(slot) ==
  CASE slot = "C2CMessage" -> Users
    [] slot \in {"GroupATMessage", "GroupAddbot", "GroupDelbot"} -> Groups
    [] slot = "DirectMessage" -> DirectChannels
    [] OTHER -> {"other"}
-----------------------------------------------------------------------------
NoJob == [slot |-> "none", todo |-> << >>, about |-> "other", sn |-> -1, built |-> << >>]

(* NewProcessor, getBotMe: the account is known and its status online.  Run  *)
(* sets it once more for a bot with callbacks.                               *)
ProcessorInit ==
  /\ jobs = [j \in Jobs |-> NoJob]
  /\ count = 0 /\ sent = {} /\ saved = {} /\ unsaved = {}
  /\ status = [p \in Platforms |-> "online"]
  /\ openIdType = [o \in OpenIds |-> "none"] /\ directChannel = {}

ProcessorTypeOK ==
  /\ \A j \in Jobs : jobs[j].slot \in Slots \cup {"none"} /\ jobs[j].about \in Subjects
  /\ count \in Nat /\ status \in [Platforms -> {"online", "offline"}]
  /\ openIdType \in [OpenIds -> {"private", "group", "none"}]
  /\ directChannel \subseteq DirectChannels
  /\ saved \subseteq {"private", "group"} \X Jobs /\ unsaved \subseteq Jobs
  /\ \A e \in sent : e.sn \in Nat /\ e.job \in Jobs

(* The dispatcher, or a gateway connection, starts a handler.                *)
StartJob(j, slot) ==
  /\ jobs[j].slot = "none"
  /\ \E handler \in HandlerOf(slot), about \in SubjectsOf(slot) :
       jobs' = [jobs EXCEPT ![j] = [NoJob EXCEPT !.slot = slot, !.todo = handler, !.about = about]]
  /\ UNCHANGED <<count, status, openIdType, directChannel, saved, unsaved, sent>>

Does(j, op) == jobs[j].todo # << >> /\ Head(jobs[j].todo)[1] = op
Arg(j, n) == Head(jobs[j].todo)[n + 1]
Proceeds(j, job) == jobs' = [jobs EXCEPT ![j] = [job EXCEPT !.todo = Tail(@)]]

(* SaveEventID takes the number in one atomic step.                          *)
NumberOfSent == Cardinality(sent)
NextNumber == count

SaveEventID(j) ==
  /\ Does(j, "number") /\ count' = count + 1
  /\ Proceeds(j, [jobs[j] EXCEPT !.sn = NextNumber])
  /\ UNCHANGED <<status, openIdType, directChannel, saved, unsaved, sent>>

MayFail(j) ==
  /\ Does(j, "fail")
  /\ \/ Proceeds(j, jobs[j])
     \/ jobs' = [jobs EXCEPT ![j].todo = << >>]
  /\ UNCHANGED <<count, status, openIdType, directChannel, saved, unsaved, sent>>

SetsStatus(j) ==
  /\ Does(j, "status") /\ Proceeds(j, jobs[j])
  /\ status' = [status EXCEPT ![Arg(j, 1)] = Arg(j, 2)]
  /\ UNCHANGED <<count, openIdType, directChannel, saved, unsaved, sent>>

(* SetOpenIdType, DelOpenId and SetDirectChannel, each under its mutex.      *)
SetsTable(j) ==
  /\ Does(j, "table") /\ Proceeds(j, jobs[j])
  /\ IF Arg(j, 1) = "direct"
     THEN directChannel' = directChannel \cup {jobs[j].about} /\ UNCHANGED openIdType
     ELSE openIdType' = [openIdType EXCEPT ![jobs[j].about] = Arg(j, 1)]
          /\ UNCHANGED directChannel
  /\ UNCHANGED <<count, status, saved, unsaved, sent>>

SavesMessage(j) ==
  /\ Does(j, "save") /\ Proceeds(j, jobs[j])
  /\ \/ saved' = saved \cup {<<Arg(j, 1), j>>} /\ UNCHANGED unsaved
     \/ unsaved' = unsaved \cup {j} /\ UNCHANGED saved
  /\ UNCHANGED <<count, status, openIdType, directChannel, sent>>

(* buildLoginEventLogin reads the status, buildNonLoginEventLogin does not.  *)
BuildsEvent(j) ==
  /\ Does(j, "event") \/ Does(j, "login")
  /\ Proceeds(j, [jobs[j] EXCEPT !.built = Append(@,
       [sn |-> jobs[j].sn, job |-> j, platform |-> Arg(j, 1), login |-> Does(j, "login"),
        status |-> IF Does(j, "login") THEN status[Arg(j, 1)] ELSE "online"])])
  /\ UNCHANGED <<count, status, openIdType, directChannel, saved, unsaved, sent>>

BroadcastEvent(j) ==
  /\ Does(j, "send")
  /\ sent' = sent \cup {Head(jobs[j].built)}
  /\ Proceeds(j, [jobs[j] EXCEPT !.built = Tail(@)])
  /\ UNCHANGED <<count, status, openIdType, directChannel, saved, unsaved>>

JobStep(j) ==
  \/ SaveEventID(j) \/ MayFail(j) \/ SetsStatus(j) \/ SetsTable(j)
  \/ SavesMessage(j) \/ BuildsEvent(j) \/ BroadcastEvent(j)

ProcessorNext ==
  \E j \in Jobs : (\E slot \in Slots : StartJob(j, slot)) \/ JobStep(j)

ProcessorSpec == ProcessorInit /\ [][ProcessorNext]_processorVars
-----------------------------------------------------------------------------
(* No two events get the same number, in whatever order their goroutines    *)
(* take numbers, fail and send: what the event queue's look-up by number,   *)
(* and a client that resumes, rely on.                                      *)
NumbersUnique == \A d, e \in sent : d.sn = e.sn => d = e

(* When no READY or error is being handled any more, the login.updated of a *)
(* platform with the greatest number tells the status the API answers with, *)
(* although every handler sets the status in one step, takes the number in  *)
(* another and reads the status again in a third.                           *)
LatestLoginTellsStatus ==
  (\A j \in Jobs : jobs[j].slot \in {"Ready", "ErrorNotify"} => jobs[j].todo = << >>) =>
    \A p \in Platforms :
      LET told == {e \in sent : e.login /\ e.platform = p}
      IN  told # {} =>
            \E e \in told : e.status = status[p] /\ \A d \in told : d.sn <= e.sn
=============================================================================
