-------------------------- MODULE SatoriApi_proofs --------------------------
(***************************************************************************)
(* What the HTTP API answers, for any number of handlers and requests, in   *)
(* whatever order they go on.  The argument has two halves: a handler's      *)
(* writes precede the event that tells of them, and nothing takes them back; *)
(* and the table of the API's handlers leads from what is in the tables to   *)
(* the call, and from the call to the code.                                  *)
(***************************************************************************)
EXTENDS SatoriApi, EventProcessor_proofs, FiniteSetTheorems

(* A step on a table is about a subject of the table's kind.                 *)
Fits(step, about) ==
  step[1] = "table" =>
    \/ step[2] = "private" /\ about \in Users
    \/ step[2] \in {"group", "none"} /\ about \in Groups
    \/ step[2] = "direct" /\ about \in DirectChannels

(* What is written before the event of a handler may be built.               *)
Writes(slot) ==
  CASE slot = "C2CMessage" -> {Table("private"), Save("private")}
    [] slot = "GroupATMessage" -> {Save("group")}
    [] slot = "DirectMessage" -> {Table("direct")}
    [] OTHER -> {}

Pending(todo, step) ==
  \E i \in 1..Len(todo) : todo[i] = step /\ \A k \in 1..(i - 1) : ~IsEvent(todo[k])

FitsHandler(slot, about, handler) ==
  /\ \A i \in 1..Len(handler) : Fits(handler[i], about)
  /\ \A step \in Writes(slot) : Pending(handler, step)

WritesSomething == {"C2CMessage", "GroupATMessage", "DirectMessage"}
TableSlots == WritesSomething \cup {"GroupAddbot", "GroupDelbot"}

LEMMA TableHandlers ==
  ASSUME NEW slot \in TableSlots, NEW handler \in HandlerOf(slot), NEW about \in SubjectsOf(slot)
  PROVE  FitsHandler(slot, about, handler)
<1>1. CASE slot = "C2CMessage"
  <2>1. handler = ProcessC2CMessage /\ about \in Users
    BY <1>1 DEF HandlerOf, SubjectsOf
  <2>2. Writes(slot) = {Table("private"), Save("private")}
    BY <1>1 DEF Writes
  <2>3. \A i \in 1..Len(handler) : Fits(handler[i], about)
    BY <2>1 DEF ProcessC2CMessage, Fits, Number, Fail, Table, Save, Event, Send
  <2>4. Len(handler) = 6 /\ handler[3] = Table("private") /\ handler[4] = Save("private")
    BY <2>1 DEF ProcessC2CMessage
  <2>5. \A k \in 1..3 : ~IsEvent(handler[k])
    BY <2>1 DEF ProcessC2CMessage, IsEvent, Number, Fail, Table
  <2>6. Pending(handler, Table("private")) /\ Pending(handler, Save("private"))
    BY <2>4, <2>5 DEF Pending
  <2> QED BY <2>2, <2>3, <2>6 DEF FitsHandler
<1>2. CASE slot = "GroupATMessage"
  <2>1. handler = ProcessGroupMessage /\ about \in Groups
    BY <1>2 DEF HandlerOf, SubjectsOf
  <2>2. Writes(slot) = {Save("group")}
    BY <1>2 DEF Writes
  <2>3. \A i \in 1..Len(handler) : Fits(handler[i], about)
    BY <2>1 DEF ProcessGroupMessage, Fits, Number, Fail, Table, Save, Event, Send
  <2>4. Len(handler) = 6 /\ handler[4] = Save("group")
    BY <2>1 DEF ProcessGroupMessage
  <2>5. \A k \in 1..3 : ~IsEvent(handler[k])
    BY <2>1 DEF ProcessGroupMessage, IsEvent, Number, Fail, Table
  <2>6. Pending(handler, Save("group"))
    BY <2>4, <2>5 DEF Pending
  <2> QED BY <2>2, <2>3, <2>6 DEF FitsHandler
<1>3. CASE slot = "DirectMessage"
  <2>1. handler = ProcessChannelDirectMessage /\ about \in DirectChannels
    BY <1>3 DEF HandlerOf, SubjectsOf
  <2>2. Writes(slot) = {Table("direct")}
    BY <1>3 DEF Writes
  <2>3. \A i \in 1..Len(handler) : Fits(handler[i], about)
    BY <2>1 DEF ProcessChannelDirectMessage, Fits, Number, Fail, Table, Event, Send
  <2>4. Len(handler) = 6 /\ handler[3] = Table("direct")
    BY <2>1 DEF ProcessChannelDirectMessage
  <2>5. \A k \in 1..2 : ~IsEvent(handler[k])
    BY <2>1 DEF ProcessChannelDirectMessage, IsEvent, Number, Fail
  <2>6. Pending(handler, Table("direct"))
    BY <2>4, <2>5 DEF Pending
  <2> QED BY <2>2, <2>3, <2>6 DEF FitsHandler
<1>4. CASE slot \in {"GroupAddbot", "GroupDelbot"}
  <2>1. /\ handler \in {ProcessGroupAddRobot, ProcessGroupDelRobot}
        /\ about \in Groups
    BY <1>4 DEF HandlerOf, SubjectsOf
  <2>2. Writes(slot) = {}
    BY <1>4 DEF Writes
  <2>3. \A i \in 1..Len(handler) : Fits(handler[i], about)
    BY <2>1, SMTT(30) DEF ProcessGroupAddRobot, ProcessGroupDelRobot, Fits, Number, Table, Event, Send
  <2> QED BY <2>2, <2>3 DEF FitsHandler
<1> QED BY <1>1, <1>2, <1>3, <1>4 DEF TableSlots, WritesSomething

NoTable(handler) == \A i \in 1..Len(handler) : handler[i][1] # "table"

LEMMA PlainHandlers ==
  /\ NoTable(ReadyHandler) /\ NoTable(ErrorNotifyHandler)
  /\ NoTable(ProcessGuildATMessage) /\ NoTable(ProcessGuildNormalMessage)
  /\ NoTable(ProcessGuildEvent) /\ NoTable(ProcessMemberEvent)
  /\ NoTable(ProcessChannelEvent) /\ NoTable(ProcessMessageDelete)
  /\ NoTable(ProcessMessageReaction) /\ NoTable(ProcessQQGuildInternal)
  /\ \A p : NoTable(ProcessInteractionEvent(p))
<1>1. NoTable(ReadyHandler) /\ NoTable(ErrorNotifyHandler)
  BY DEF ReadyHandler, ErrorNotifyHandler, LoginUpdated, NoTable, Number, LoginEvent,
         SetStatus, Send
<1>2. /\ NoTable(ProcessGuildATMessage) /\ NoTable(ProcessGuildNormalMessage)
      /\ NoTable(ProcessGuildEvent) /\ NoTable(ProcessMemberEvent)
  BY DEF ProcessGuildATMessage, ProcessGuildNormalMessage, ProcessGuildEvent,
         ProcessMemberEvent, NoTable, Number, Fail, Event, Send
<1>3. /\ NoTable(ProcessChannelEvent) /\ NoTable(ProcessMessageDelete)
      /\ NoTable(ProcessMessageReaction) /\ NoTable(ProcessQQGuildInternal)
  BY DEF ProcessChannelEvent, ProcessMessageDelete, ProcessMessageReaction,
         ProcessQQGuildInternal, NoTable, Number, Fail, Event, Send
<1>4. \A p : NoTable(ProcessInteractionEvent(p))
  BY DEF ProcessInteractionEvent, NoTable, Number, Event, Send
<1> QED BY <1>1, <1>2, <1>3, <1>4

LEMMA HandlersFit ==
  ASSUME NEW slot, NEW handler \in HandlerOf(slot), NEW about \in SubjectsOf(slot)
  PROVE  FitsHandler(slot, about, handler)
<1>1. CASE slot \in TableSlots
  BY <1>1, TableHandlers
<1>2. CASE slot \notin TableSlots
  <2>1. NoTable(handler)
    BY <1>2, PlainHandlers DEF HandlerOf, TableSlots, WritesSomething
  <2>2. Writes(slot) = {}
    BY <1>2 DEF Writes, TableSlots, WritesSomething
  <2> QED BY <2>1, <2>2 DEF FitsHandler, NoTable, Fits
<1> QED BY <1>1, <1>2
-----------------------------------------------------------------------------
(* What a goroutine has written, or has still to write before its event.     *)
NothingOut(j) == jobs[j].built = << >> /\ \A e \in sent : e.job # j

Written(j, step) ==
  CASE step = Table("private") -> openIdType[jobs[j].about] = "private"
    [] step = Table("direct") -> jobs[j].about \in directChannel
    [] step = Save("private") -> j \in unsaved \/ <<"private", j>> \in saved
    [] step = Save("group") -> j \in unsaved \/ <<"group", j>> \in saved
    [] OTHER -> FALSE

Waits(j, step) == NothingOut(j) /\ (jobs[j].todo = << >> \/ Pending(jobs[j].todo, step))

Tables ==
  /\ openIdType \in [OpenIds -> {"private", "group", "none"}]
  /\ \A u \in Users : openIdType[u] # "group"
  /\ \A g \in Groups : openIdType[g] # "private"
  /\ directChannel \subseteq DirectChannels
  /\ saved \subseteq {"private", "group"} \X Jobs /\ unsaved \subseteq Jobs

InOrder(j) ==
  /\ jobs[j].slot = "none" => jobs[j].todo = << >> /\ NothingOut(j)
  /\ jobs[j].slot # "none" => jobs[j].about \in SubjectsOf(jobs[j].slot)
  /\ \A i \in 1..Len(jobs[j].todo) : Fits(jobs[j].todo[i], jobs[j].about)
  /\ \A step \in Writes(jobs[j].slot) : Written(j, step) \/ Waits(j, step)

Stored == Tables /\ \A j \in Jobs : InOrder(j)

(* Nothing is taken back that was said of a user, a channel or a message.    *)
Grows ==
  /\ \A u \in Users : openIdType[u] = "private" => openIdType'[u] = "private"
  /\ directChannel \subseteq directChannel'
  /\ saved \subseteq saved' /\ unsaved \subseteq unsaved'

LEMMA WrittenStays ==
  ASSUME Typed, Grows, NEW j \in Jobs, NEW step, InOrder(j), step \in Writes(jobs[j].slot),
         jobs'[j].slot = jobs[j].slot, jobs'[j].about = jobs[j].about,
         Written(j, step)
  PROVE  Written(j, step)'
<1>1. CASE step = Table("private")
  <2>1. jobs[j].about \in Users
    BY <1>1 DEF InOrder, Writes, SubjectsOf, Table, Save
  <2> QED BY <1>1, <2>1 DEF Written, Grows
<1>2. CASE step = Table("direct")
  BY <1>2 DEF Written, Grows, Table, Save
<1>3. CASE step \in {Save("private"), Save("group")}
  BY <1>3 DEF Written, Grows, Table, Save
<1> QED BY <1>1, <1>2, <1>3 DEF Writes

(* A step of one goroutine: what the others wrote stays.                     *)
LEMMA OneWriter ==
  ASSUME Typed, Stored, NEW j \in Jobs, jobs[j].slot # "none",
         \A k \in Jobs : k # j => jobs'[k] = jobs[k],
         jobs'[j].slot = jobs[j].slot, jobs'[j].about = jobs[j].about,
         Tables', Grows, \A e \in sent' : e \in sent \/ e.job = j,
         \A i \in 1..Len(jobs'[j].todo) : Fits(jobs'[j].todo[i], jobs[j].about),
         \A step \in Writes(jobs[j].slot) :
           Waits(j, step) => Written(j, step)' \/ Waits(j, step)'
  PROVE  Stored'
<1>1. ASSUME NEW k \in Jobs, k # j
      PROVE  InOrder(k)'
  <2>1. InOrder(k) /\ jobs'[k] = jobs[k]
    BY <1>1 DEF Stored
  <2>2. NothingOut(k) => NothingOut(k)'
    BY <1>1, <2>1 DEF NothingOut
  <2>3. \A step : Waits(k, step) => Waits(k, step)'
    BY <2>1, <2>2 DEF Waits
  <2>4. \A step \in Writes(jobs[k].slot) : Written(k, step) => Written(k, step)'
    BY <2>1, WrittenStays
  <2> QED BY <2>1, <2>2, <2>3, <2>4 DEF InOrder
<1>2. InOrder(j)'
  <2>1. InOrder(j)
    BY DEF Stored
  <2>2. \A step \in Writes(jobs[j].slot) : Written(j, step) => Written(j, step)'
    BY <2>1, WrittenStays
  <2> QED BY <2>1, <2>2 DEF InOrder
<1> QED BY <1>1, <1>2 DEF Stored

(* What is left of a handler still fits, and what was to be written is       *)
(* written next or later.                                                    *)
LEMMA RestFits ==
  ASSUME NEW todo \in Seq(Steps), todo # << >>, NEW about,
         \A i \in 1..Len(todo) : Fits(todo[i], about)
  PROVE  \A i \in 1..Len(Tail(todo)) : Fits(Tail(todo)[i], about)
<1>1. \A i \in 1..Len(Tail(todo)) : Tail(todo)[i] = todo[i + 1] /\ i + 1 \in 1..Len(todo)
  BY TailSteps
<1> QED BY <1>1

LEMMA PendingNext ==
  ASSUME NEW todo \in Seq(Steps), todo # << >>, NEW step, Pending(todo, step)
  PROVE  Head(todo) = step \/ (~IsEvent(Head(todo)) /\ Pending(Tail(todo), step))
<1>1. PICK i \in 1..Len(todo) : todo[i] = step /\ \A k \in 1..(i - 1) : ~IsEvent(todo[k])
  BY DEF Pending
<1>2. /\ Len(todo) \in Nat /\ Head(todo) = todo[1] /\ Len(Tail(todo)) = Len(todo) - 1
      /\ \A n \in 1..Len(Tail(todo)) : Tail(todo)[n] = todo[n + 1]
  BY TailSteps
<1>3. CASE i # 1
  <2>1. i - 1 \in 1..Len(Tail(todo)) /\ Tail(todo)[i - 1] = step /\ 1 \in 1..(i - 1)
    BY <1>1, <1>2, <1>3
  <2>2. \A k \in 1..((i - 1) - 1) : Tail(todo)[k] = todo[k + 1] /\ k + 1 \in 1..(i - 1)
    BY <1>2, <1>3
  <2> QED BY <1>1, <1>2, <2>1, <2>2 DEF Pending
<1> QED BY <1>1, <1>2, <1>3

LEMMA WritesAreWrites ==
  ASSUME NEW slot, NEW step \in Writes(slot)
  PROVE  step[1] \in {"table", "save"}
  BY DEF Writes, Table, Save

(* A goroutine that goes on and writes nothing of its list.                  *)
LEMMA GoesOn ==
  ASSUME ProcessorInv, Stored, NEW j \in Jobs, jobs[j].todo # << >>,
         jobs'[j].slot = jobs[j].slot, jobs'[j].todo = Tail(jobs[j].todo),
         Head(jobs[j].todo)[1] \notin {"table", "save", "event", "login", "send"},
         jobs'[j].built = jobs[j].built, sent' = sent
  PROVE  \A step \in Writes(jobs[j].slot) : Waits(j, step) => Waits(j, step)'
<1> SUFFICES ASSUME NEW step \in Writes(jobs[j].slot), Waits(j, step)
             PROVE  Waits(j, step)'
  OBVIOUS
<1>1. jobs[j].todo \in Seq(Steps)
  BY NextStep
<1>2. Pending(jobs[j].todo, step) /\ NothingOut(j)
  BY DEF Waits
<1>3. Pending(Tail(jobs[j].todo), step)
  BY <1>1, <1>2, PendingNext, WritesAreWrites
<1> QED BY <1>2, <1>3 DEF Waits, NothingOut
-----------------------------------------------------------------------------
(* The steps of a goroutine.                                                 *)
LEMMA StepOfJob ==
  ASSUME ProcessorInv, Stored, NEW j \in Jobs, jobs[j].todo # << >>
  PROVE  /\ Typed /\ Tables /\ InOrder(j) /\ jobs[j].slot # "none" /\ jobs[j] \in JobStates
         /\ jobs[j].todo \in Seq(Steps) /\ Head(jobs[j].todo) \in Steps
         /\ jobs[j].built \in Seq(Events)
         /\ Fits(Head(jobs[j].todo), jobs[j].about)
         /\ \A i \in 1..Len(Tail(jobs[j].todo)) : Fits(Tail(jobs[j].todo)[i], jobs[j].about)
<1>1. Typed /\ Tables /\ InOrder(j)
  BY DEF ProcessorInv, Stored
<1>2. jobs[j] \in JobStates /\ jobs[j].todo \in Seq(Steps) /\ jobs[j].built \in Seq(Events)
  BY NextStep
<1>3. /\ Head(jobs[j].todo) = jobs[j].todo[1] /\ 1 \in 1..Len(jobs[j].todo)
      /\ Head(jobs[j].todo) \in Steps
  BY <1>2, TailSteps
<1> QED BY <1>1, <1>2, <1>3, RestFits DEF InOrder

LEMMA SaveEventIDStored ==
  ASSUME ProcessorInv, Stored, NEW j \in Jobs, SaveEventID(j)
  PROVE  Stored'
<1> DEFINE job == [jobs[j] EXCEPT !.sn = count, !.todo = Tail(jobs[j].todo)]
<1>1. /\ jobs[j].todo # << >> /\ Head(jobs[j].todo)[1] = "number"
      /\ jobs' = [jobs EXCEPT ![j] = job]
      /\ UNCHANGED <<openIdType, directChannel, saved, unsaved, sent>>
  BY DEF SaveEventID, Does, Proceeds, NextNumber
<1>2. Typed /\ Tables /\ jobs[j] \in JobStates /\ jobs[j].slot # "none"
  BY <1>1, StepOfJob
<1>3. /\ job.slot = jobs[j].slot /\ job.about = jobs[j].about /\ job.built = jobs[j].built
      /\ job.todo = Tail(jobs[j].todo)
  BY <1>2 DEF JobStates
<1> HIDE DEF job
<1>4. jobs'[j] = job
  BY <1>1, <1>2 DEF Typed
<1>5. \A step \in Writes(jobs[j].slot) : Waits(j, step) => Waits(j, step)'
  BY <1>1, <1>3, <1>4, GoesOn
<1>6. \A i \in 1..Len(job.todo) : Fits(job.todo[i], jobs[j].about)
  BY <1>1, <1>3, StepOfJob
<1>7. Tables' /\ Grows
  BY <1>1, <1>2 DEF Tables, Grows
<1>20. jobs'[j] = job /\ \A k \in Jobs : k # j => jobs'[k] = jobs[k]
  BY <1>1, <1>2, <1>3, <1>4 DEF Typed
<1>21. \A e \in sent' : e \in sent \/ e.job = j
  BY <1>1, <1>5
<1> QED BY <1>1, <1>2, <1>3, <1>5, <1>6, <1>7, <1>20, <1>21, OneWriter

LEMMA SetsStatusStored ==
  ASSUME ProcessorInv, Stored, NEW j \in Jobs, SetsStatus(j)
  PROVE  Stored'
<1> DEFINE job == [jobs[j] EXCEPT !.todo = Tail(jobs[j].todo)]
<1>1. /\ jobs[j].todo # << >> /\ Head(jobs[j].todo)[1] = "status"
      /\ jobs' = [jobs EXCEPT ![j] = job]
      /\ UNCHANGED <<openIdType, directChannel, saved, unsaved, sent>>
  BY DEF SetsStatus, Does, Proceeds
<1>2. Typed /\ Tables /\ jobs[j] \in JobStates /\ jobs[j].slot # "none"
  BY <1>1, StepOfJob
<1>3. /\ job.slot = jobs[j].slot /\ job.about = jobs[j].about /\ job.built = jobs[j].built
      /\ job.todo = Tail(jobs[j].todo)
  BY <1>2 DEF JobStates
<1> HIDE DEF job
<1>4. jobs'[j] = job
  BY <1>1, <1>2 DEF Typed
<1>5. \A step \in Writes(jobs[j].slot) : Waits(j, step) => Waits(j, step)'
  BY <1>1, <1>3, <1>4, GoesOn
<1>6. \A i \in 1..Len(job.todo) : Fits(job.todo[i], jobs[j].about)
  BY <1>1, <1>3, StepOfJob
<1>7. Tables' /\ Grows
  BY <1>1, <1>2 DEF Tables, Grows
<1>20. jobs'[j] = job /\ \A k \in Jobs : k # j => jobs'[k] = jobs[k]
  BY <1>1, <1>2, <1>3, <1>4 DEF Typed
<1>21. \A e \in sent' : e \in sent \/ e.job = j
  BY <1>1, <1>5
<1> QED BY <1>1, <1>2, <1>3, <1>5, <1>6, <1>7, <1>20, <1>21, OneWriter

(* A handler that fails has not built its event yet, or needs to write        *)
(* nothing more.                                                             *)
LEMMA MayFailStored ==
  ASSUME ProcessorInv, Stored, NEW j \in Jobs, MayFail(j)
  PROVE  Stored'
<1>1. /\ jobs[j].todo # << >> /\ Head(jobs[j].todo)[1] = "fail"
      /\ UNCHANGED <<openIdType, directChannel, saved, unsaved, sent>>
  BY DEF MayFail, Does
<1>2. PICK rest \in {Tail(jobs[j].todo), << >>} :
        jobs' = [jobs EXCEPT ![j] = [jobs[j] EXCEPT !.todo = rest]]
  BY DEF MayFail, Proceeds
<1> DEFINE job == [jobs[j] EXCEPT !.todo = rest]
<1>3. Typed /\ Tables /\ jobs[j] \in JobStates /\ jobs[j].slot # "none"
  BY <1>1, StepOfJob
<1>4. /\ job.slot = jobs[j].slot /\ job.about = jobs[j].about /\ job.built = jobs[j].built
      /\ job.todo = rest /\ jobs' = [jobs EXCEPT ![j] = job]
  BY <1>2, <1>3 DEF JobStates
<1> HIDE DEF job
<1>5. jobs'[j] = job
  BY <1>3, <1>4 DEF Typed
<1>6. \A step \in Writes(jobs[j].slot) : Waits(j, step) => Waits(j, step)'
  <2>1. CASE rest = << >>
    BY <1>1, <1>4, <1>5, <2>1 DEF Waits, NothingOut
  <2>2. CASE rest = Tail(jobs[j].todo)
    BY <1>1, <1>4, <1>5, <2>2, GoesOn
  <2> QED BY <2>1, <2>2
<1>7. \A i \in 1..Len(job.todo) : Fits(job.todo[i], jobs[j].about)
  <2>1. CASE rest = << >>
    BY <1>4, <2>1
  <2>2. CASE rest = Tail(jobs[j].todo)
    BY <1>1, <1>4, <2>2, StepOfJob
  <2> QED BY <2>1, <2>2
<1>8. Tables' /\ Grows
  BY <1>1, <1>3 DEF Tables, Grows
<1>20. jobs'[j] = job /\ \A k \in Jobs : k # j => jobs'[k] = jobs[k]
  BY <1>1, <1>2, <1>3, <1>4 DEF Typed
<1>21. \A e \in sent' : e \in sent \/ e.job = j
  BY <1>1, <1>5
<1> QED BY <1>1, <1>3, <1>4, <1>6, <1>7, <1>8, <1>20, <1>21, OneWriter

(* The write of a table; a step of another kind is still to come.            *)
LEMMA SetsTableStored ==
  ASSUME ProcessorInv, Stored, NEW j \in Jobs, SetsTable(j)
  PROVE  Stored'
<1> DEFINE job == [jobs[j] EXCEPT !.todo = Tail(jobs[j].todo)]
           head == Head(jobs[j].todo)
<1>1. /\ jobs[j].todo # << >> /\ head[1] = "table" /\ jobs' = [jobs EXCEPT ![j] = job]
      /\ UNCHANGED <<saved, unsaved, sent>>
  BY DEF SetsTable, Does, Proceeds
<1>2. /\ Typed /\ Tables /\ jobs[j] \in JobStates /\ jobs[j].slot # "none"
      /\ jobs[j].todo \in Seq(Steps) /\ head \in Steps /\ Fits(head, jobs[j].about)
  BY <1>1, StepOfJob
<1>3. /\ job.slot = jobs[j].slot /\ job.about = jobs[j].about /\ job.built = jobs[j].built
      /\ job.todo = Tail(jobs[j].todo)
  BY <1>2 DEF JobStates
<1>4. /\ head[2] = "direct" => directChannel' = directChannel \cup {jobs[j].about}
                               /\ UNCHANGED openIdType
      /\ head[2] # "direct" => /\ openIdType' = [openIdType EXCEPT ![jobs[j].about] = head[2]]
                               /\ UNCHANGED directChannel
  BY DEF SetsTable, Arg
<1> HIDE DEF job
<1>5. jobs'[j] = job
  BY <1>1, <1>2 DEF Typed
<1>6. Users \cap Groups = {}
  BY ProcessorAssumption
<1>7. Tables' /\ Grows
  <2>1. CASE head[2] = "direct"
    BY <1>1, <1>2, <1>4, <2>1 DEF Tables, Grows, Fits
  <2>2. CASE head[2] = "private"
    BY <1>1, <1>2, <1>4, <1>6, <2>2 DEF Tables, Grows, Fits, OpenIds
  <2>3. CASE head[2] \in {"group", "none"}
    BY <1>1, <1>2, <1>4, <1>6, <2>3 DEF Tables, Grows, Fits, OpenIds
  <2> QED BY <1>1, <1>2, <2>1, <2>2, <2>3 DEF Fits
<1>8. ASSUME NEW step \in Writes(jobs[j].slot), Waits(j, step)
      PROVE  Written(j, step)' \/ Waits(j, step)'
  <2>1. Pending(jobs[j].todo, step) /\ NothingOut(j)
    BY <1>1, <1>8 DEF Waits
  <2>2. CASE head = step
    <3>1. step \in {Table("private"), Table("direct")}
      BY <1>1, <1>8, <2>2 DEF Writes, Table, Save
    <3>2. CASE step = Table("private")
      <4>1. head[2] = "private" /\ jobs[j].about \in Users
        BY <1>1, <1>2, <1>6, <2>2, <3>2, ProcessorAssumption DEF Table, Fits
      <4>2. openIdType'[jobs[j].about] = "private"
        BY <1>2, <1>4, <4>1 DEF Tables, OpenIds
      <4>3. openIdType'[jobs'[j].about] = "private"
        BY <1>3, <1>5, <4>2
      <4> QED BY <3>2, <4>3 DEF Written, Table, Save
    <3>3. CASE step = Table("direct")
      <4>1. head[2] = "direct"
        BY <2>2, <3>3 DEF Table
      <4>2. jobs[j].about \in directChannel'
        BY <1>4, <4>1
      <4> QED BY <1>3, <1>5, <3>3, <4>2 DEF Written, Table, Save
    <3> QED BY <3>1, <3>2, <3>3
  <2>3. CASE head # step
    <3>1. Pending(Tail(jobs[j].todo), step)
      BY <1>1, <1>2, <2>1, <2>3, PendingNext
    <3> QED BY <1>1, <1>3, <1>5, <2>1, <3>1 DEF Waits, NothingOut
  <2> QED BY <2>2, <2>3
<1>9. \A i \in 1..Len(job.todo) : Fits(job.todo[i], jobs[j].about)
  BY <1>1, <1>3, StepOfJob
<1> HIDE DEF head
<1>20. jobs'[j] = job /\ \A k \in Jobs : k # j => jobs'[k] = jobs[k]
  BY <1>1, <1>2, <1>3, <1>4 DEF Typed
<1>21. \A e \in sent' : e \in sent \/ e.job = j
  BY <1>1, <1>5
<1> QED BY <1>1, <1>2, <1>3, <1>7, <1>8, <1>9, <1>20, <1>21, OneWriter

LEMMA SavesMessageStored ==
  ASSUME ProcessorInv, Stored, NEW j \in Jobs, SavesMessage(j)
  PROVE  Stored'
<1> DEFINE job == [jobs[j] EXCEPT !.todo = Tail(jobs[j].todo)]
           head == Head(jobs[j].todo)
<1>1. /\ jobs[j].todo # << >> /\ head[1] = "save" /\ jobs' = [jobs EXCEPT ![j] = job]
      /\ UNCHANGED <<openIdType, directChannel, sent>>
  BY DEF SavesMessage, Does, Proceeds
<1>2. /\ Typed /\ Tables /\ jobs[j] \in JobStates /\ jobs[j].slot # "none"
      /\ jobs[j].todo \in Seq(Steps) /\ head \in Steps
  BY <1>1, StepOfJob
<1>3. /\ job.slot = jobs[j].slot /\ job.about = jobs[j].about /\ job.built = jobs[j].built
      /\ job.todo = Tail(jobs[j].todo)
  BY <1>2 DEF JobStates
<1>4. \/ saved' = saved \cup {<<head[2], j>>} /\ unsaved' = unsaved
      \/ unsaved' = unsaved \cup {j} /\ saved' = saved
  BY DEF SavesMessage, Arg
<1>5. head[2] \in {"private", "group"}
  BY <1>1, <1>2 DEF Steps, Number, Fail, Send
<1> HIDE DEF job
<1>6. jobs'[j] = job
  BY <1>1, <1>2 DEF Typed
<1>7. Tables' /\ Grows
  BY <1>1, <1>2, <1>4, <1>5 DEF Tables, Grows
<1>8. ASSUME NEW step \in Writes(jobs[j].slot), Waits(j, step)
      PROVE  Written(j, step)' \/ Waits(j, step)'
  <2>1. Pending(jobs[j].todo, step) /\ NothingOut(j)
    BY <1>1, <1>8 DEF Waits
  <2>2. CASE head = step
    <3>1. step \in {Save("private"), Save("group")}
      BY <1>1, <1>8, <2>2 DEF Writes, Table, Save
    <3>2. CASE step = Save("private")
      <4>1. j \in unsaved' \/ <<"private", j>> \in saved'
        BY <1>4, <2>2, <3>2 DEF Save
      <4> QED BY <3>2, <4>1 DEF Written, Table, Save
    <3>3. CASE step = Save("group")
      <4>1. j \in unsaved' \/ <<"group", j>> \in saved'
        BY <1>4, <2>2, <3>3 DEF Save
      <4> QED BY <3>3, <4>1 DEF Written, Table, Save
    <3> QED BY <3>1, <3>2, <3>3
  <2>3. CASE head # step
    <3>1. Pending(Tail(jobs[j].todo), step)
      BY <1>1, <1>2, <2>1, <2>3, PendingNext
    <3> QED BY <1>1, <1>3, <1>6, <2>1, <3>1 DEF Waits, NothingOut
  <2> QED BY <2>2, <2>3
<1>9. \A i \in 1..Len(job.todo) : Fits(job.todo[i], jobs[j].about)
  BY <1>1, <1>3, StepOfJob
<1> HIDE DEF head
<1>20. jobs'[j] = job /\ \A k \in Jobs : k # j => jobs'[k] = jobs[k]
  BY <1>1, <1>2, <1>3, <1>4 DEF Typed
<1>21. \A e \in sent' : e \in sent \/ e.job = j
  BY <1>1, <1>5
<1> QED BY <1>1, <1>2, <1>3, <1>7, <1>8, <1>9, <1>20, <1>21, OneWriter

(* An event is built, or sent: nothing is left that would wait for it.       *)
LEMMA BuildsEventStored ==
  ASSUME ProcessorInv, Stored, NEW j \in Jobs, BuildsEvent(j)
  PROVE  Stored'
<1> DEFINE event == [sn |-> jobs[j].sn, job |-> j, platform |-> Arg(j, 1),
                     login |-> Does(j, "login"),
                     status |-> IF Does(j, "login") THEN status[Arg(j, 1)] ELSE "online"]
           job == [jobs[j] EXCEPT !.built = Append(jobs[j].built, event),
                                  !.todo = Tail(jobs[j].todo)]
<1>1. /\ jobs[j].todo # << >> /\ Head(jobs[j].todo)[1] \in {"event", "login"}
      /\ jobs' = [jobs EXCEPT ![j] = job]
      /\ UNCHANGED <<openIdType, directChannel, saved, unsaved, sent>>
  BY DEF BuildsEvent, Does, Proceeds
<1> HIDE DEF event
<1>2. /\ Typed /\ Tables /\ jobs[j] \in JobStates /\ jobs[j].slot # "none"
      /\ jobs[j].todo \in Seq(Steps)
  BY <1>1, StepOfJob
<1>3. job.slot = jobs[j].slot /\ job.about = jobs[j].about /\ job.todo = Tail(jobs[j].todo)
  BY <1>2 DEF JobStates
<1> HIDE DEF job
<1>4. ASSUME NEW step \in Writes(jobs[j].slot)
      PROVE  ~Waits(j, step)
  BY <1>1, <1>2, <1>4, PendingNext, WritesAreWrites DEF Waits, IsEvent
<1>5. \A i \in 1..Len(job.todo) : Fits(job.todo[i], jobs[j].about)
  BY <1>1, <1>3, StepOfJob
<1>6. Tables' /\ Grows
  BY <1>1, <1>2 DEF Tables, Grows
<1>20. jobs'[j] = job /\ \A k \in Jobs : k # j => jobs'[k] = jobs[k]
  BY <1>1, <1>2, <1>3, <1>4 DEF Typed
<1>21. \A e \in sent' : e \in sent \/ e.job = j
  BY <1>1, <1>5
<1> QED BY <1>1, <1>2, <1>3, <1>4, <1>5, <1>6, <1>20, <1>21, OneWriter

LEMMA BroadcastEventStored ==
  ASSUME ProcessorInv, Stored, NEW j \in Jobs, BroadcastEvent(j)
  PROVE  Stored'
<1> DEFINE event == Head(jobs[j].built)
           job == [jobs[j] EXCEPT !.built = Tail(jobs[j].built), !.todo = Tail(jobs[j].todo)]
<1>1. /\ jobs[j].todo # << >> /\ Head(jobs[j].todo)[1] = "send"
      /\ jobs' = [jobs EXCEPT ![j] = job] /\ sent' = sent \cup {event}
      /\ UNCHANGED <<openIdType, directChannel, saved, unsaved>>
  BY DEF BroadcastEvent, Does, Proceeds
<1>2. /\ Typed /\ Tables /\ jobs[j] \in JobStates /\ jobs[j].slot # "none"
      /\ jobs[j].todo \in Seq(Steps) /\ jobs[j].built \in Seq(Events)
  BY <1>1, StepOfJob
<1>3. job.slot = jobs[j].slot /\ job.about = jobs[j].about /\ job.todo = Tail(jobs[j].todo)
  BY <1>2 DEF JobStates
<1> HIDE DEF job
<1>4. jobs[j].built # << >>
  <2>1. Sendable(jobs[j].todo, Len(jobs[j].built)) /\ Head(jobs[j].todo) = jobs[j].todo[1]
        /\ 1 \in 1..Len(jobs[j].todo)
    BY <1>1, <1>2, NextStep, TailSteps
  <2>2. Len(jobs[j].built) >= 1
    BY <1>1, <2>1 DEF Sendable, IsSend, EventBefore
  <2> QED BY <1>2, <2>2
<1>5. 1 \in 1..Len(jobs[j].built) /\ event.job = j
  BY <1>2, <1>4 DEF Typed
<1> HIDE DEF event
<1>6. \A step : ~Waits(j, step)
  BY <1>4 DEF Waits, NothingOut
<1>7. \A i \in 1..Len(job.todo) : Fits(job.todo[i], jobs[j].about)
  BY <1>1, <1>3, StepOfJob
<1>8. Tables' /\ Grows
  BY <1>1, <1>2 DEF Tables, Grows
<1>20. jobs'[j] = job /\ \A k \in Jobs : k # j => jobs'[k] = jobs[k]
  BY <1>1, <1>2, <1>3, <1>4 DEF Typed
<1>21. \A e \in sent' : e \in sent \/ e.job = j
  BY <1>1, <1>5
<1> QED BY <1>1, <1>2, <1>3, <1>5, <1>6, <1>7, <1>8, <1>20, <1>21, OneWriter, ZenonT(30)

LEMMA StartJobStored ==
  ASSUME ProcessorInv, Stored, NEW j \in Jobs, NEW slot \in Slots, StartJob(j, slot)
  PROVE  Stored'
<1>1. PICK handler \in HandlerOf(slot), about \in SubjectsOf(slot) :
        jobs' = [jobs EXCEPT ![j] =
                  [NoJob EXCEPT !.slot = slot, !.todo = handler, !.about = about]]
  BY DEF StartJob
<1>2. /\ jobs[j].slot = "none" /\ slot # "none"
      /\ UNCHANGED <<openIdType, directChannel, saved, unsaved, sent>>
  <2>1. slot # "none"
    BY <1>1 DEF HandlerOf
  <2> QED BY <2>1 DEF StartJob
<1>3. Typed /\ Tables /\ \A k \in Jobs : InOrder(k)
  BY DEF ProcessorInv, Stored
<1>4. /\ jobs'[j].slot = slot /\ jobs'[j].todo = handler /\ jobs'[j].about = about
      /\ jobs'[j].built = << >>
      /\ \A k \in Jobs : k # j => jobs'[k] = jobs[k]
  BY <1>1, <1>3 DEF Typed, NoJob
<1>5. FitsHandler(slot, about, handler)
  BY HandlersFit
<1>6. NothingOut(j)'
  BY <1>2, <1>3, <1>4 DEF InOrder, NothingOut
<1>7. InOrder(j)'
  BY <1>2, <1>4, <1>5, <1>6 DEF InOrder, FitsHandler, Waits
<1>8. ASSUME NEW k \in Jobs, k # j
      PROVE  InOrder(k)'
  <2>1. jobs'[k] = jobs[k] /\ UNCHANGED <<openIdType, directChannel, saved, unsaved, sent>>
    BY <1>2, <1>4, <1>8
  <2>2. NothingOut(k) <=> NothingOut(k)'
    BY <2>1 DEF NothingOut
  <2>3. \A step : /\ Waits(k, step) => Waits(k, step)'
                  /\ Written(k, step) => Written(k, step)'
    BY <2>1, <2>2 DEF Waits, Written
  <2> QED BY <1>3, <2>1, <2>2, <2>3 DEF InOrder
<1>9. Tables'
  BY <1>2, <1>3 DEF Tables
<1> QED BY <1>7, <1>8, <1>9 DEF Stored

LEMMA JobStepStored ==
  ASSUME ProcessorInv, Stored, NEW j \in Jobs, JobStep(j)
  PROVE  Stored'
BY SaveEventIDStored, MayFailStored, SetsStatusStored, SetsTableStored, SavesMessageStored,
   BuildsEventStored, BroadcastEventStored DEF JobStep

(* What a step of a goroutine leaves behind, for the requests.               *)
LEMMA TablesGrow ==
  ASSUME ProcessorInv, Stored, NEW j \in Jobs, JobStep(j)
  PROVE  Grows
<1>1. CASE SetsTable(j)
  <2>1. jobs[j].todo # << >> /\ Head(jobs[j].todo)[1] = "table"
    BY <1>1 DEF SetsTable, Does
  <2>2. Tables /\ Fits(Head(jobs[j].todo), jobs[j].about)
    BY <2>1, StepOfJob
  <2>3. UNCHANGED <<saved, unsaved>>
    BY <1>1 DEF SetsTable
  <2>4. CASE Arg(j, 1) = "direct"
    BY <1>1, <2>3, <2>4 DEF SetsTable, Grows
  <2>5. CASE Arg(j, 1) # "direct"
    <3>1. /\ openIdType' = [openIdType EXCEPT ![jobs[j].about] = Arg(j, 1)]
          /\ UNCHANGED directChannel
      BY <1>1, <2>5 DEF SetsTable
    <3>2. Arg(j, 1) = "private" \/ jobs[j].about \in Groups
      BY <2>1, <2>2, <2>5 DEF Fits, Arg
    <3> QED BY <2>2, <2>3, <3>1, <3>2, ProcessorAssumption DEF Tables, Grows, OpenIds
  <2> QED BY <2>4, <2>5
<1>2. CASE ~SetsTable(j)
  BY <1>2 DEF JobStep, SaveEventID, MayFail, SetsStatus, SavesMessage, BuildsEvent,
              BroadcastEvent, Grows
<1> QED BY <1>1, <1>2
-----------------------------------------------------------------------------
(* What the table of handlers may hold: only a reaction is refused after it  *)
(* was carried out, and only user.channel.create writes a table.             *)
Requests == {
  "none", "PostDirectMessage", "PostMessage", "PostC2CMessage", "PostGroupMessage",
  "RetractDMMessage", "RetractMessage", "Message", "Messages", "PatchMessage",
  "PostChannel", "PatchChannel", "DeleteChannel", "Channel", "Channels", "Guild",
  "MeGuilds", "CreateDirectMessage", "GuildMember", "GuildMembers", "DeleteGuildMember",
  "MemberMute", "MemberAddRole", "MemberDeleteRole", "Roles", "PostRole", "PatchRole",
  "DeleteRole", "CreateMessageReaction", "DeleteOwnMessageReaction",
  "GetMessageReactionUsers", "Me"}

Plans == [call : Requests, then : {"nothing", "private", "direct"}, answer : Codes]
Reactions == {"reaction.create", "reaction.delete"}

Sane(q, plan) ==
  /\ plan \in Plans
  /\ plan.call = "none" \/ plan.answer \in {"200", "500"} \/ q.method \in Reactions
  /\ plan.then # "nothing" =>
       /\ q.method = "user.channel.create"
       /\ plan.then = IF q.platform = "qqguild" THEN "direct" ELSE "private"

LEMMA SimplePlans ==
  ASSUME NEW q
  PROVE  /\ \A code \in Codes : Sane(q, Answers(code))
         /\ Sane(q, BadRequest) /\ Sane(q, NotFound)
         /\ \A name \in Requests : Sane(q, CallsPlatform(name))
BY DEF Sane, Plans, Answers, BadRequest, NotFound, CallsPlatform, Codes, Requests, Requests

LEMMA EitherPlan ==
  ASSUME NEW q, NEW a, NEW b, Sane(q, a), Sane(q, b)
  PROVE  Sane(q, PerPlatform(q, a, b))
BY SimplePlans DEF PerPlatform

LEMMA GuildPlans ==
  ASSUME NEW q, NEW name \in Requests, NEW code \in Codes
  PROVE  /\ Sane(q, GuildOnly(q, name))
         /\ Sane(q, GuildOnlyUnless(q, name, Answers(code)))
<1>1. /\ Sane(q, CallsPlatform(name)) /\ Sane(q, NotFound) /\ Sane(q, Answers(code))
  BY SimplePlans
<1>2. Sane(q, IF q.flaw = "argument" THEN Answers(code) ELSE CallsPlatform(name))
  BY <1>1
<1> QED BY <1>1, <1>2, EitherPlan DEF GuildOnly, GuildOnlyUnless

LEMMA MessagePlans ==
  ASSUME NEW q
  PROVE  /\ Sane(q, HandleMessageCreate(q)) /\ Sane(q, HandleMessageDelete(q))
         /\ Sane(q, HandleMessageGet(q)) /\ Sane(q, HandleMessageList(q))
         /\ Sane(q, HandleMessageUpdate(q))
<1>1. Sane(q, HandleMessageCreate(q))
  <2> DEFINE onQQGuild == CallsPlatform(IF IsDirect(q) THEN "PostDirectMessage" ELSE "PostMessage")
             onQQ == CallsPlatform(IF TypeOf(q) = "private" THEN "PostC2CMessage"
                                   ELSE "PostGroupMessage")
  <2>1. Sane(q, onQQGuild) /\ Sane(q, onQQ) /\ Sane(q, Answers("500"))
    BY SimplePlans DEF Codes, Requests
  <2> HIDE DEF onQQGuild, onQQ
  <2>2. Sane(q, PerPlatform(q, onQQGuild, onQQ))
    BY <2>1, EitherPlan
  <2> QED BY <2>1, <2>2 DEF HandleMessageCreate, onQQGuild, onQQ
<1>2. Sane(q, HandleMessageDelete(q))
  <2> DEFINE name == IF IsDirect(q) THEN "RetractDMMessage" ELSE "RetractMessage"
  <2>1. name \in Requests /\ "200" \in Codes
    BY DEF Codes, Requests
  <2> HIDE DEF name
  <2>2. Sane(q, GuildOnly(q, name))
    BY <2>1, GuildPlans
  <2> QED BY <2>2 DEF HandleMessageDelete, name
<1>3. Sane(q, HandleMessageGet(q))
  <2> DEFINE onQQ == Answers(IF GetMessage(q) THEN "200" ELSE "500")
  <2>1. Sane(q, onQQ) /\ Sane(q, CallsPlatform("Message"))
    BY SimplePlans DEF Codes, Requests
  <2> HIDE DEF onQQ
  <2> QED BY <2>1, EitherPlan DEF HandleMessageGet, onQQ
<1>4. Sane(q, HandleMessageList(q))
  <2>1. Sane(q, Answers("200")) /\ Sane(q, CallsPlatform("Messages")) /\ Sane(q, BadRequest)
    BY SimplePlans DEF Codes, Requests
  <2>2. Sane(q, PerPlatform(q, CallsPlatform("Messages"), Answers("200")))
    BY <2>1, EitherPlan
  <2> QED BY <2>1, <2>2 DEF HandleMessageList
<1>5. Sane(q, HandleMessageUpdate(q))
  BY GuildPlans DEF HandleMessageUpdate, Codes, Requests
<1> QED BY <1>1, <1>2, <1>3, <1>4, <1>5

LEMMA ChannelPlans ==
  ASSUME NEW q
  PROVE  /\ Sane(q, HandleChannelCreate(q)) /\ Sane(q, HandleChannelUpdate(q))
         /\ Sane(q, HandleChannelDelete(q)) /\ Sane(q, HandleChannelGet(q))
         /\ Sane(q, HandleChannelList(q)) /\ Sane(q, HandleGuildGet(q))
<1>1. /\ Sane(q, HandleChannelCreate(q)) /\ Sane(q, HandleChannelUpdate(q))
      /\ Sane(q, HandleChannelDelete(q))
  BY GuildPlans DEF HandleChannelCreate, HandleChannelUpdate, HandleChannelDelete,
                    BadRequest, Codes, Requests
<1>2. Sane(q, HandleChannelGet(q))
  <2> DEFINE onQQGuild == IF IsDirect(q) THEN Answers("200") ELSE CallsPlatform("Channel")
             onQQ == Answers(IF TypeOf(q) = "none" THEN "500" ELSE "200")
  <2>1. Sane(q, onQQGuild) /\ Sane(q, onQQ)
    BY SimplePlans DEF Codes, Requests
  <2> HIDE DEF onQQGuild, onQQ
  <2> QED BY <2>1, EitherPlan DEF HandleChannelGet, onQQGuild, onQQ
<1>3. Sane(q, HandleChannelList(q))
  <2>1. Sane(q, Answers("200")) /\ Sane(q, CallsPlatform("Channels"))
    BY SimplePlans DEF Codes, Requests
  <2> QED BY <2>1, EitherPlan DEF HandleChannelList
<1>4. Sane(q, HandleGuildGet(q))
  <2> DEFINE onQQ == Answers(IF TypeOf(q) = "group" THEN "200" ELSE "500")
  <2>1. Sane(q, onQQ) /\ Sane(q, CallsPlatform("Guild"))
    BY SimplePlans DEF Codes, Requests
  <2> HIDE DEF onQQ
  <2> QED BY <2>1, EitherPlan DEF HandleGuildGet, onQQ
<1> QED BY <1>1, <1>2, <1>3, <1>4

LEMMA GuildMemberPlans ==
  ASSUME NEW q
  PROVE  /\ Sane(q, HandleGuildMemberGet(q)) /\ Sane(q, HandleGuildMemberList(q))
         /\ Sane(q, HandleGuildMemberKick(q)) /\ Sane(q, HandleGuildMemberMute(q))
         /\ Sane(q, HandleGuildMemberRoleSet(q)) /\ Sane(q, HandleGuildMemberRoleUnset(q))
         /\ Sane(q, HandleGuildRoleList(q)) /\ Sane(q, HandleGuildRoleCreate(q))
         /\ Sane(q, HandleGuildRoleUpdate(q)) /\ Sane(q, HandleGuildRoleDelete(q))
<1>1. /\ Sane(q, HandleGuildMemberGet(q)) /\ Sane(q, HandleGuildMemberList(q))
      /\ Sane(q, HandleGuildMemberKick(q)) /\ Sane(q, HandleGuildMemberMute(q))
      /\ Sane(q, HandleGuildMemberRoleSet(q)) /\ Sane(q, HandleGuildMemberRoleUnset(q))
  BY GuildPlans DEF Codes, Requests, HandleGuildMemberGet, HandleGuildMemberList,
     HandleGuildMemberKick, HandleGuildMemberMute, HandleGuildMemberRoleSet,
     HandleGuildMemberRoleUnset
<1>2. /\ Sane(q, HandleGuildRoleList(q)) /\ Sane(q, HandleGuildRoleCreate(q))
      /\ Sane(q, HandleGuildRoleUpdate(q)) /\ Sane(q, HandleGuildRoleDelete(q))
  BY GuildPlans DEF Codes, Requests, HandleGuildRoleList, HandleGuildRoleCreate,
     HandleGuildRoleUpdate, HandleGuildRoleDelete
<1> QED BY <1>1, <1>2

LEMMA OtherPlans ==
  ASSUME NEW q
  PROVE  /\ Sane(q, HandleGuildList(q))
         /\ q.method = "user.channel.create" => Sane(q, HandleUserChannelCreate(q))
         /\ q.method = "reaction.create" => Sane(q, HandleReactionCreate(q))
         /\ q.method = "reaction.delete" => Sane(q, HandleReactionDelete(q))
         /\ Sane(q, HandleReactionList(q)) /\ Sane(q, HandleLoginGet(q))
         /\ Sane(q, HandleUploadCreate(q))
<1>1. Sane(q, HandleGuildList(q))
  <2> DEFINE onQQGuild == [CallsPlatform("MeGuilds") EXCEPT !.answer = "500"]
  <2>1. Sane(q, Answers("200"))
    BY SimplePlans DEF Codes, Requests
  <2>2. Sane(q, onQQGuild)
    BY DEF Sane, Plans, CallsPlatform, Codes, Requests
  <2> HIDE DEF onQQGuild
  <2> QED BY <2>1, <2>2, EitherPlan DEF HandleGuildList, onQQGuild
<1>2. ASSUME q.method = "user.channel.create"
      PROVE  Sane(q, HandleUserChannelCreate(q))
  <2>1. Sane(q, BadRequest) /\ Sane(q, Answers("200"))
    BY SimplePlans DEF Codes, Requests
  <2>2. q.platform = "qqguild" =>
          Sane(q, [CallsPlatform("CreateDirectMessage") EXCEPT !.then = "direct"])
    BY <1>2 DEF Sane, Plans, CallsPlatform, Codes, Requests
  <2>3. q.platform # "qqguild" => Sane(q, Sets("private"))
    BY <1>2 DEF Sane, Plans, Sets, Codes, Requests
  <2> QED BY <2>1, <2>2, <2>3 DEF HandleUserChannelCreate, PerPlatform
<1>3. ASSUME NEW plan, Sane(q, plan), q.method \in Reactions
      PROVE  Sane(q, FallingThrough(plan))
  BY <1>3 DEF Sane, Plans, FallingThrough, Codes, Requests, Reactions
<1>4. ASSUME q.method \in Reactions
      PROVE  Sane(q, HandleReactionCreate(q)) /\ Sane(q, HandleReactionDelete(q))
  <2>1. /\ Sane(q, GuildOnly(q, "CreateMessageReaction"))
        /\ Sane(q, GuildOnlyUnless(q, "DeleteOwnMessageReaction", BadRequest))
    BY GuildPlans DEF Codes, Requests, BadRequest
  <2> QED BY <1>3, <1>4, <2>1 DEF HandleReactionCreate, HandleReactionDelete
<1>5. Sane(q, HandleReactionList(q)) /\ Sane(q, HandleLoginGet(q)) /\ Sane(q, HandleUploadCreate(q))
  BY GuildPlans, SimplePlans DEF Codes, Requests, HandleReactionList, HandleLoginGet, HandleUploadCreate
<1> QED BY <1>1, <1>2, <1>4, <1>5 DEF Reactions

LEMMA AnyPlan ==
  ASSUME NEW q
  PROVE  Sane(q, Plan(q))
<1>1. Sane(q, CallAPI(q))
  BY MessagePlans, ChannelPlans, GuildMemberPlans, OtherPlans, SimplePlans DEF CallAPI
<1>2. Sane(q, CallMetaAPI(q)) /\ Sane(q, ProxyValidate(q))
  BY SimplePlans DEF CallMetaAPI, ProxyValidate, Codes
<1>3. ASSUME NEW more \in SUBSET {BadRequest},
             HeadersValidate(q) \cup Authenticate(q) \cup more # {}
      PROVE  Sane(q, CHOOSE p \in HeadersValidate(q) \cup Authenticate(q) \cup more : TRUE)
  BY <1>3, SimplePlans DEF HeadersValidate, Authenticate, Codes
<1>4. BotValidate(q) \in SUBSET {BadRequest}
  BY DEF BotValidate
<1> QED BY <1>1, <1>2, <1>3, <1>4 DEF Plan
-----------------------------------------------------------------------------
(* What a client knows is so, and a request that is decided will get what    *)
(* its plan holds.                                                           *)
CallStates ==
  [pc : {"none", "plan", "call", "finish", "answered"}, method : Methods,
   platform : Platforms, about : Subjects, message : Jobs, flaw : Flaws,
   knew : SUBSET {"private", "direct", "stored"}, plan : Plans, called : BOOLEAN,
   answer : Codes \cup {"none"}]

KnowsTrue(q) ==
  /\ "private" \in q.knew => q.about \in Users /\ openIdType[q.about] = "private"
  /\ "direct" \in q.knew => q.about \in directChannel
  /\ "stored" \in q.knew =>
       \/ /\ q.about \in Users /\ openIdType[q.about] = "private"
          /\ <<"private", q.message>> \in saved
       \/ q.about \in Groups /\ <<"group", q.message>> \in saved

ToldTrue ==
  \A about :
    /\ <<about, "private">> \in told => about \in Users /\ openIdType[about] = "private"
    /\ <<about, "direct">> \in told => about \in directChannel

Decided == {"call", "finish", "answered"}

Refusals == {"400", "401", "403", "404"}

Planned(q) ==
  /\ q.pc \notin Decided => ~q.called /\ q.answer = "none"
  /\ q.pc \in Decided =>
       /\ Sane(q, q.plan)
       /\ q.called \/ q.pc = "call" => q.plan.call # "none"
       /\ q.pc # "answered" => q.answer = "none"
       /\ q.answer \in Refusals /\ q.method \notin Reactions => ~q.called
  /\ q.pc # "none" /\ q.method = "user.channel.create" =>
       q.about \in (IF q.platform = "qq" THEN Users ELSE DirectChannels)

FindsChannel(q) ==
  q.method = "message.create" /\ q.flaw = "none" =>
    /\ q.platform = "qq" /\ "private" \in q.knew => q.plan.call = "PostC2CMessage"
    /\ q.platform = "qq" /\ q.about \in Groups => q.plan.call = "PostGroupMessage"
    /\ q.platform = "qqguild" /\ "direct" \in q.knew => q.plan.call = "PostDirectMessage"

AsksForStored(q) ==
  /\ q.method = "message.get" /\ q.platform = "qq" /\ q.flaw = "none"
  /\ "stored" \in q.knew

CallInv(q) ==
  /\ KnowsTrue(q) /\ Planned(q)
  /\ q.pc \in Decided => FindsChannel(q)
  /\ q.pc \in Decided /\ AsksForStored(q) => q.pc = "answered" /\ q.answer = "200"

ApiInv ==
  /\ ProcessorInv /\ Stored /\ ToldTrue
  /\ calls \in [Calls -> CallStates] /\ \A c \in Calls : CallInv(calls[c])

LEMMA TruthStays ==
  ASSUME Grows, NEW q
  PROVE  KnowsTrue(q) => KnowsTrue(q)'
BY DEF Grows, KnowsTrue

(* What was written before the event is found by who has received it.        *)
LEMMA SentWritten ==
  ASSUME ProcessorInv, Stored, NEW e \in sent
  PROVE  /\ e.job \in Jobs /\ jobs[e.job].slot # "none"
         /\ jobs[e.job].about \in SubjectsOf(jobs[e.job].slot)
         /\ \A step \in Writes(jobs[e.job].slot) : Written(e.job, step)
<1>1. e.job \in Jobs
  BY DEF ProcessorInv, Typed, Events
<1>2. InOrder(e.job) /\ ~NothingOut(e.job)
  BY <1>1 DEF Stored, NothingOut
<1> QED BY <1>1, <1>2 DEF InOrder, Waits

LEMMA ClientsKnow ==
  ASSUME ProcessorInv, Stored, ToldTrue, NEW about, NEW message, NEW q,
         q.knew = Knows(about, message), q.about = about, q.message = message
  PROVE  KnowsTrue(q)
<1>1. ASSUME "private" \in Knows(about, message)
      PROVE  about \in Users /\ openIdType[about] = "private"
  <2>1. CASE <<about, "private">> \in told
    BY <2>1 DEF ToldTrue
  <2>2. CASE about \in Said({"C2CMessage"})
    <3>1. PICK e \in sent : jobs[e.job].slot = "C2CMessage" /\ jobs[e.job].about = about
      BY <2>2 DEF Said
    <3>2. Table("private") \in Writes(jobs[e.job].slot)
      BY <3>1 DEF Writes
    <3>3. Written(e.job, Table("private"))
      BY <3>2, SentWritten
    <3>4. about \in Users
      BY <3>1, SentWritten DEF SubjectsOf
    <3> QED BY <3>1, <3>3, <3>4 DEF Written, Table, Save
  <2> QED BY <1>1, <2>1, <2>2 DEF Knows
<1>2. ASSUME "direct" \in Knows(about, message)
      PROVE  about \in directChannel
  <2>1. CASE <<about, "direct">> \in told
    BY <2>1 DEF ToldTrue
  <2>2. CASE about \in Said({"DirectMessage"})
    <3>1. PICK e \in sent : jobs[e.job].slot = "DirectMessage" /\ jobs[e.job].about = about
      BY <2>2 DEF Said
    <3>2. Table("direct") \in Writes(jobs[e.job].slot)
      BY <3>1 DEF Writes
    <3>3. Written(e.job, Table("direct"))
      BY <3>2, SentWritten
    <3> QED BY <3>1, <3>3 DEF Written, Table, Save
  <2> QED BY <1>2, <2>1, <2>2 DEF Knows
<1>3. ASSUME "stored" \in Knows(about, message)
      PROVE  \/ /\ about \in Users /\ openIdType[about] = "private"
                /\ <<"private", message>> \in saved
             \/ about \in Groups /\ <<"group", message>> \in saved
  <2>1. PICK e \in sent : /\ e.job = message /\ message \notin unsaved
                          /\ jobs[message].slot \in {"C2CMessage", "GroupATMessage"}
                          /\ jobs[message].about = about
    BY <1>3 DEF Knows
  <2>2. CASE jobs[message].slot = "C2CMessage"
    <3>1. {Table("private"), Save("private")} \subseteq Writes(jobs[message].slot)
      BY <2>2 DEF Writes
    <3>2. Written(message, Table("private")) /\ Written(message, Save("private"))
      BY <2>1, <3>1, SentWritten
    <3>3. about \in Users
      BY <2>1, <2>2, SentWritten DEF SubjectsOf
    <3> QED BY <2>1, <3>2, <3>3 DEF Written, Table, Save
  <2>3. CASE jobs[message].slot = "GroupATMessage"
    <3>1. Save("group") \in Writes(jobs[message].slot)
      BY <2>3 DEF Writes
    <3>2. Written(message, Save("group"))
      BY <2>1, <3>1, SentWritten
    <3>3. about \in Groups
      BY <2>1, <2>3, SentWritten DEF SubjectsOf
    <3> QED BY <2>1, <3>2, <3>3 DEF Written, Table, Save
  <2> QED BY <2>1, <2>2, <2>3
<1> QED BY <1>1, <1>2, <1>3 DEF KnowsTrue

(* A plan made from what the client knows.                                   *)
LEMMA PlanFinds ==
  ASSUME Tables, NEW q, KnowsTrue(q), q.flaw = "none"
  PROVE  /\ q.method = "message.create" =>
              /\ q.platform = "qq" /\ "private" \in q.knew => Plan(q).call = "PostC2CMessage"
              /\ q.platform = "qq" /\ q.about \in Groups => Plan(q).call = "PostGroupMessage"
              /\ q.platform = "qqguild" /\ "direct" \in q.knew =>
                   Plan(q).call = "PostDirectMessage"
         /\ AsksForStored(q) => Plan(q) = Answers("200")
<1>1. HeadersValidate(q) = {} /\ Authenticate(q) = {} /\ BotValidate(q) = {}
  BY DEF HeadersValidate, Authenticate, BotValidate
<1>2. /\ q.method = "message.create" => Plan(q) = CallAPI(q)
      /\ q.method = "message.get" => Plan(q) = CallAPI(q)
  BY <1>1 DEF Plan, ProxyMethods, MetaMethods
<1>3. /\ q.method = "message.create" => CallAPI(q) = HandleMessageCreate(q)
      /\ q.method = "message.get" => CallAPI(q) = HandleMessageGet(q)
  BY DEF CallAPI
<1>4. /\ "private" \in q.knew => TypeOf(q) = "private"
      /\ q.about \in Groups => TypeOf(q) # "private"
      /\ "direct" \in q.knew => IsDirect(q)
  BY DEF KnowsTrue, Tables, TypeOf, IsDirect, OpenIds
<1>5. q.method = "message.create" =>
        /\ q.platform = "qq" /\ "private" \in q.knew => Plan(q).call = "PostC2CMessage"
        /\ q.platform = "qq" /\ q.about \in Groups => Plan(q).call = "PostGroupMessage"
        /\ q.platform = "qqguild" /\ "direct" \in q.knew => Plan(q).call = "PostDirectMessage"
  BY <1>2, <1>3, <1>4 DEF HandleMessageCreate, PerPlatform, CallsPlatform
<1>6. AsksForStored(q) => Plan(q) = Answers("200")
  <2> SUFFICES ASSUME AsksForStored(q)
               PROVE  Plan(q) = Answers("200")
    OBVIOUS
  <2>1. GetMessage(q)
    BY DEF AsksForStored, GetMessage, KnowsTrue, Tables, TypeOf, OpenIds
  <2> QED BY <1>2, <1>3, <2>1 DEF AsksForStored, HandleMessageGet, PerPlatform
<1> QED BY <1>5, <1>6
-----------------------------------------------------------------------------
(* The steps of a request.                                                   *)
LEMMA NoCallKnown ==
  /\ NoCall \in CallStates /\ NoCall.pc = "none" /\ NoCall.knew = {}
  /\ ~NoCall.called /\ NoCall.answer = "none"
<1>1. Jobs # {}
  BY ProcessorAssumption, FS_EmptySet
<1>2. (CHOOSE j \in Jobs : TRUE) \in Jobs
  BY <1>1
<1>3. NotFound \in Plans
  BY DEF NotFound, Answers, Plans, Requests, Codes
<1> QED BY <1>2, <1>3 DEF NoCall, CallStates, Methods, Platforms, Subjects, Flaws

LEMMA OneCall ==
  ASSUME ProcessorInv', Stored', ToldTrue', Grows,
         calls \in [Calls -> CallStates], \A c \in Calls : CallInv(calls[c]),
         NEW c \in Calls, NEW q \in CallStates, calls' = [calls EXCEPT ![c] = q], CallInv(q)'
  PROVE  ApiInv'
<1>1. ASSUME NEW b \in Calls, b # c
      PROVE  CallInv(calls[b])'
  <2>1. calls'[b] = calls[b] /\ CallInv(calls[b])
    BY <1>1
  <2>2. KnowsTrue(calls[b])'
    BY <2>1, TruthStays DEF CallInv, KnowsTrue, Grows
  <2>3. Planned(calls[b])'
    BY <2>1 DEF CallInv, Planned, Sane
  <2>4. /\ FindsChannel(calls[b])' <=> FindsChannel(calls[b])
        /\ AsksForStored(calls[b])' <=> AsksForStored(calls[b])
    BY <2>1 DEF FindsChannel, AsksForStored
  <2> QED BY <2>1, <2>2, <2>3, <2>4 DEF CallInv
<1>2. CallInv(calls[c])'
  <2>1. calls'[c] = q
    OBVIOUS
  <2> QED BY <2>1 DEF CallInv, KnowsTrue, Planned, FindsChannel, AsksForStored
<1>3. calls' \in [Calls -> CallStates]
  OBVIOUS
<1> QED BY <1>1, <1>2, <1>3 DEF ApiInv

(* While the tables stay.                                                    *)
LEMMA TablesStay ==
  ASSUME ApiInv, UNCHANGED <<processorVars, told>>
  PROVE  ProcessorInv' /\ Stored' /\ ToldTrue' /\ Grows
<1>1. UNCHANGED <<jobs, count, status, openIdType, directChannel, saved, unsaved, sent, told>>
  BY DEF processorVars
<1>2. ProcessorInv'
  BY <1>1, ProcessorStays DEF ApiInv
<1>3. \A j : NothingOut(j)' <=> NothingOut(j)
  BY <1>1 DEF NothingOut
<1>4. \A j, step : /\ Written(j, step)' <=> Written(j, step)
                   /\ Waits(j, step)' <=> Waits(j, step)
  BY <1>1, <1>3 DEF Written, Waits
<1>5. Stored'
  BY <1>1, <1>3, <1>4 DEF ApiInv, Stored, Tables, InOrder
<1>6. ToldTrue' /\ Grows
  BY <1>1 DEF ApiInv, ToldTrue, Grows
<1> QED BY <1>2, <1>5, <1>6

LEMMA ArriveInv ==
  ASSUME ApiInv, NEW c \in Calls, NEW method \in Methods, NEW platform \in Platforms,
         NEW about \in Subjects, NEW message \in Jobs, NEW flaw \in Flaws,
         Arrive(c, method, platform, about, message, flaw)
  PROVE  ApiInv'
<1>0. PICK q : q = [NoCall EXCEPT !.pc = "plan", !.method = method, !.platform = platform,
                                  !.about = about, !.message = message, !.flaw = flaw,
                                  !.knew = Knows(about, message)]
  OBVIOUS
<1>1. /\ calls' = [calls EXCEPT ![c] = q] /\ UNCHANGED <<processorVars, told>>
      /\ method = "user.channel.create" =>
           about \in (IF platform = "qq" THEN Users ELSE DirectChannels)
  BY <1>0 DEF Arrive
<1>2. Knows(about, message) \in SUBSET {"private", "direct", "stored"}
  BY DEF Knows
<1>3. /\ q \in CallStates /\ q.pc = "plan" /\ q.method = method /\ q.platform = platform
      /\ q.about = about /\ q.message = message /\ q.flaw = flaw
      /\ q.knew = Knows(about, message) /\ ~q.called /\ q.answer = "none"
  BY <1>0, <1>2, NoCallKnown DEF CallStates
<1>4. KnowsTrue(q)
  BY <1>3, ClientsKnow DEF ApiInv
<1>5. KnowsTrue(q)'
  BY <1>1, <1>4 DEF KnowsTrue, processorVars
<1>6. Planned(q)
  BY <1>1, <1>3 DEF Planned, Decided
<1>7. CallInv(q)'
  BY <1>3, <1>5, <1>6 DEF CallInv, Decided, Planned
<1> QED BY <1>1, <1>3, <1>7, TablesStay, OneCall DEF ApiInv

LEMMA DecideInv ==
  ASSUME ApiInv, NEW c \in Calls, Decide(c)
  PROVE  ApiInv'
<1> DEFINE plan == Plan(calls[c])
           pc == IF plan.call # "none" THEN "call"
                 ELSE IF plan.then # "nothing" THEN "finish" ELSE "answered"
           answer == IF plan.call = "none" /\ plan.then = "nothing" THEN plan.answer
                     ELSE "none"
<1>0. PICK q : q = [calls[c] EXCEPT !.plan = plan, !.pc = pc, !.answer = answer]
  OBVIOUS
<1>1. calls[c].pc = "plan" /\ UNCHANGED <<processorVars, told>>
  BY DEF Decide
<1>2. calls[c] \in CallStates /\ CallInv(calls[c]) /\ Tables
  BY DEF ApiInv, Stored
<1>3. Sane(calls[c], plan) /\ plan \in Plans /\ plan.answer \in Codes
  BY AnyPlan DEF Sane, Plans
<1>4. calls' = [calls EXCEPT ![c] = q]
  BY <1>0 DEF Decide
<1>6. /\ q \in CallStates /\ q.plan = plan /\ q.pc = pc /\ q.answer = answer
      /\ q.method = calls[c].method /\ q.platform = calls[c].platform
      /\ q.about = calls[c].about /\ q.message = calls[c].message /\ q.flaw = calls[c].flaw
      /\ q.knew = calls[c].knew /\ q.called = calls[c].called /\ pc \in Decided
  BY <1>0, <1>2, <1>3 DEF CallStates, Decided
<1>7. FindsChannel(q)
  BY <1>2, <1>6, PlanFinds, ZenonT(60) DEF FindsChannel, CallInv
<1>8. AsksForStored(q) => q.pc = "answered" /\ q.answer = "200"
  <2>1. AsksForStored(q) => AsksForStored(calls[c]) /\ calls[c].flaw = "none"
    BY <1>6 DEF AsksForStored
  <2>2. AsksForStored(q) => plan = Answers("200")
    BY <1>2, <2>1, PlanFinds DEF CallInv
  <2> QED BY <1>6, <2>2 DEF Answers
<1>9. ~calls[c].called /\ (calls[c].method = "user.channel.create" =>
        calls[c].about \in (IF calls[c].platform = "qq" THEN Users ELSE DirectChannels))
  BY <1>1, <1>2 DEF CallInv, Planned, Decided
<1>10. Planned(q)
  <2>1. Sane(q, q.plan)
    BY <1>3, <1>6 DEF Sane
  <2>2. q.pc = "call" => q.plan.call # "none"
    BY <1>6
  <2> QED BY <1>6, <1>9, <2>1, <2>2 DEF Planned
<1>11. KnowsTrue(q)
  BY <1>2, <1>6 DEF KnowsTrue, CallInv
<1>12. CallInv(q)'
  <2>1. KnowsTrue(q)'
    BY <1>1, <1>11 DEF KnowsTrue, processorVars
  <2> QED BY <1>7, <1>8, <1>10, <2>1 DEF CallInv, Planned, FindsChannel, AsksForStored
<1> QED BY <1>1, <1>4, <1>6, <1>12, TablesStay, OneCall DEF ApiInv

LEMMA CallPlatformInv ==
  ASSUME ApiInv, NEW c \in Calls, CallPlatform(c)
  PROVE  ApiInv'
<1>1. calls[c].pc = "call" /\ UNCHANGED <<processorVars, told>>
  BY DEF CallPlatform
<1>2. PICK pc \in {"answered", "finish"}, answer \in {"500", calls[c].answer},
           called \in BOOLEAN :
        /\ calls' = [calls EXCEPT ![c] =
             [calls[c] EXCEPT !.pc = pc, !.answer = answer, !.called = called]]
        /\ pc = "finish" => answer = calls[c].answer
  <2>1. calls[c] \in CallStates
    BY DEF ApiInv
  <2>2. CASE \E done \in BOOLEAN :
               calls' = [calls EXCEPT ![c].pc = "answered", ![c].answer = "500",
                                      ![c].called = done]
    BY <2>2, ZenonT(60)
  <2>3. CASE calls' = [calls EXCEPT ![c].pc = "finish", ![c].called = TRUE]
    <3>1. [calls[c] EXCEPT !.pc = "finish", !.called = TRUE]
            = [calls[c] EXCEPT !.pc = "finish", !.answer = calls[c].answer, !.called = TRUE]
      BY <2>1 DEF CallStates
    <3> QED BY <2>3, <3>1
  <2> QED BY <2>2, <2>3 DEF CallPlatform
<1>0. PICK q : q = [calls[c] EXCEPT !.pc = pc, !.answer = answer, !.called = called]
  OBVIOUS
<1>3. calls[c] \in CallStates /\ CallInv(calls[c])
  BY DEF ApiInv
<1>4. /\ q \in CallStates /\ q.plan = calls[c].plan /\ q.pc = pc /\ q.answer = answer
      /\ q.method = calls[c].method /\ q.platform = calls[c].platform
      /\ q.about = calls[c].about /\ q.message = calls[c].message /\ q.flaw = calls[c].flaw
      /\ q.knew = calls[c].knew /\ q.called = called
  BY <1>0, <1>3 DEF CallStates, Codes
<1>5. /\ Sane(calls[c], calls[c].plan) /\ calls[c].plan.call # "none"
      /\ FindsChannel(calls[c]) /\ ~AsksForStored(calls[c])
      /\ calls[c].method = "user.channel.create" =>
           calls[c].about \in (IF calls[c].platform = "qq" THEN Users ELSE DirectChannels)
      /\ calls[c].answer \in Refusals /\ calls[c].method \notin Reactions => ~calls[c].called
  BY <1>1, <1>3 DEF CallInv, Planned, Decided
<1>6. calls[c].answer = "none"
  BY <1>1, <1>3 DEF CallInv, Planned, Decided
<1>7. Planned(q)
  <2>1. Sane(q, q.plan)
    BY <1>4, <1>5 DEF Sane
  <2> QED BY <1>2, <1>4, <1>5, <1>6, <2>1 DEF Planned, Decided, Refusals
<1>8. FindsChannel(q) /\ ~AsksForStored(q) /\ KnowsTrue(q)
  BY <1>3, <1>4, <1>5 DEF FindsChannel, AsksForStored, KnowsTrue, CallInv
<1>9. CallInv(q)'
  <2>1. KnowsTrue(q)'
    BY <1>1, <1>8 DEF KnowsTrue, processorVars
  <2> QED BY <1>7, <1>8, <2>1 DEF CallInv, Planned, FindsChannel, AsksForStored
<1>10. calls' = [calls EXCEPT ![c] = q]
  BY <1>0, <1>2
<1> QED BY <1>1, <1>4, <1>9, <1>10, TablesStay, OneCall DEF ApiInv

(* The handler writes its table and says so.                                 *)
LEMMA FinishInv ==
  ASSUME ApiInv, NEW c \in Calls, Finish(c)
  PROVE  ApiInv'
<1> DEFINE r == calls[c]
<1>1. /\ r.pc = "finish" /\ UNCHANGED <<jobs, count, status, saved, unsaved, sent>>
      /\ openIdType' = IF r.plan.then = "private"
                       THEN [openIdType EXCEPT ![r.about] = "private"] ELSE openIdType
      /\ directChannel' = IF r.plan.then = "direct" THEN directChannel \cup {r.about}
                          ELSE directChannel
      /\ told' = IF r.plan.then = "nothing" THEN told ELSE told \cup {<<r.about, r.plan.then>>}
  BY DEF Finish
<1>2. PICK code \in {r.plan.answer, "500"} :
        calls' = [calls EXCEPT ![c] = [r EXCEPT !.pc = "answered", !.answer = code]]
  BY DEF Finish
<1>0. PICK q : q = [r EXCEPT !.pc = "answered", !.answer = code]
  OBVIOUS
<1>3. r \in CallStates /\ CallInv(r) /\ ProcessorInv /\ Stored /\ Tables /\ ToldTrue
  BY DEF ApiInv, Stored
<1>4. /\ Sane(r, r.plan) /\ r.plan \in Plans
      /\ r.called => r.plan.call # "none"
      /\ FindsChannel(r) /\ ~AsksForStored(r) /\ KnowsTrue(r)
      /\ r.method = "user.channel.create" =>
           r.about \in (IF r.platform = "qq" THEN Users ELSE DirectChannels)
  BY <1>1, <1>3 DEF CallInv, Planned, Decided, Sane
<1>5. r.platform \in {"qq", "qqguild"} /\ r.plan.answer \in Codes
  BY <1>3, <1>4 DEF CallStates, Platforms, Plans
<1>6. /\ r.plan.then = "private" => r.about \in Users
      /\ r.plan.then = "direct" => r.about \in DirectChannels
      /\ r.plan.then \in {"nothing", "private", "direct"}
  BY <1>4, <1>5 DEF Sane, Plans
<1>7. /\ q \in CallStates /\ q.plan = r.plan /\ q.pc = "answered" /\ q.answer = code
      /\ q.method = r.method /\ q.platform = r.platform /\ q.about = r.about
      /\ q.message = r.message /\ q.flaw = r.flaw /\ q.knew = r.knew /\ q.called = r.called
  BY <1>0, <1>3, <1>5 DEF CallStates, Codes
<1>8. calls' = [calls EXCEPT ![c] = q]
  BY <1>0, <1>2
<1> HIDE DEF r
<1>9. Grows /\ Tables'
  <2>1. Users \cap Groups = {}
    BY ProcessorAssumption
  <2>2. CASE r.plan.then = "private"
    BY <1>1, <1>3, <1>6, <2>1, <2>2 DEF Grows, Tables, OpenIds
  <2>3. CASE r.plan.then = "direct"
    BY <1>1, <1>3, <1>6, <2>3 DEF Grows, Tables
  <2>4. CASE r.plan.then = "nothing"
    BY <1>1, <1>3, <2>4 DEF Grows, Tables
  <2> QED BY <1>6, <2>2, <2>3, <2>4
<1>10. ProcessorInv'
  BY <1>1, <1>3, ProcessorStays
<1>11. Stored'
  <2>1. ASSUME NEW j \in Jobs
        PROVE  InOrder(j)'
    <3>1. Typed /\ InOrder(j) /\ jobs' = jobs /\ sent' = sent
      BY <1>1, <1>3 DEF ProcessorInv, Stored
    <3>2. NothingOut(j)' <=> NothingOut(j)
      BY <3>1 DEF NothingOut
    <3>3. \A step : Waits(j, step)' <=> Waits(j, step)
      BY <3>1, <3>2 DEF Waits
    <3>4. \A step \in Writes(jobs[j].slot) : Written(j, step) => Written(j, step)'
      BY <1>9, <3>1, WrittenStays
    <3> QED BY <3>1, <3>2, <3>3, <3>4 DEF InOrder
  <2> QED BY <1>9, <2>1 DEF Stored
<1>12. ToldTrue'
  <2>1. ASSUME NEW about, <<about, "private">> \in told'
        PROVE  about \in Users /\ openIdType'[about] = "private"
    <3>1. CASE <<about, "private">> \in told
      BY <1>3, <1>9, <3>1 DEF ToldTrue, Grows
    <3>2. CASE about = r.about /\ r.plan.then = "private"
      BY <1>1, <1>3, <1>6, <3>2 DEF Tables, OpenIds
    <3> QED BY <1>1, <2>1, <3>1, <3>2
  <2>2. ASSUME NEW about, <<about, "direct">> \in told'
        PROVE  about \in directChannel'
    BY <1>1, <1>3, <1>9, <2>2 DEF ToldTrue, Grows
  <2> QED BY <2>1, <2>2 DEF ToldTrue
<1>13. CallInv(q)'
  <2>1. KnowsTrue(q)'
    BY <1>4, <1>7, <1>9 DEF KnowsTrue, Grows
  <2>2. Sane(q, q.plan)
    BY <1>4, <1>7 DEF Sane
  <2>3. Planned(q)
    BY <1>4, <1>7, <2>2 DEF Planned, Decided, Refusals, Sane
  <2>4. FindsChannel(q) /\ ~AsksForStored(q)
    BY <1>4, <1>7 DEF FindsChannel, AsksForStored
  <2> QED BY <2>1, <2>3, <2>4 DEF CallInv, Planned, FindsChannel, AsksForStored
<1> QED BY <1>7, <1>8, <1>9, <1>10, <1>11, <1>12, <1>13, OneCall DEF ApiInv

(* A step of a goroutine, as the requests see it.                            *)
LEMMA HandlerInv ==
  ASSUME ApiInv, ProcessorNext, Stored', Grows, UNCHANGED apiVars
  PROVE  ApiInv'
<1>1. ProcessorInv'
  BY ProcessorStep DEF ApiInv
<1>2. calls' = calls /\ told' = told
  BY DEF apiVars
<1>3. ToldTrue'
  BY <1>2 DEF ApiInv, ToldTrue, Grows
<1>4. ASSUME NEW c \in Calls
      PROVE  CallInv(calls[c])'
  <2>1. CallInv(calls[c]) /\ calls'[c] = calls[c]
    BY <1>2 DEF ApiInv
  <2>2. KnowsTrue(calls[c])'
    BY <2>1 DEF CallInv, KnowsTrue, Grows
  <2>3. Planned(calls[c])'
    BY <2>1 DEF CallInv, Planned, Sane
  <2>4. /\ FindsChannel(calls[c])' <=> FindsChannel(calls[c])
        /\ AsksForStored(calls[c])' <=> AsksForStored(calls[c])
    BY <2>1 DEF FindsChannel, AsksForStored
  <2> QED BY <2>1, <2>2, <2>3, <2>4 DEF CallInv
<1> QED BY <1>1, <1>2, <1>3, <1>4 DEF ApiInv
-----------------------------------------------------------------------------
LEMMA ApiStarts == ApiInit => ApiInv
<1> SUFFICES ASSUME ApiInit
             PROVE  ApiInv
  OBVIOUS
<1>1. ProcessorInv
  BY ProcessorStarts DEF ApiInit
<1>2. /\ jobs = [j \in Jobs |-> NoJob] /\ sent = {} /\ saved = {} /\ unsaved = {}
      /\ openIdType = [o \in OpenIds |-> "none"] /\ directChannel = {}
      /\ calls = [c \in Calls |-> NoCall] /\ told = {}
  BY DEF ApiInit, ProcessorInit
<1>3. /\ NoJob.slot = "none" /\ NoJob.todo = << >> /\ NoJob.built = << >>
      /\ Writes(NoJob.slot) = {}
  BY DEF NoJob, Writes
<1>4. Stored
  <2>1. Tables
    BY <1>2 DEF Tables, OpenIds
  <2>2. ASSUME NEW j \in Jobs
        PROVE  InOrder(j)
    BY <1>2, <1>3 DEF InOrder, NothingOut
  <2> QED BY <2>1, <2>2 DEF Stored
<1>5. ToldTrue
  BY <1>2 DEF ToldTrue
<1>6. CallInv(NoCall)
  BY NoCallKnown DEF CallInv, KnowsTrue, Planned, Decided
<1> QED BY <1>1, <1>2, <1>4, <1>5, <1>6, NoCallKnown DEF ApiInv

LEMMA ApiStep ==
  ASSUME ApiInv, [ApiNext]_<<processorVars, apiVars>>
  PROVE  ApiInv'
<1>1. ASSUME NEW j \in Jobs, NEW slot \in Slots, StartJob(j, slot), UNCHANGED apiVars
      PROVE  ApiInv'
  <2>1. Stored' /\ ProcessorNext
    BY <1>1, StartJobStored DEF ApiInv, ProcessorNext
  <2>2. Grows
    BY <1>1 DEF StartJob, Grows
  <2> QED BY <1>1, <2>1, <2>2, HandlerInv
<1>2. ASSUME NEW j \in Jobs, JobStep(j), UNCHANGED apiVars
      PROVE  ApiInv'
  <2>1. Stored' /\ Grows /\ ProcessorNext
    BY <1>2, JobStepStored, TablesGrow DEF ApiInv, ProcessorNext
  <2> QED BY <1>2, <2>1, HandlerInv
<1>3. ASSUME NEW c \in Calls, Asked(c)
      PROVE  ApiInv'
  BY <1>3, ArriveInv DEF Asked
<1>4. ASSUME NEW c \in Calls, CallStep(c)
      PROVE  ApiInv'
  BY <1>4, DecideInv, CallPlatformInv, FinishInv DEF CallStep
<1>5. CASE UNCHANGED <<processorVars, apiVars>>
  <2>1. UNCHANGED <<processorVars, told>> /\ calls' = calls
    BY <1>5 DEF apiVars
  <2>2. ProcessorInv' /\ Stored' /\ ToldTrue' /\ Grows
    BY <2>1, TablesStay
  <2>3. ASSUME NEW c \in Calls
        PROVE  CallInv(calls[c])'
    <3>1. CallInv(calls[c]) /\ calls'[c] = calls[c]
      BY <2>1 DEF ApiInv
    <3> QED BY <2>2, <3>1 DEF CallInv, KnowsTrue, Grows, Planned, Sane, FindsChannel,
                              AsksForStored
  <2> QED BY <2>1, <2>2, <2>3 DEF ApiInv
<1> QED BY <1>1, <1>2, <1>3, <1>4, <1>5 DEF ApiNext

(* A client reaches the private chat or the direct channel it was told of:   *)
(* the write precedes the event, and no handler takes it back.               *)
THEOREM AnswerFindsChannelCorrect == ApiSpec => []AnswerFindsChannel
<1>1. ApiInv => AnswerFindsChannel
  <2> SUFFICES ASSUME ApiInv, NEW c \in Calls, calls[c].pc \notin {"none", "plan"}
               PROVE  FindsChannel(calls[c])
    BY DEF AnswerFindsChannel, FindsChannel
  <2>1. calls[c] \in CallStates /\ CallInv(calls[c])
    BY DEF ApiInv
  <2>2. calls[c].pc \in Decided
    BY <2>1 DEF CallStates, Decided
  <2> QED BY <2>1, <2>2 DEF CallInv
<1> QED BY <1>1, ApiStarts, ApiStep, PTL DEF ApiSpec

(* message.get has every message an event told of, unless storing it failed. *)
THEOREM AnswerFindsMessageCorrect == ApiSpec => []AnswerFindsMessage
<1>1. ApiInv => AnswerFindsMessage
  BY DEF ApiInv, CallInv, AnswerFindsMessage, AsksForStored, Decided
<1> QED BY <1>1, ApiStarts, ApiStep, PTL DEF ApiSpec

(* A request that is refused has changed nothing on the platform, the         *)
(* reactions apart.                                                          *)
THEOREM RefusedChangesNothingCorrect == ApiSpec => []RefusedChangesNothing
<1>1. ApiInv => RefusedChangesNothing
  <2> SUFFICES ASSUME ApiInv, NEW c \in Calls, calls[c].answer \in Refusals,
                      calls[c].method \notin Reactions
               PROVE  ~calls[c].called
    BY DEF RefusedChangesNothing, Refusals, Reactions
  <2>1. CallInv(calls[c])
    BY DEF ApiInv
  <2> QED BY <2>1 DEF CallInv, Planned
<1> QED BY <1>1, ApiStarts, ApiStep, PTL DEF ApiSpec

(* The processor's tables, the database and the requests have their types.   *)
THEOREM ApiTypeCorrect == ApiSpec => []ApiTypeOK
<1>1. ApiInv => ApiTypeOK
  <2> SUFFICES ASSUME ApiInv
               PROVE  ApiTypeOK
    OBVIOUS
  <2>1. Typed /\ Tables
    BY DEF ApiInv, ProcessorInv, Stored
  <2>2. ProcessorTypeOK
    BY <2>1 DEF Typed, Tables, ProcessorTypeOK, JobStates, Events, Stati
  <2>3. \A c \in Calls : calls[c] \in CallStates
    BY DEF ApiInv
  <2> QED BY <2>2, <2>3 DEF ApiTypeOK, CallStates
<1> QED BY <1>1, ApiStarts, ApiStep, PTL DEF ApiSpec
=============================================================================
