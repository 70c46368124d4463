--------------------------- MODULE GatewaySession ---------------------------
(***************************************************************************)
(* The connection to the QQ gateway: sessions/local/local.go (ChanManager) *)
(* keeps one session per shard and connects each with a client of          *)
(* websocket/client/client.go.  A client is three goroutines - newConnect, *)
(* which ends up in Listening; readMessageToQueue; listenMessageAndHandle  *)
(* - that outlive one another: the last one drains its queue while the     *)
(* session is already being resumed by the next client.  All clients share *)
(* dataMap, which drops a payload whose data was seen in the last minutes. *)
(***************************************************************************)
EXTENDS Integers, Sequences, FiniteSets, SequencesExt

CONSTANTS
  ShardCount,    \* the number of shards of the bot
  Clients,       \* bound: the connections of a run
  MaxSessions,   \* bound: sessions the platform opens by READY
  MaxSeq,        \* bound: events of a session; event 1 is its READY
  MaxCleanups,   \* bound: clean-ups of dataMap that find something
  Datum,         \* for each event, the first that has its data
  Requests,      \* bound: what the platform asks for: subset of AllRequests
  Frames,        \* bound: its close frames: subset of AllFrames
  QueueSize,     \* capacity of messageQueue (DefaultQueueSize)
  ForceSize      \* capacity of forceUpToken

AllRequests == {"reconnect", "invalid"}
AllFrames == {"refused", "expired", "timedOut", "otherCode"}

ASSUME GatewayAssumption ==
  /\ Requests \subseteq AllRequests /\ Frames \subseteq AllFrames
  /\ {ShardCount, MaxSessions, MaxSeq, QueueSize, ForceSize} \subseteq Nat \ {0}
  /\ MaxCleanups \in Nat

Shards == 0 .. (ShardCount - 1)

(* A payload; Hello, Reconnect and InvalidSession carry the same data        *)
(* whenever they come.                                                       *)
Control(op) == [op |-> op, sid |-> 0, seq |-> 0]
Event(i, n) == [op |-> "event", sid |-> i, seq |-> n]
Controls == {Control(op) : op \in {"hello"} \cup Requests}
Events == {Event(i, n) : i \in 1 .. MaxSessions, n \in 1 .. MaxSeq}
Payloads == Controls \cup Events
Nil == Control("nil")

(* calculateDataHash: the data alone, without type, ID and number.  A member *)
(* who adds a reaction and takes it back sends the same data twice.  Only    *)
(* READY, which names its session, has data that no other event has.         *)
ASSUME DatumAssumption ==
  /\ Datum \in [Events -> Events]
  /\ \A m \in Events : Datum[m].seq = 1 <=> m.seq = 1

DataHash(p) == IF p \in Events THEN Datum[p] ELSE p

VARIABLES
  sessionChan,   \* ChanManager.sessionChan
  client,        \* the clients: their goroutines, Session and channels
  dataMap,       \* the data of the payloads of the last minutes
  handed,        \* history: the events given to ParseAndHandle
  dropped,       \* history: the events whose data was seen before
  opened,        \* history: sessions opened by the platform
  lost,          \* history: shards whose newConnect returned without a word
  forceUpToken,  \* requests waiting in AuthTokenInfo.forceUpToken
  cleanups       \* the clean-ups so far

vars == <<sessionChan, client, dataMap, handed, opened, lost, forceUpToken, cleanups,
          dropped>>

(* The session of a shard; id 0 is the empty ID.                             *)
SessionRec == [shard : Shards, id : 0 .. MaxSessions, seq : 0 .. MaxSeq]

(* What is sent to closeChan: ErrNeedReConnect, ErrInvalidSession, a panic,  *)
(* an I/O error, or the close frame 4914/4915, 4004, 4009 or any other.      *)
(* Listening receives once, so that the first error is all that matters; the *)
(* others stay in the channel, whose capacity of 10 they do not reach.       *)
Errors == {"panic", "io"} \cup Requests \cup Frames

ClientState ==
  [main : {"unused", "dial", "auth", "listening", "ended", "requeue", "gone"},
   given : SessionRec,            \* the argument of newConnect
   session : SessionRec,          \* what Client.session points to
   err : {"resumable", "cantResume", "cantIdentify"},   \* from Listening
   closeChan : Errors \cup {"none"},
   reader : {"off", "read", "store", "enqueue", "stopped"},  \* readMessageToQueue
   payload : Payloads \cup {Nil}, \* what it has looked up and not found
   messageQueue : Seq(Events),
   listener : {"off", "wait", "ready", "dead", "exited"},  \* listenMessageAndHandle
   event : Events \cup {Nil},     \* the READY listenMessageAndHandle is at
   greeted : BOOLEAN,             \* the platform: Hello has been read
   sid : 0 .. MaxSessions,        \* the platform: the session it serves
   next : 1 .. MaxSeq + 1,        \* the platform: the next event it sends
   ticker : {"default", "hello"}] \* heartBeatTicker

TypeOK ==
  /\ sessionChan \in Seq(SessionRec)
  /\ client \in [Clients -> ClientState]
  /\ dataMap \in SUBSET Payloads
  /\ handed \in SUBSET Events
  /\ dropped \in SUBSET Events
  /\ opened \in 0 .. MaxSessions
  /\ lost \in SUBSET Shards
  /\ forceUpToken \in 0 .. ForceSize
  /\ cleanups \in 0 .. MaxCleanups
-----------------------------------------------------------------------------
(***************************************************************************)
(* ChanManager.Start                                                       *)
(***************************************************************************)
NewSession(s) == [shard |-> s, id |-> 0, seq |-> 0]

NewClient(state, session) ==
  [main |-> state, given |-> session, session |-> session,
   err |-> "resumable", closeChan |-> "none",
   reader |-> "off", payload |-> Nil, messageQueue |-> << >>,
   listener |-> "off", event |-> Nil,
   greeted |-> FALSE, sid |-> 0, next |-> 1, ticker |-> "default"]

Init ==
  /\ sessionChan = [i \in 1 .. ShardCount |-> NewSession(i - 1)]
  /\ client = [c \in Clients |-> NewClient("unused", NewSession(0))]
  /\ dataMap = {}
  /\ handed = {} /\ dropped = {} /\ opened = 0 /\ lost = {} /\ forceUpToken = 0
  /\ cleanups = 0

(* A step that changes client c alone, or c and the queue of sessions.       *)
Step(c, state) ==
  /\ client' = [client EXCEPT ![c] = state]
  /\ UNCHANGED <<sessionChan, dataMap, handed, opened, lost, forceUpToken, cleanups, dropped>>

StepAndQueue(c, state, session) ==
  /\ client' = [client EXCEPT ![c] = state]
  /\ sessionChan' = Append(sessionChan, session)
  /\ UNCHANGED <<dataMap, handed, opened, lost, forceUpToken, cleanups, dropped>>

Working(c) == client[c].main \notin {"unused", "gone"}

(* closeChan <- e                                                            *)
Reported(c, e) == IF client[c].closeChan = "none" /\ Working(c) THEN e
                  ELSE client[c].closeChan

(* The loop of Start takes a session and runs newConnect in a goroutine.     *)
StartConnect(c) ==
  /\ sessionChan # << >>
  /\ client[c].main = "unused"
  /\ sessionChan' = Tail(sessionChan)
  /\ client' = [client EXCEPT ![c] = NewClient("dial", Head(sessionChan))]
  /\ UNCHANGED <<dataMap, handed, opened, lost, forceUpToken, cleanups, dropped>>
-----------------------------------------------------------------------------
(***************************************************************************)
(* ChanManager.newConnect, up to Listening                                 *)
(***************************************************************************)
(* newConnect returns; what only it reads is forgotten.                      *)
Gone(c) == [client[c] EXCEPT !.main = "gone", !.err = "resumable",
              !.closeChan = "none", !.ticker = "default",
              !.given = NewSession(0), !.session = NewSession(0)]

ConnectFailsAndGoesOn(c) ==
  /\ client[c].main = "dial"
  /\ StepAndQueue(c, [client[c] EXCEPT !.main = "auth"], client[c].given)

ConnectFails(c) ==
  /\ client[c].main = "dial"
  /\ StepAndQueue(c, Gone(c), client[c].given)

Connects(c) ==
  /\ client[c].main = "dial"
  /\ Step(c, [client[c] EXCEPT !.main = "auth"])

(* The client is authenticated and Listening starts the two other goroutines.*)
(* i and n: the platform serves session i from event n.                      *)
Listens(c, i, n) ==
  client' = [client EXCEPT ![c].main = "listening", ![c].reader = "read",
                           ![c].listener = "wait", ![c].sid = i, ![c].next = n]

(* An empty ID: Identify, which the platform answers with a new session.     *)
Identify(c) ==
  /\ client[c].main = "auth" /\ client[c].given.id = 0
  /\ opened < MaxSessions
  /\ opened' = opened + 1
  /\ Listens(c, opened + 1, 1)
  /\ UNCHANGED <<sessionChan, dataMap, handed, lost, forceUpToken, cleanups, dropped>>

(* Resume: the platform sends again what came after LastSeq.                 *)
Resume(c) ==
  /\ client[c].main = "auth" /\ client[c].given.id # 0
  /\ Listens(c, client[c].given.id, client[c].given.seq + 1)
  /\ UNCHANGED <<sessionChan, dataMap, handed, opened, lost, forceUpToken, cleanups, dropped>>

(* The write fails: Write reports to closeChan, from which nobody will ever  *)
(* receive, and newConnect returns.  The session is not put back.            *)
AuthFails(c) ==
  /\ client[c].main = "auth"
  /\ client' = [client EXCEPT ![c] = Gone(c)]
  /\ lost' = lost \cup {client[c].given.shard}
  /\ UNCHANGED <<sessionChan, dataMap, handed, opened, forceUpToken, cleanups, dropped>>
-----------------------------------------------------------------------------
(***************************************************************************)
(* Client.Listening and the end of newConnect                              *)
(***************************************************************************)
(* A heartbeat that cannot be written; one that can changes nothing here.    *)
HeartbeatFails(c) ==
  /\ client[c].main = "listening"
  /\ Step(c, [client[c] EXCEPT !.closeChan = Reported(c, "io")])

(* The code Listening returns.  Only a close frame is rewritten, and of them *)
(* not 4009; ErrInvalidSession is built with the code that forbids to resume.*)
Verdict(e) == CASE e = "refused" -> "cantIdentify"
                [] e \in {"expired", "otherCode", "invalid"} -> "cantResume"
                [] OTHER -> "resumable"

ForcesAtOnce == forceUpToken' = forceUpToken + 1

(* ForceUpToken waits for room in its channel.                               *)
ForceUpToken == forceUpToken < ForceSize /\ forceUpToken' = forceUpToken + 1

(* One error ends Listening; the deferred Close closes the connection.  4004 *)
(* first asks for a new access token.                                        *)
TakeError(c) ==
  /\ client[c].main = "listening" /\ client[c].closeChan # "none"
  /\ LET e == client[c].closeChan
     IN /\ client' = [client EXCEPT ![c].main = "ended", ![c].err = Verdict(e)]
        /\ \/ e = "expired" /\ ForceUpToken
           \/ e # "expired" /\ UNCHANGED forceUpToken
  /\ UNCHANGED <<sessionChan, dataMap, handed, opened, lost, cleanups, dropped>>

(* CanNotResume: ID and LastSeq are cleared through the pointer the listener *)
(* goroutine still writes through.                                           *)
ClearSession(c) ==
  /\ client[c].main = "ended" /\ client[c].err = "cantResume"
  /\ Step(c, [client[c] EXCEPT !.main = "requeue",
                               !.session = NewSession(@.shard)])

(* CanNotIdentify: panic, and the deferred recover puts the argument of      *)
(* newConnect back.                                                          *)
RefusedPanics(c) ==
  /\ client[c].main = "ended" /\ client[c].err = "cantIdentify"
  /\ StepAndQueue(c, Gone(c), client[c].given)

Requeue(c) ==
  /\ \/ client[c].main = "requeue"
     \/ client[c].main = "ended" /\ client[c].err = "resumable"
  /\ StepAndQueue(c, Gone(c), client[c].session)
-----------------------------------------------------------------------------
(***************************************************************************)
(* Client.readMessageToQueue                                               *)
(***************************************************************************)
(* What the platform sends next: Hello first, then the events in order, and  *)
(* at any time a Reconnect or InvalidSession.  An event nobody has read is   *)
(* as good as one that is not yet sent.                                      *)
Incoming(c) ==
  IF ~client[c].greeted THEN {Control("hello")}
  ELSE {Control(op) : op \in Requests}
       \cup {Event(client[c].sid, n) : n \in {client[c].next} \cap (1 .. MaxSeq)}

(* ReadMessage, then the look-up in dataMap: a payload whose data was seen   *)
(* is dropped.  Acknowledged heartbeats are not looked up.                   *)
ReadMessage(c, p) ==
  /\ client[c].reader = "read"
  /\ p \in Incoming(c)
  /\ LET seen == DataHash(p) \in dataMap
     IN /\ client' = [client EXCEPT
             ![c] = [client[c] EXCEPT !.greeted = TRUE,
                                      !.next = IF p \in Events THEN @ + 1 ELSE @,
                                      !.payload = IF seen THEN Nil ELSE p,
                                      !.reader = IF seen THEN "read" ELSE "store"]]
        /\ dropped' = dropped \cup (IF seen THEN {p} \cap Events ELSE {})
  /\ UNCHANGED <<sessionChan, dataMap, handed, opened, lost, forceUpToken, cleanups>>

Reading(c) == [client[c] EXCEPT !.reader = "read", !.payload = Nil]

(* isHandleBuildIn: Hello resets the ticker, Reconnect and InvalidSession are*)
(* errors for Listening.                                                     *)
HandledBuiltIn(c, p) ==
  IF p.op = "hello" THEN [Reading(c) EXCEPT !.ticker = "hello"]
  ELSE [Reading(c) EXCEPT !.closeChan = Reported(c, p.op)]

(* storeDataToSyncMap, and isHandleBuildIn for what needs no queue.          *)
StoreAndHandle(c) ==
  /\ client[c].reader = "store"
  /\ LET p == client[c].payload
     IN /\ dataMap' = dataMap \cup {DataHash(p)}
        /\ \/ /\ p \in Controls
              /\ client' = [client EXCEPT ![c] = HandledBuiltIn(c, p)]
           \/ /\ p \in Events
              /\ client' = [client EXCEPT ![c].reader = "enqueue"]
  /\ UNCHANGED <<sessionChan, handed, opened, lost, forceUpToken, cleanups, dropped>>

(* c.messageQueue <- payload waits for room.                                 *)
Enqueue(c) ==
  /\ client[c].reader = "enqueue" /\ Len(client[c].messageQueue) < QueueSize
  /\ Step(c, [Reading(c) EXCEPT !.messageQueue = Append(@, client[c].payload)])

(* A read fails, on a close frame, on the network or because Listening has   *)
(* closed the connection: the queue is closed and the error reported.        *)
ReadFails(c, e) ==
  /\ client[c].reader = "read"
  /\ Step(c, [client[c] EXCEPT !.reader = "stopped", !.closeChan = Reported(c, e),
                               !.greeted = FALSE, !.sid = 0, !.next = 1])
-----------------------------------------------------------------------------
(***************************************************************************)
(* Client.listenMessageAndHandle                                           *)
(***************************************************************************)
(* A write to the Session, which nobody reads once newConnect is gone.       *)
Saved(c, id, seq) ==
  IF Working(c) THEN [client[c].session EXCEPT !.id = id, !.seq = seq]
  ELSE client[c].session

(* The range loop takes an event: saveSeq stores its number, and then READY  *)
(* is handled here and any other event by go event.ParseAndHandle(payload).  *)
TakeReady(c) ==
  /\ client[c].listener = "wait" /\ client[c].messageQueue # << >>
  /\ LET m == Head(client[c].messageQueue)
     IN /\ m.seq = 1
        /\ Step(c, [client[c] EXCEPT
                      !.messageQueue = Tail(@), !.listener = "ready", !.event = m,
                      !.session = Saved(c, @.id, m.seq)])

TakeEvent(c) ==
  /\ client[c].listener = "wait" /\ client[c].messageQueue # << >>
  /\ LET m == Head(client[c].messageQueue)
     IN /\ m.seq # 1
        /\ client' = [client EXCEPT ![c].messageQueue = Tail(@),
                                    ![c].session = Saved(c, @.id, m.seq)]
        /\ handed' = handed \cup {m}
  /\ UNCHANGED <<sessionChan, dataMap, opened, lost, forceUpToken, cleanups, dropped>>

(* readyHandler stores the session ID and calls the handler of the bot.      *)
HandleReady(c) ==
  /\ client[c].listener = "ready"
  /\ Step(c, [client[c] EXCEPT !.session = Saved(c, client[c].event.sid, @.seq),
                               !.listener = "wait", !.event = Nil])

(* The handler panics: the goroutine ends, whatever is left in the queue.    *)
ReadyPanics(c) ==
  /\ client[c].listener = "ready"
  /\ Step(c, [client[c] EXCEPT !.session = Saved(c, client[c].event.sid, @.seq),
                               !.listener = "dead",
                               !.closeChan = Reported(c, "panic")])

ListenerLeavesQueue(c) ==
  /\ client[c].listener = "wait" /\ client[c].reader = "stopped"
  /\ Step(c, [client[c] EXCEPT !.listener = "exited", !.messageQueue = << >>])

(* The loop ends when the closed queue has been drained.                     *)
ListenerExits(c) ==
  /\ client[c].listener = "wait" /\ client[c].messageQueue = << >>
  /\ client[c].reader = "stopped"
  /\ Step(c, [client[c] EXCEPT !.listener = "exited"])
-----------------------------------------------------------------------------
(* Every 5 minutes, what is older than 5 minutes goes: any of it may be.     *)
cleanupDataMap ==
  /\ cleanups < MaxCleanups
  /\ \E old \in SUBSET dataMap \ {{}} : dataMap' = dataMap \ old
  /\ cleanups' = cleanups + 1
  /\ UNCHANGED <<sessionChan, client, handed, opened, lost, forceUpToken, dropped>>

(* The refresh goroutine of the token takes a request.                       *)
RefreshToken ==
  /\ forceUpToken > 0
  /\ forceUpToken' = forceUpToken - 1
  /\ UNCHANGED <<sessionChan, client, dataMap, handed, opened, lost, cleanups, dropped>>

Main(c) == \/ ConnectFails(c) \/ Connects(c)
           \/ Identify(c) \/ Resume(c) \/ AuthFails(c)
           \/ TakeError(c) \/ ClearSession(c) \/ RefusedPanics(c) \/ Requeue(c)
Reader(c) == \/ \E p \in Payloads : ReadMessage(c, p)
             \/ StoreAndHandle(c) \/ Enqueue(c)
             \/ \E e \in Frames \cup {"io"} : ReadFails(c, e)
Listener(c) == \/ TakeReady(c) \/ TakeEvent(c) \/ HandleReady(c)
               \/ ReadyPanics(c) \/ ListenerExits(c)

Next == \/ \E c \in Clients : \/ StartConnect(c) \/ HeartbeatFails(c)
                              \/ Main(c) \/ Reader(c) \/ Listener(c)
        \/ cleanupDataMap \/ RefreshToken

Spec == Init /\ [][Next]_vars
-----------------------------------------------------------------------------
(***************************************************************************)
(* Properties                                                              *)
(***************************************************************************)
Waits(s) == \E i \in DOMAIN sessionChan : sessionChan[i].shard = s
Served(s) == \E c \in Clients : Working(c) /\ client[c].given.shard = s

(* A shard is in one place: it waits in sessionChan once, or one newConnect  *)
(* works on it - two would authenticate the same shard twice - or it is lost *)
(* because its authentication could not be written.                          *)
OnePlace ==
  /\ \A i, j \in DOMAIN sessionChan :
       sessionChan[i].shard = sessionChan[j].shard => i = j
  /\ \A c, d \in Clients :
       Working(c) /\ Working(d) /\ client[c].given.shard = client[d].given.shard => c = d
  /\ \A s \in Shards : ~(Waits(s) /\ Served(s)) /\ (s \in lost <=> ~Waits(s) /\ ~Served(s))

Pending(c) ==
  ToSet(client[c].messageQueue)
    \cup (IF client[c].reader = "enqueue" THEN {client[c].payload} ELSE {})

HandedOrQueued(m) == m \in handed \/ \E c \in Clients : m \in Pending(c)

(* The sessions to be resumed, or served, as far as their LastSeq has come.  *)
Resumable ==
  {r \in ToSet(sessionChan) \cup {client[c].given : c \in {d \in Clients : Working(d)}}
         \cup {client[c].session : c \in {d \in Clients : Working(d)}} : r.id # 0}

(* Neither resuming behind LastSeq nor dropping what dataMap holds loses     *)
(* data: each event a resumed session skips was given to ParseAndHandle, is  *)
(* on its way in some client, be it an older one whose connection is closed  *)
(* already, or was read and dropped; and of the events that are dropped, or  *)
(* would be, one with the same data was handed over or is on its way.  (Not  *)
(* said: that this one is the same event, and that it arrives.  When the     *)
(* READY handler of the bot has panicked, what is still in the queue of that *)
(* client is lost.)                                                          *)
NothingSkipped ==
  /\ \A r \in Resumable : \A n \in 2 .. r.seq :
       LET m == Event(r.id, n) IN HandedOrQueued(m) \/ m \in dropped
  /\ \A m \in dropped \cup {e \in Events : DataHash(e) \in dataMap} :
       m.seq = 1 \/ \E k \in Events : DataHash(k) = DataHash(m) /\ HandedOrQueued(k)

(* Violated: an event a resumed session skips was handled or is on its way.  *)
(* Of two events with equal data within minutes the second is dropped, and   *)
(* LastSeq passes it.                                                        *)
EveryEventHandled ==
  \A r \in Resumable : \A n \in 2 .. r.seq : HandedOrQueued(Event(r.id, n))

(* Violated: a shard whose newConnect ends is put back into sessionChan.     *)
(* newConnect returns at once when Identify or Resume cannot be written.     *)
NoShardLost == \A s \in Shards : Waits(s) \/ Served(s)

(* Violated: a client that has read Hello has set its heartbeat ticker.  A   *)
(* second Hello within minutes has the data of the first and is dropped.     *)
HelloSetsTicker ==
  \A c \in Clients : client[c].main = "listening" /\ client[c].greeted
                         /\ client[c].reader = "read" => client[c].ticker = "hello"
=============================================================================
