------------------------ MODULE GatewaySession_proofs ------------------------
(***************************************************************************)
(* Proofs about the connection to the gateway, for every number of shards, *)
(* of connections and of events, and every capacity of the queues.         *)
(***************************************************************************)
EXTENDS GatewaySession, SequenceTheorems, TLAPS

LEMMA Constants ==
  /\ ShardCount \in Nat /\ ShardCount > 0 /\ 0 \in Shards
  /\ MaxSessions \in Nat /\ MaxSessions > 0
  /\ MaxSeq \in Nat /\ MaxSeq > 0
  /\ QueueSize \in Nat /\ ForceSize \in Nat /\ MaxCleanups \in Nat
  /\ Requests \subseteq {"reconnect", "invalid"}
  /\ Frames \subseteq {"refused", "expired", "timedOut", "otherCode"}
BY GatewayAssumption DEF Shards, AllRequests, AllFrames

(* No payload is both an event and handled by the reader itself.            *)
LEMMA PayloadKinds ==
  /\ \A p \in Controls : p \notin Events /\ (p.op = "hello" \/ p.op \in Requests)
  /\ \A p \in Events : p.sid \in 1 .. MaxSessions /\ p.seq \in 1 .. MaxSeq
  /\ Nil \notin Payloads /\ Nil.sid = 0
<1>1. \A p \in Controls : p.op = "hello" \/ p.op \in Requests
  BY DEF Controls, Control
<1>2. \A p \in Events : p.op = "event" /\ p.sid \in 1 .. MaxSessions /\ p.seq \in 1 .. MaxSeq
  BY DEF Events, Event
<1>3. Nil.op = "nil" /\ Nil.sid = 0
  BY DEF Nil, Control
<1> QED
  BY <1>1, <1>2, <1>3, Constants DEF Payloads

(* The data of an event stands for an event, READY's for a READY, and an    *)
(* operation the reader handles has data of its own.                        *)
LEMMA Hashes ==
  /\ \A p \in Controls : DataHash(p) = p /\ p \notin Events
  /\ \A m \in Events : /\ DataHash(m) = Datum[m] /\ Datum[m] \in Events
                       /\ Datum[m].seq = 1 <=> m.seq = 1
  /\ \A p \in Payloads : DataHash(p) \in Payloads
BY DatumAssumption, PayloadKinds DEF DataHash, Payloads

(* The fields of a client, with a name for the values of each.              *)
Mains == {"unused", "dial", "auth", "listening", "ended", "requeue", "gone"}
Verdicts == {"resumable", "cantResume", "cantIdentify"}
Reports == Errors \cup {"none"}
Readers == {"off", "read", "store", "enqueue", "stopped"}
Held == Payloads \cup {Nil}
Queues == Seq(Events)
Listeners == {"off", "wait", "ready", "dead", "exited"}
Handling == Events \cup {Nil}
Sids == 0 .. MaxSessions
Nexts == 1 .. MaxSeq + 1
Tickers == {"default", "hello"}

LEMMA ClientFields ==
  ClientState =
    [main : Mains, given : SessionRec, session : SessionRec, err : Verdicts,
     closeChan : Reports, reader : Readers, payload : Held, messageQueue : Queues,
     listener : Listeners, event : Handling, greeted : BOOLEAN, sid : Sids,
     next : Nexts, ticker : Tickers]
BY DEF ClientState, Mains, Verdicts, Reports, Readers, Held, Queues, Listeners,
       Handling, Sids, Nexts, Tickers

LEMMA Values ==
  /\ \A m \in {"auth", "listening", "ended", "requeue", "gone"} : m \in Mains
  /\ \A e \in {"resumable", "cantResume", "cantIdentify"} : e \in Verdicts
  /\ "none" \in Reports
  /\ \A r \in {"read", "store", "enqueue", "stopped"} : r \in Readers
  /\ \A l \in {"wait", "ready", "dead", "exited"} : l \in Listeners
  /\ Nil \in Held /\ Nil \in Handling
  /\ \A p \in Payloads : p \in Held
  /\ \A e \in Events : e \in Handling /\ e \in Held
  /\ 0 \in Sids /\ 1 \in Nexts
  /\ "default" \in Tickers /\ "hello" \in Tickers
BY Constants DEF Mains, Verdicts, Reports, Readers, Held, Listeners, Handling,
                 Sids, Nexts, Tickers, Payloads

LEMMA NewClientType ==
  ASSUME NEW state \in {"unused", "dial"}, NEW session \in SessionRec
  PROVE  NewClient(state, session) \in ClientState
<1>1. << >> \in Seq(Events)
  BY EmptySeq
<1> QED
  BY <1>1, Constants DEF NewClient, ClientState, SessionRec

LEMMA NewSessionType == \A s \in Shards : NewSession(s) \in SessionRec
BY Constants DEF NewSession, SessionRec

(* The reader waits for room in the queue with an event.                    *)
TypeInv == TypeOK /\ \A c \in Clients :
                       client[c].reader = "enqueue" => client[c].payload \in Events

LEMMA ClientStep ==
  ASSUME TypeInv, NEW c \in Clients, NEW state \in ClientState,
         client' = [client EXCEPT ![c] = state],
         state.reader = "enqueue" => state.payload \in Events
  PROVE  /\ client' \in [Clients -> ClientState]
         /\ \A d \in Clients : client'[d].reader = "enqueue" => client'[d].payload \in Events
BY DEF TypeInv, TypeOK

LEMMA GoneType ==
  ASSUME TypeInv, NEW c \in Clients
  PROVE  Gone(c) \in ClientState /\ Gone(c).reader = client[c].reader
            /\ Gone(c).payload = client[c].payload
<1>1. client[c] \in ClientState /\ NewSession(0) \in SessionRec
  BY Constants, NewSessionType DEF TypeInv, TypeOK
<1> QED
  BY <1>1, Values, ClientFields DEF Gone

LEMMA ReportedType ==
  ASSUME TypeInv, NEW c \in Clients, NEW e \in Errors
  PROVE  Reported(c, e) \in Errors \cup {"none"}
BY DEF Reported, TypeInv, TypeOK, ClientState

LEMMA SavedType ==
  ASSUME TypeInv, NEW c \in Clients, NEW id \in 0 .. MaxSessions, NEW n \in 0 .. MaxSeq
  PROVE  Saved(c, id, n) \in SessionRec
<1>1. client[c].session \in SessionRec
  BY DEF TypeInv, TypeOK, ClientState
<1> QED
  BY <1>1 DEF Saved, SessionRec

LEMMA QueueType ==
  ASSUME TypeInv, NEW c \in Clients, client[c].messageQueue # << >>
  PROVE  /\ Head(client[c].messageQueue) \in Events
         /\ Tail(client[c].messageQueue) \in Seq(Events)
<1>1. client[c].messageQueue \in Seq(Events)
  BY DEF TypeInv, TypeOK, ClientState
<1> QED
  BY <1>1, HeadTailProperties
-----------------------------------------------------------------------------
LEMMA InitType == Init => TypeInv
<1> SUFFICES ASSUME Init PROVE TypeInv
  OBVIOUS
<1>1. \A i \in 1 .. ShardCount : i - 1 \in Shards
  BY Constants DEF Shards
<1>2. sessionChan \in Seq(SessionRec)
  <2>1. \A i \in 1 .. ShardCount : NewSession(i - 1) \in SessionRec
    BY <1>1, NewSessionType
  <2> QED
    BY <2>1, Constants, IsASeq DEF Init
<1>3. NewSession(0) \in SessionRec
  BY Constants, NewSessionType
<1>4. NewClient("unused", NewSession(0)) \in ClientState
  BY <1>3, NewClientType
<1>5. client \in [Clients -> ClientState]
  BY <1>4 DEF Init
<1>7. \A c \in Clients : client[c].reader = "off"
  BY DEF Init, NewClient
<1>6. cleanups \in 0 .. MaxCleanups
  BY Constants DEF Init
<1> QED
  BY <1>2, <1>5, <1>6, <1>7, Constants DEF TypeInv, TypeOK, Init
-----------------------------------------------------------------------------
(* Steps of newConnect.                                                     *)
LEMMA StepType ==
  ASSUME TypeInv, NEW c \in Clients, NEW state \in ClientState, Step(c, state),
         state.reader = "enqueue" => state.payload \in Events
  PROVE  TypeInv'
<1>1. /\ client' \in [Clients -> ClientState]
      /\ \A d \in Clients : client'[d].reader = "enqueue" => client'[d].payload \in Events
  BY ClientStep DEF Step
<1> QED
  BY <1>1 DEF TypeInv, TypeOK, Step

LEMMA StepAndQueueType ==
  ASSUME TypeInv, NEW c \in Clients, NEW state \in ClientState,
         NEW session \in SessionRec, StepAndQueue(c, state, session),
         state.reader = "enqueue" => state.payload \in Events
  PROVE  TypeInv'
<1>1. /\ client' \in [Clients -> ClientState]
      /\ \A d \in Clients : client'[d].reader = "enqueue" => client'[d].payload \in Events
  BY ClientStep DEF StepAndQueue
<1>2. sessionChan' \in Seq(SessionRec)
  BY AppendProperties DEF StepAndQueue, TypeInv, TypeOK
<1> QED
  BY <1>1, <1>2 DEF TypeInv, TypeOK, StepAndQueue

LEMMA MainType ==
  ASSUME TypeInv, NEW c \in Clients, StartConnect(c) \/ HeartbeatFails(c) \/ Main(c)
  PROVE  TypeInv'
<1> USE Values
<1>c. /\ client[c] \in ClientState
      /\ client[c].reader = "enqueue" => client[c].payload \in Events
      /\ client[c].given \in SessionRec /\ client[c].session \in SessionRec
  BY DEF TypeInv, TypeOK, ClientState
<1>g. /\ Gone(c) \in ClientState
      /\ Gone(c).reader = "enqueue" => Gone(c).payload \in Events
  BY <1>c, GoneType
<1>1. CASE StartConnect(c)
  <2>1. Head(sessionChan) \in SessionRec /\ sessionChan' \in Seq(SessionRec)
    BY <1>1, HeadTailProperties DEF StartConnect, TypeInv, TypeOK
  <2>2. NewClient("dial", Head(sessionChan)) \in ClientState
    BY <2>1, NewClientType
  <2>3. NewClient("dial", Head(sessionChan)).reader = "off"
    BY DEF NewClient
  <2>4. /\ client' \in [Clients -> ClientState]
        /\ \A d \in Clients : client'[d].reader = "enqueue" => client'[d].payload \in Events
    BY <1>1, <2>2, <2>3, ClientStep DEF StartConnect
  <2> QED
    BY <1>1, <2>1, <2>4 DEF StartConnect, TypeInv, TypeOK
<1>2. CASE HeartbeatFails(c)
  <2>1. Reported(c, "io") \in Reports
    BY ReportedType DEF Errors, Reports
  <2>2. [client[c] EXCEPT !.closeChan = Reported(c, "io")] \in ClientState
    BY <1>c, <2>1, ClientFields
  <2> QED
    BY <1>2, <1>c, <2>2, ClientFields, StepType DEF HeartbeatFails
<1>3. CASE ConnectFails(c)
  BY <1>3, <1>c, <1>g, StepAndQueueType DEF ConnectFails
<1>4. CASE Connects(c)
  <2>1. [client[c] EXCEPT !.main = "auth"] \in ClientState
    BY <1>c, ClientFields
  <2> QED
    BY <1>4, <1>c, <2>1, ClientFields, StepType DEF Connects
<1>5. ASSUME NEW i \in Sids, NEW n \in Nexts, Listens(c, i, n)
      PROVE  /\ client' \in [Clients -> ClientState]
             /\ \A d \in Clients : client'[d].reader = "enqueue" => client'[d].payload \in Events
  <2> DEFINE state == [client[c] EXCEPT !.main = "listening", !.reader = "read",
                                        !.listener = "wait", !.sid = i, !.next = n]
  <2>1. client' = [client EXCEPT ![c] = state]
    BY <1>5 DEF Listens, TypeInv, TypeOK
  <2>2. state \in ClientState
    BY <1>c, ClientFields
  <2>3. state.reader = "read"
    BY <1>c, ClientFields
  <2> HIDE DEF state
  <2> QED
    BY <2>1, <2>2, <2>3, ClientStep
<1>6. CASE Identify(c)
  <2>1. opened + 1 \in Sids /\ opened + 1 \in 0 .. MaxSessions
    BY <1>6, Constants DEF Identify, TypeInv, TypeOK, Sids
  <2> QED
    BY <1>6, <1>5, <2>1 DEF Identify, TypeInv, TypeOK
<1>7. CASE Resume(c)
  <2>1. client[c].given.id \in Sids /\ client[c].given.seq + 1 \in Nexts
    BY <1>c, Constants DEF SessionRec, Sids, Nexts
  <2> QED
    BY <1>7, <1>5, <2>1 DEF Resume, TypeInv, TypeOK
<1>8. CASE AuthFails(c)
  <2>1. client[c].given.shard \in Shards
    BY <1>c DEF SessionRec
  <2>2. /\ client' \in [Clients -> ClientState]
        /\ \A d \in Clients : client'[d].reader = "enqueue" => client'[d].payload \in Events
    BY <1>8, <1>g, ClientStep DEF AuthFails
  <2> QED
    BY <1>8, <2>1, <2>2 DEF AuthFails, TypeInv, TypeOK
<1>9. CASE TakeError(c)
  <2> DEFINE state == [client[c] EXCEPT !.main = "ended", !.err = Verdict(client[c].closeChan)]
  <2>1. Verdict(client[c].closeChan) \in Verdicts
    BY DEF Verdict, Verdicts
  <2>2. state \in ClientState
    BY <1>c, <2>1, ClientFields
  <2>3. state.reader = client[c].reader /\ state.payload = client[c].payload
    BY <1>c, ClientFields
  <2>4. client' = [client EXCEPT ![c] = state]
    BY <1>9 DEF TakeError, TypeInv, TypeOK
  <2>5. forceUpToken' \in 0 .. ForceSize
    BY <1>9, Constants, SMTT(30) DEF TakeError, ForceUpToken, TypeInv, TypeOK
  <2> HIDE DEF state
  <2>6. /\ client' \in [Clients -> ClientState]
        /\ \A d \in Clients : client'[d].reader = "enqueue" => client'[d].payload \in Events
    BY <1>c, <2>2, <2>3, <2>4, ClientStep
  <2> QED
    BY <1>9, <2>5, <2>6 DEF TakeError, TypeInv, TypeOK
<1>10. CASE ClearSession(c)
  <2> DEFINE empty == NewSession(client[c].session.shard)
             state == [client[c] EXCEPT !.main = "requeue", !.session = empty]
  <2>1. empty \in SessionRec
    BY <1>c, NewSessionType DEF SessionRec
  <2>2. Step(c, state)
    BY <1>10 DEF ClearSession
  <2> HIDE DEF empty
  <2>3. state \in ClientState
    BY <1>c, <2>1, ClientFields
  <2>4. state.reader = client[c].reader /\ state.payload = client[c].payload
    BY <1>c, ClientFields
  <2> HIDE DEF state
  <2> QED
    BY <1>c, <2>2, <2>3, <2>4, StepType
<1>11. CASE RefusedPanics(c)
  BY <1>11, <1>c, <1>g, StepAndQueueType DEF RefusedPanics
<1>12. CASE Requeue(c)
  BY <1>12, <1>c, <1>g, StepAndQueueType DEF Requeue
<1> QED
  BY <1>1, <1>2, <1>3, <1>4, <1>6, <1>7, <1>8, <1>9, <1>10, <1>11, <1>12 DEF Main
-----------------------------------------------------------------------------
(* Steps of readMessageToQueue and of listenMessageAndHandle.               *)
LEMMA ReaderType ==
  ASSUME TypeInv, NEW c \in Clients, Reader(c)
  PROVE  TypeInv'
<1> USE Values
<1>c. /\ client[c] \in ClientState
      /\ client[c].reader = "enqueue" => client[c].payload \in Events
      /\ client[c].payload \in Held /\ client[c].messageQueue \in Queues
  BY ClientFields DEF TypeInv, TypeOK
<1>1. ASSUME NEW p \in Payloads, ReadMessage(c, p) PROVE TypeInv'
  <2> DEFINE n == IF p \in Events THEN client[c].next + 1 ELSE client[c].next
             seen == DataHash(p) \in dataMap
             held == IF seen THEN Nil ELSE p
             at == IF seen THEN "read" ELSE "store"
             state == [client[c] EXCEPT !.greeted = TRUE, !.next = n, !.payload = held,
                                        !.reader = at]
  <2>1. client[c].next \in Nexts
    BY <1>c, ClientFields
  <2>2. p \in Events => client[c].next <= MaxSeq
    BY <1>1, PayloadKinds, <2>1, Constants DEF ReadMessage, Incoming, Controls, Nexts, Control
  <2>3. n \in Nexts
    BY <2>1, <2>2, Constants DEF Nexts
  <2>4. held \in Held /\ at \in Readers /\ at # "enqueue"
    OBVIOUS
  <2>5. /\ client' = [client EXCEPT ![c] = state]
        /\ dropped' \subseteq dropped \cup Events
        /\ UNCHANGED <<sessionChan, dataMap, handed, opened, lost, forceUpToken, cleanups>>
    BY <1>1 DEF ReadMessage
  <2> HIDE DEF n, held, at
  <2>6. state \in ClientState /\ state.reader = at
    BY <1>c, <2>3, <2>4, ClientFields
  <2>7. /\ client' \in [Clients -> ClientState]
        /\ \A d \in Clients : client'[d].reader = "enqueue" => client'[d].payload \in Events
    BY <2>4, <2>5, <2>6, ClientStep
  <2> QED
    BY <2>5, <2>7 DEF TypeInv, TypeOK
<1>2. CASE StoreAndHandle(c)
  <2> DEFINE p == client[c].payload
  <2>1. CASE p \in Controls
    <3>1. /\ dataMap' = dataMap \cup {DataHash(p)} /\ client' = [client EXCEPT ![c] = HandledBuiltIn(c, p)]
          /\ UNCHANGED <<sessionChan, handed, opened, lost, forceUpToken, cleanups, dropped>>
      BY <1>2, <2>1, PayloadKinds DEF StoreAndHandle
    <3>2. p.op = "hello" \/ p.op \in Errors
      BY <2>1, PayloadKinds DEF Errors
    <3>3. CASE p.op = "hello"
      <4>1. HandledBuiltIn(c, p) = [client[c] EXCEPT !.reader = "read", !.payload = Nil, !.ticker = "hello"]
        BY <3>3, <1>c, ClientFields DEF HandledBuiltIn, Reading
      <4>2. HandledBuiltIn(c, p) \in ClientState /\ HandledBuiltIn(c, p).reader = "read"
        BY <4>1, <1>c, ClientFields
      <4>3. /\ client' \in [Clients -> ClientState]
            /\ \A d \in Clients : client'[d].reader = "enqueue" => client'[d].payload \in Events
        BY <3>1, <4>2, ClientStep
      <4> QED
        BY <2>1, <3>1, <4>3, Hashes DEF TypeInv, TypeOK, Payloads
    <3>4. CASE p.op # "hello"
      <4>1. Reported(c, p.op) \in Reports
        BY <3>2, <3>4, ReportedType DEF Reports
      <4>2. HandledBuiltIn(c, p)
              = [client[c] EXCEPT !.reader = "read", !.payload = Nil, !.closeChan = Reported(c, p.op)]
        BY <3>4, <1>c, ClientFields DEF HandledBuiltIn, Reading
      <4>3. HandledBuiltIn(c, p) \in ClientState /\ HandledBuiltIn(c, p).reader = "read"
        BY <4>1, <4>2, <1>c, ClientFields
      <4>4. /\ client' \in [Clients -> ClientState]
            /\ \A d \in Clients : client'[d].reader = "enqueue" => client'[d].payload \in Events
        BY <3>1, <4>3, ClientStep
      <4> QED
        BY <2>1, <3>1, <4>4, Hashes DEF TypeInv, TypeOK, Payloads
    <3> QED
      BY <3>3, <3>4
  <2>2. CASE p \notin Controls
    <3> DEFINE state == [client[c] EXCEPT !.reader = "enqueue"]
    <3>1. /\ p \in Events /\ dataMap' = dataMap \cup {DataHash(p)}
          /\ client' = [client EXCEPT ![c] = state]
          /\ UNCHANGED <<sessionChan, handed, opened, lost, forceUpToken, cleanups, dropped>>
      BY <1>2, <2>2 DEF StoreAndHandle, TypeInv, TypeOK
    <3>2. state \in ClientState /\ state.payload = p
      BY <1>c, ClientFields
    <3> HIDE DEF state
    <3>3. /\ client' \in [Clients -> ClientState]
          /\ \A d \in Clients : client'[d].reader = "enqueue" => client'[d].payload \in Events
      BY <3>1, <3>2, ClientStep
    <3> QED
      BY <3>1, <3>3, Hashes DEF TypeInv, TypeOK, Payloads
  <2> QED
    BY <2>1, <2>2
<1>3. CASE Enqueue(c)
  <2> DEFINE q == Append(client[c].messageQueue, client[c].payload)
             state == [Reading(c) EXCEPT !.messageQueue = q]
  <2>1. q \in Queues
    BY <1>3, <1>c, AppendProperties DEF Enqueue, Queues
  <2>2. Step(c, state)
    BY <1>3, <1>c, ClientFields DEF Enqueue, Reading
  <2> HIDE DEF q
  <2>3. state = [client[c] EXCEPT !.reader = "read", !.payload = Nil, !.messageQueue = q]
    BY <1>c, ClientFields DEF Reading
  <2>4. state \in ClientState /\ state.reader = "read"
    BY <1>c, <2>1, <2>3, ClientFields, ZenonT(60)
  <2> HIDE DEF state
  <2> QED
    BY <2>2, <2>4, StepType
<1>4. ASSUME NEW e \in Frames \cup {"io"}, ReadFails(c, e) PROVE TypeInv'
  <2> DEFINE state == [client[c] EXCEPT !.reader = "stopped", !.closeChan = Reported(c, e),
                                        !.greeted = FALSE, !.sid = 0, !.next = 1]
  <2>1. Reported(c, e) \in Reports
    BY ReportedType DEF Errors, Reports
  <2>2. state \in ClientState /\ state.reader = "stopped"
    BY <1>c, <2>1, ClientFields
  <2>3. Step(c, state)
    BY <1>4 DEF ReadFails
  <2> HIDE DEF state
  <2> QED
    BY <2>2, <2>3, StepType
<1> QED
  BY <1>1, <1>2, <1>3, <1>4 DEF Reader

LEMMA ListenerType ==
  ASSUME TypeInv, NEW c \in Clients, Listener(c)
  PROVE  TypeInv'
<1> USE Values
<1>c. /\ client[c] \in ClientState /\ client[c].session \in SessionRec
      /\ client[c].reader = "enqueue" => client[c].payload \in Events
      /\ client[c].event \in Handling
  BY ClientFields DEF TypeInv, TypeOK
<1>1. client[c].session.id \in 0 .. MaxSessions /\ client[c].session.seq \in 0 .. MaxSeq
  BY <1>c DEF SessionRec
<1>2. client[c].event.sid \in 0 .. MaxSessions
  BY <1>c, PayloadKinds, Constants DEF Handling
<1>3. ASSUME client[c].messageQueue # << >>
      PROVE  /\ Head(client[c].messageQueue) \in Events
             /\ Tail(client[c].messageQueue) \in Queues
             /\ Saved(c, client[c].session.id, Head(client[c].messageQueue).seq) \in SessionRec
  <2>1. Head(client[c].messageQueue) \in Events /\ Tail(client[c].messageQueue) \in Queues
    BY <1>3, QueueType DEF Queues
  <2>2. Head(client[c].messageQueue).seq \in 0 .. MaxSeq
    BY <2>1, PayloadKinds, Constants
  <2> QED
    BY <2>1, <2>2, <1>1, SavedType
<1>4. Saved(c, client[c].event.sid, client[c].session.seq) \in SessionRec
  BY <1>1, <1>2, SavedType
<1>5. CASE TakeReady(c)
  <2> DEFINE m == Head(client[c].messageQueue)
             rest == Tail(client[c].messageQueue)
             session == Saved(c, client[c].session.id, m.seq)
             state == [client[c] EXCEPT !.messageQueue = rest, !.listener = "ready",
                                        !.event = m, !.session = session]
  <2>1. Step(c, state)
    BY <1>5 DEF TakeReady
  <2>2. m \in Events /\ rest \in Queues /\ session \in SessionRec
    BY <1>5, <1>3 DEF TakeReady
  <2> HIDE DEF m, rest, session
  <2>3. state \in ClientState
    BY <1>c, <2>2, ClientFields
  <2>4. state.reader = client[c].reader /\ state.payload = client[c].payload
    BY <1>c, ClientFields
  <2> HIDE DEF state
  <2> QED
    BY <1>c, <2>1, <2>3, <2>4, StepType
<1>6. CASE TakeEvent(c)
  <2> DEFINE m == Head(client[c].messageQueue)
             rest == Tail(client[c].messageQueue)
             session == Saved(c, client[c].session.id, m.seq)
             state == [client[c] EXCEPT !.messageQueue = rest, !.session = session]
  <2>1. client' = [client EXCEPT ![c] = state] /\ handed' = handed \cup {m}
    BY <1>6 DEF TakeEvent, TypeInv, TypeOK
  <2>2. m \in Events /\ rest \in Queues /\ session \in SessionRec
    BY <1>6, <1>3 DEF TakeEvent
  <2> HIDE DEF m, rest, session
  <2>3. state \in ClientState
    BY <1>c, <2>2, ClientFields
  <2>4. state.reader = client[c].reader /\ state.payload = client[c].payload
    BY <1>c, ClientFields
  <2> HIDE DEF state
  <2>5. /\ client' \in [Clients -> ClientState]
        /\ \A d \in Clients : client'[d].reader = "enqueue" => client'[d].payload \in Events
    BY <1>c, <2>1, <2>3, <2>4, ClientStep
  <2> QED
    BY <1>6, <2>1, <2>2, <2>5 DEF TakeEvent, TypeInv, TypeOK
<1>7. CASE HandleReady(c)
  <2> DEFINE session == Saved(c, client[c].event.sid, client[c].session.seq)
             state == [client[c] EXCEPT !.session = session, !.listener = "wait", !.event = Nil]
  <2>1. Step(c, state)
    BY <1>7 DEF HandleReady
  <2>2. session \in SessionRec
    BY <1>4
  <2> HIDE DEF session
  <2>3. state \in ClientState
    BY <1>c, <2>2, ClientFields
  <2>4. state.reader = client[c].reader /\ state.payload = client[c].payload
    BY <1>c, ClientFields
  <2> HIDE DEF state
  <2> QED
    BY <1>c, <2>1, <2>3, <2>4, StepType
<1>8. CASE ReadyPanics(c)
  <2> DEFINE session == Saved(c, client[c].event.sid, client[c].session.seq)
             error == Reported(c, "panic")
             state == [client[c] EXCEPT !.session = session, !.listener = "dead",
                                        !.closeChan = error]
  <2>1. Step(c, state)
    BY <1>8 DEF ReadyPanics
  <2>2. session \in SessionRec /\ error \in Reports
    BY <1>4, ReportedType DEF Errors, Reports
  <2> HIDE DEF session, error
  <2>3. state \in ClientState
    BY <1>c, <2>2, ClientFields
  <2>4. state.reader = client[c].reader /\ state.payload = client[c].payload
    BY <1>c, ClientFields
  <2> HIDE DEF state
  <2> QED
    BY <1>c, <2>1, <2>3, <2>4, StepType
<1>9. CASE ListenerExits(c)
  <2> DEFINE state == [client[c] EXCEPT !.listener = "exited"]
  <2>1. Step(c, state)
    BY <1>9 DEF ListenerExits
  <2>2. state \in ClientState
    BY <1>c, ClientFields
  <2>3. state.reader = client[c].reader /\ state.payload = client[c].payload
    BY <1>c, ClientFields
  <2> HIDE DEF state
  <2> QED
    BY <1>c, <2>1, <2>2, <2>3, StepType
<1> QED
  BY <1>5, <1>6, <1>7, <1>8, <1>9 DEF Listener
-----------------------------------------------------------------------------
LEMMA TypeStep == TypeInv /\ [Next]_vars => TypeInv'
<1> SUFFICES ASSUME TypeInv, [Next]_vars PROVE TypeInv'
  OBVIOUS
<1>1. ASSUME NEW c \in Clients,
             StartConnect(c) \/ HeartbeatFails(c) \/ Main(c) \/ Reader(c) \/ Listener(c)
      PROVE  TypeInv'
  BY <1>1, MainType, ReaderType, ListenerType
<1>2. CASE cleanupDataMap
  <2>1. cleanups' \in 0 .. MaxCleanups
    BY <1>2, Constants DEF cleanupDataMap, TypeInv, TypeOK
  <2>2. dataMap' \subseteq dataMap
    BY <1>2 DEF cleanupDataMap
  <2> QED
    BY <1>2, <2>1, <2>2 DEF cleanupDataMap, TypeInv, TypeOK
<1>3. CASE RefreshToken
  <2>1. forceUpToken' \in 0 .. ForceSize
    BY <1>3, Constants DEF RefreshToken, TypeInv, TypeOK
  <2> QED
    BY <1>3, <2>1 DEF RefreshToken, TypeInv, TypeOK
<1>4. CASE UNCHANGED vars
  BY <1>4 DEF vars, TypeInv, TypeOK
<1> QED
  BY <1>1, <1>2, <1>3, <1>4 DEF Next

(* Every variable keeps its type: in particular LastSeq stays within the    *)
(* session, the queue holds events only, and ForceUpToken never overfills   *)
(* its channel.                                                             *)
THEOREM TypeCorrect == Spec => []TypeOK
<1>1. TypeInv => TypeOK
  BY DEF TypeInv
<1> QED
  BY <1>1, InitType, TypeStep, PTL DEF Spec
-----------------------------------------------------------------------------
(* The session of a client never leaves its shard: what is put back is the  *)
(* shard that was taken.                                                    *)
ShardKept == \A c \in Clients : Working(c) =>
               client[c].session.shard = client[c].given.shard

PlaceInv == OnePlace /\ ShardKept

(* What OnePlace reads of a client.                                         *)
SamePlace(old, new) ==
  /\ new.main \in {"unused", "gone"} <=> old.main \in {"unused", "gone"}
  /\ new.given = old.given
  /\ new.session.shard = old.session.shard

LEMMA PlaceFrame ==
  ASSUME PlaceInv, sessionChan' = sessionChan, lost' = lost,
         \A d \in Clients : SamePlace(client[d], client'[d])
  PROVE  PlaceInv'
<1>1. \A d \in Clients : Working(d)' <=> Working(d)
  BY DEF SamePlace, Working
<1>2. \A d \in Clients : client'[d].given = client[d].given
                          /\ client'[d].session.shard = client[d].session.shard
  BY DEF SamePlace
<1>3. \A s \in Shards : (Waits(s)' <=> Waits(s)) /\ (Served(s)' <=> Served(s))
  BY <1>1, <1>2 DEF Waits, Served
<1>4. OnePlace'
  <2>1. \A i, j \in DOMAIN sessionChan' :
          sessionChan'[i].shard = sessionChan'[j].shard => i = j
    BY DEF PlaceInv, OnePlace
  <2>2. \A d, e \in Clients :
          Working(d)' /\ Working(e)' /\ client'[d].given.shard = client'[e].given.shard => d = e
    BY <1>1, <1>2 DEF PlaceInv, OnePlace
  <2>3. \A s \in Shards : ~(Waits(s)' /\ Served(s)')
                            /\ (s \in lost' <=> ~Waits(s)' /\ ~Served(s)')
    BY <1>3 DEF PlaceInv, OnePlace
  <2> QED
    BY <2>1, <2>2, <2>3 DEF OnePlace
<1>5. ShardKept'
  BY <1>1, <1>2 DEF PlaceInv, ShardKept
<1> QED
  BY <1>4, <1>5 DEF PlaceInv

LEMMA PlaceStep ==
  ASSUME TypeInv, PlaceInv, NEW c \in Clients, NEW state,
         client' = [client EXCEPT ![c] = state], SamePlace(client[c], state),
         sessionChan' = sessionChan, lost' = lost
  PROVE  PlaceInv'
<1>1. \A d \in Clients : SamePlace(client[d], client'[d])
  BY DEF SamePlace, TypeInv, TypeOK
<1> QED
  BY <1>1, PlaceFrame

(* newConnect returns, and the shard goes back to the end of sessionChan.   *)
LEMMA PlaceBack ==
  ASSUME TypeInv, PlaceInv, NEW c \in Clients, Working(c),
         NEW session \in SessionRec, session.shard = client[c].given.shard,
         StepAndQueue(c, Gone(c), session)
  PROVE  PlaceInv'
<1> DEFINE shard == client[c].given.shard
           n == Len(sessionChan)
<1>1. /\ sessionChan \in Seq(SessionRec) /\ client[c] \in ClientState /\ shard \in Shards
      /\ n \in Nat /\ DOMAIN sessionChan = 1 .. n
  BY LenProperties DEF TypeInv, TypeOK, ClientState, SessionRec
<1>2. /\ DOMAIN sessionChan' = 1 .. n + 1
      /\ \A i \in 1 .. n : sessionChan'[i] = sessionChan[i]
      /\ sessionChan'[n + 1] = session
  <2>1. sessionChan' = Append(sessionChan, session) /\ sessionChan' \in Seq(SessionRec)
    BY <1>1, AppendProperties DEF StepAndQueue
  <2> QED
    BY <1>1, <2>1, AppendProperties, LenProperties
<1>3. Gone(c).main = "gone" /\ lost' = lost
  BY <1>1, ClientFields DEF Gone, StepAndQueue
<1>4. \A d \in Clients : d # c => client'[d] = client[d]
  BY DEF StepAndQueue, TypeInv, TypeOK
<1>5. client'[c] = Gone(c)
  BY DEF StepAndQueue, TypeInv, TypeOK
<1>6. \A d \in Clients : Working(d)' <=> Working(d) /\ d # c
  BY <1>3, <1>4, <1>5 DEF Working
<1>7. \A s \in Shards : Waits(s)' <=> Waits(s) \/ s = shard
  <2>1. 1 .. n + 1 = 1 .. n \cup {n + 1}
    BY <1>1
  <2> QED
    BY <1>1, <1>2, <2>1 DEF Waits
<1>8. \A s \in Shards : Served(s)' <=> Served(s) /\ s # shard
  <2>1. \A d \in Clients : Working(d) /\ client[d].given.shard = shard => d = c
    BY DEF PlaceInv, OnePlace
  <2> QED
    BY <1>4, <1>6, <2>1 DEF Served
<1>9. Served(shard) /\ ~Waits(shard)
  BY <1>1 DEF Served, PlaceInv, OnePlace
<1>10. \A i, j \in DOMAIN sessionChan' : sessionChan'[i].shard = sessionChan'[j].shard => i = j
  <2>1. \A i \in 1 .. n : sessionChan[i].shard # shard
    BY <1>1, <1>9 DEF Waits
  <2>2. \A i, j \in 1 .. n : sessionChan[i].shard = sessionChan[j].shard => i = j
    BY <1>1 DEF PlaceInv, OnePlace
  <2>3. 1 .. n + 1 = 1 .. n \cup {n + 1}
    BY <1>1
  <2> QED
    BY <1>2, <2>1, <2>2, <2>3
<1>11. \A d, e \in Clients :
         Working(d)' /\ Working(e)' /\ client'[d].given.shard = client'[e].given.shard => d = e
  BY <1>4, <1>6 DEF PlaceInv, OnePlace
<1>12. \A s \in Shards : ~(Waits(s)' /\ Served(s)')
                           /\ (s \in lost' <=> ~Waits(s)' /\ ~Served(s)')
  <2>1. \A s \in Shards : ~(Waits(s) /\ Served(s)) /\ (s \in lost <=> ~Waits(s) /\ ~Served(s))
    BY DEF PlaceInv, OnePlace
  <2> QED
    BY <1>3, <1>7, <1>8, <1>9, <2>1
<1>13. ShardKept'
  BY <1>4, <1>6 DEF ShardKept, PlaceInv
<1> HIDE DEF shard, n
<1>14. OnePlace'
  BY <1>10, <1>11, <1>12 DEF OnePlace
<1> QED
  BY <1>13, <1>14 DEF PlaceInv

(* A session leaves sessionChan for the newConnect that works on it.        *)
LEMMA PlaceTaken ==
  ASSUME TypeInv, PlaceInv, NEW c \in Clients, StartConnect(c)
  PROVE  PlaceInv'
<1> DEFINE session == Head(sessionChan)
           n == Len(sessionChan)
<1>1. /\ sessionChan \in Seq(SessionRec) /\ n \in Nat /\ n > 0
      /\ DOMAIN sessionChan = 1 .. n /\ session = sessionChan[1] /\ session \in SessionRec
  BY LenProperties, EmptySeq, HeadTailProperties DEF TypeInv, TypeOK, StartConnect
<1>2. /\ DOMAIN sessionChan' = 1 .. n - 1
      /\ \A i \in 1 .. n - 1 : sessionChan'[i] = sessionChan[i + 1]
  <2>1. /\ sessionChan' = Tail(sessionChan) /\ sessionChan' \in Seq(SessionRec)
        /\ Len(sessionChan') = n - 1
        /\ \A i \in 1 .. Len(Tail(sessionChan)) : sessionChan'[i] = sessionChan[i + 1]
    BY <1>1, HeadTailProperties DEF StartConnect
  <2> QED
    BY <1>1, <2>1, LenProperties
<1>3. /\ \A d \in Clients : d # c => client'[d] = client[d]
      /\ client'[c] = NewClient("dial", session)
      /\ ~Working(c) /\ lost' = lost
  BY DEF StartConnect, Working, TypeInv, TypeOK
<1>4. /\ client'[c].main = "dial" /\ client'[c].given = session
      /\ client'[c].session = session
  BY <1>3 DEF NewClient
<1>5. \A d \in Clients : Working(d)' <=> Working(d) \/ d = c
  BY <1>3, <1>4 DEF Working
<1>6. session.shard \in Shards /\ Waits(session.shard) /\ ~Served(session.shard)
  BY <1>1, SMTT(30) DEF SessionRec, Waits, PlaceInv, OnePlace
<1>7. \A s \in Shards : Waits(s)' <=> Waits(s) /\ s # session.shard
  <2> SUFFICES ASSUME NEW s \in Shards
               PROVE  Waits(s)' <=> Waits(s) /\ s # session.shard
    OBVIOUS
  <2>1. \A i, j \in 1 .. n : sessionChan[i].shard = sessionChan[j].shard => i = j
    BY <1>1 DEF PlaceInv, OnePlace
  <2>2. ASSUME Waits(s)' PROVE Waits(s) /\ s # session.shard
    <3>1. PICK i \in 1 .. n - 1 : sessionChan[i + 1].shard = s
      BY <2>2, <1>2 DEF Waits
    <3>2. i + 1 \in 1 .. n /\ i + 1 # 1 /\ 1 \in 1 .. n
      BY <1>1
    <3> QED
      BY <1>1, <2>1, <3>1, <3>2 DEF Waits
  <2>3. ASSUME Waits(s), s # session.shard PROVE Waits(s)'
    <3>1. PICK i \in 1 .. n : sessionChan[i].shard = s
      BY <2>3, <1>1 DEF Waits
    <3>2. i - 1 \in 1 .. n - 1 /\ (i - 1) + 1 = i
      BY <1>1, <2>3, <3>1
    <3>3. sessionChan'[i - 1] = sessionChan[i]
      BY <1>2, <3>2
    <3> QED
      BY <1>2, <3>1, <3>2, <3>3 DEF Waits
  <2> QED
    BY <2>2, <2>3
<1>8. \A s \in Shards : Served(s)' <=> Served(s) \/ s = session.shard
  BY <1>3, <1>4, <1>5 DEF Served
<1>9. \A i, j \in DOMAIN sessionChan' : sessionChan'[i].shard = sessionChan'[j].shard => i = j
  <2>1. \A i, j \in 1 .. n : sessionChan[i].shard = sessionChan[j].shard => i = j
    BY <1>1 DEF PlaceInv, OnePlace
  <2>2. \A i \in 1 .. n - 1 : i + 1 \in 1 .. n
    BY <1>1
  <2>3. \A i, j \in 1 .. n - 1 : i + 1 = j + 1 => i = j
    BY <1>1
  <2> QED
    BY <1>2, <2>1, <2>2, <2>3
<1>10. \A d, e \in Clients :
         Working(d)' /\ Working(e)' /\ client'[d].given.shard = client'[e].given.shard => d = e
  BY <1>3, <1>4, <1>5, <1>6 DEF PlaceInv, OnePlace, Served
<1>11. \A s \in Shards : ~(Waits(s)' /\ Served(s)')
                           /\ (s \in lost' <=> ~Waits(s)' /\ ~Served(s)')
  <2>1. \A s \in Shards : ~(Waits(s) /\ Served(s)) /\ (s \in lost <=> ~Waits(s) /\ ~Served(s))
    BY DEF PlaceInv, OnePlace
  <2> QED
    BY <1>3, <1>6, <1>7, <1>8, <2>1
<1>12. ShardKept'
  BY <1>3, <1>4, <1>5 DEF ShardKept, PlaceInv
<1> HIDE DEF session, n
<1>13. OnePlace'
  BY <1>9, <1>10, <1>11 DEF OnePlace
<1> QED
  BY <1>12, <1>13 DEF PlaceInv

(* The one way a shard is lost.                                             *)
LEMMA PlaceLost ==
  ASSUME TypeInv, PlaceInv, NEW c \in Clients, AuthFails(c)
  PROVE  PlaceInv'
<1> DEFINE shard == client[c].given.shard
<1>1. client[c] \in ClientState /\ shard \in Shards /\ Working(c)
  BY DEF TypeInv, TypeOK, ClientState, SessionRec, AuthFails, Working
<1>2. Gone(c).main = "gone"
  BY <1>1, ClientFields DEF Gone
<1>3. /\ \A d \in Clients : d # c => client'[d] = client[d]
      /\ client'[c] = Gone(c)
      /\ sessionChan' = sessionChan /\ lost' = lost \cup {shard}
  BY DEF AuthFails, TypeInv, TypeOK
<1>4. \A d \in Clients : Working(d)' <=> Working(d) /\ d # c
  BY <1>2, <1>3 DEF Working
<1>5. \A s \in Shards : Waits(s)' <=> Waits(s)
  BY <1>3 DEF Waits
<1>6. Served(shard) /\ ~Waits(shard)
  BY <1>1 DEF Served, PlaceInv, OnePlace
<1>7. \A s \in Shards : Served(s)' <=> Served(s) /\ s # shard
  <2>1. \A d \in Clients : Working(d) /\ client[d].given.shard = shard => d = c
    BY <1>1 DEF PlaceInv, OnePlace
  <2> QED
    BY <1>3, <1>4, <2>1 DEF Served
<1>8. \A i, j \in DOMAIN sessionChan' : sessionChan'[i].shard = sessionChan'[j].shard => i = j
  BY <1>3 DEF PlaceInv, OnePlace
<1>9. \A d, e \in Clients :
        Working(d)' /\ Working(e)' /\ client'[d].given.shard = client'[e].given.shard => d = e
  BY <1>3, <1>4 DEF PlaceInv, OnePlace
<1>10. \A s \in Shards : ~(Waits(s)' /\ Served(s)')
                           /\ (s \in lost' <=> ~Waits(s)' /\ ~Served(s)')
  <2>1. \A s \in Shards : ~(Waits(s) /\ Served(s)) /\ (s \in lost <=> ~Waits(s) /\ ~Served(s))
    BY DEF PlaceInv, OnePlace
  <2> QED
    BY <1>3, <1>5, <1>6, <1>7, <2>1
<1>11. ShardKept'
  BY <1>3, <1>4 DEF ShardKept, PlaceInv
<1> HIDE DEF shard
<1>12. OnePlace'
  BY <1>8, <1>9, <1>10 DEF OnePlace
<1> QED
  BY <1>11, <1>12 DEF PlaceInv

LEMMA SavedShard ==
  ASSUME TypeInv, NEW c \in Clients, NEW id, NEW n
  PROVE  Saved(c, id, n).shard = client[c].session.shard
<1>1. client[c].session \in SessionRec
  BY DEF TypeInv, TypeOK, ClientState
<1> QED
  BY <1>1 DEF Saved, SessionRec

LEMMA InitPlace == Init => PlaceInv
<1> SUFFICES ASSUME Init PROVE PlaceInv
  OBVIOUS
<1>1. /\ DOMAIN sessionChan = 1 .. ShardCount
      /\ \A i \in 1 .. ShardCount : sessionChan[i].shard = i - 1
  BY Constants DEF Init, NewSession
<1>2. \A c \in Clients : ~Working(c)
  BY DEF Init, NewClient, Working
<1>3. \A i, j \in DOMAIN sessionChan : sessionChan[i].shard = sessionChan[j].shard => i = j
  BY <1>1, Constants
<1>4. \A s \in Shards : Waits(s)
  <2> SUFFICES ASSUME NEW s \in Shards PROVE Waits(s)
    OBVIOUS
  <2>1. s + 1 \in 1 .. ShardCount /\ (s + 1) - 1 = s
    BY Constants DEF Shards
  <2> QED
    BY <1>1, <2>1 DEF Waits
<1> QED
  BY <1>2, <1>3, <1>4 DEF PlaceInv, OnePlace, ShardKept, Served, Init

LEMMA PlaceInvStep == TypeInv /\ PlaceInv /\ [Next]_vars => PlaceInv'
<1> SUFFICES ASSUME TypeInv, PlaceInv, [Next]_vars PROVE PlaceInv'
  OBVIOUS
<1>t. \A c \in Clients : client[c] \in ClientState /\ client[c].session \in SessionRec
                           /\ client[c].given \in SessionRec
  BY DEF TypeInv, TypeOK, ClientState
<1>1. ASSUME NEW c \in Clients, Main(c) PROVE PlaceInv'
  <2>1. CASE ConnectFails(c)
    BY <1>t, <2>1, PlaceBack DEF ConnectFails, Working
  <2>2. CASE Connects(c)
    <3>1. SamePlace(client[c], [client[c] EXCEPT !.main = "auth"])
      BY <1>t, <2>2, ClientFields DEF SamePlace, Connects
    <3> QED
      BY <2>2, <3>1, PlaceStep DEF Connects, Step
  <2>3. CASE Identify(c) \/ Resume(c)
    <3>1. PICK i, n : Listens(c, i, n)
      BY <2>3 DEF Identify, Resume
    <3> DEFINE state == [client[c] EXCEPT !.main = "listening", !.reader = "read",
                                          !.listener = "wait", !.sid = i, !.next = n]
    <3>2. client' = [client EXCEPT ![c] = state]
      BY <3>1 DEF Listens, TypeInv, TypeOK
    <3>3. SamePlace(client[c], state)
      BY <1>t, <2>3, ClientFields DEF SamePlace, Identify, Resume
    <3> HIDE DEF state
    <3> QED
      BY <2>3, <3>2, <3>3, PlaceStep DEF Identify, Resume
  <2>4. CASE AuthFails(c)
    BY <2>4, PlaceLost
  <2>5. CASE TakeError(c)
    <3> DEFINE state == [client[c] EXCEPT !.main = "ended", !.err = Verdict(client[c].closeChan)]
    <3>1. client' = [client EXCEPT ![c] = state]
      BY <2>5 DEF TakeError, TypeInv, TypeOK
    <3>2. SamePlace(client[c], state)
      BY <1>t, <2>5, ClientFields DEF SamePlace, TakeError
    <3> HIDE DEF state
    <3> QED
      BY <2>5, <3>1, <3>2, PlaceStep DEF TakeError
  <2>6. CASE ClearSession(c)
    <3> DEFINE state == [client[c] EXCEPT !.main = "requeue",
                                          !.session = NewSession(client[c].session.shard)]
    <3>1. Step(c, state)
      BY <2>6 DEF ClearSession
    <3>2. SamePlace(client[c], state)
      BY <1>t, <2>6, ClientFields DEF SamePlace, ClearSession, NewSession
    <3> HIDE DEF state
    <3> QED
      BY <3>1, <3>2, PlaceStep DEF Step
  <2>7. CASE RefusedPanics(c)
    BY <1>t, <2>7, PlaceBack DEF RefusedPanics, Working
  <2>8. CASE Requeue(c)
    <3>1. Working(c)
      BY <2>8 DEF Requeue, Working
    <3>2. client[c].session.shard = client[c].given.shard
      BY <3>1 DEF PlaceInv, ShardKept
    <3> QED
      BY <1>t, <2>8, <3>1, <3>2, PlaceBack DEF Requeue
  <2> QED
    BY <1>1, <2>1, <2>2, <2>3, <2>4, <2>5, <2>6, <2>7, <2>8 DEF Main
<1>2. ASSUME NEW c \in Clients, StartConnect(c) PROVE PlaceInv'
  BY <1>2, PlaceTaken
<1>3. ASSUME NEW c \in Clients, HeartbeatFails(c) \/ Reader(c) PROVE PlaceInv'
  <2>1. PICK state : /\ client' = [client EXCEPT ![c] = state]
                     /\ SamePlace(client[c], state)
    <3>1. CASE HeartbeatFails(c)
      <4>1. SamePlace(client[c], [client[c] EXCEPT !.closeChan = Reported(c, "io")])
        BY <1>t, ClientFields DEF SamePlace
      <4> QED
        BY <3>1, <4>1 DEF HeartbeatFails, Step
    <3>2. ASSUME NEW p \in Payloads, ReadMessage(c, p)
          PROVE  \E state : /\ client' = [client EXCEPT ![c] = state]
                            /\ SamePlace(client[c], state)
      <4> DEFINE n == IF p \in Events THEN client[c].next + 1 ELSE client[c].next
                 seen == DataHash(p) \in dataMap
                 held == IF seen THEN Nil ELSE p
                 at == IF seen THEN "read" ELSE "store"
                 state == [client[c] EXCEPT !.greeted = TRUE, !.next = n, !.payload = held,
                                            !.reader = at]
      <4>1. client' = [client EXCEPT ![c] = state]
        BY <3>2 DEF ReadMessage
      <4>2. SamePlace(client[c], state)
        <5> HIDE DEF n, held, at
        <5> QED
          BY <1>t, ClientFields DEF SamePlace
      <4> QED
        BY <4>1, <4>2
    <3>3. CASE StoreAndHandle(c)
      <4> DEFINE p == client[c].payload
                 queued == [client[c] EXCEPT !.reader = "enqueue"]
      <4>1. SamePlace(client[c], queued)
        BY <1>t, ClientFields DEF SamePlace
      <4>2. SamePlace(client[c], HandledBuiltIn(c, p))
        <5>1. CASE p.op = "hello"
          <6>1. HandledBuiltIn(c, p)
                  = [client[c] EXCEPT !.reader = "read", !.payload = Nil, !.ticker = "hello"]
            BY <5>1, <1>t, ClientFields DEF HandledBuiltIn, Reading
          <6> QED
            BY <6>1, <1>t, ClientFields DEF SamePlace
        <5>2. CASE p.op # "hello"
          <6>1. HandledBuiltIn(c, p) = [client[c] EXCEPT !.reader = "read", !.payload = Nil,
                                                         !.closeChan = Reported(c, p.op)]
            BY <5>2, <1>t, ClientFields DEF HandledBuiltIn, Reading
          <6> QED
            BY <6>1, <1>t, ClientFields DEF SamePlace
        <5> QED
          BY <5>1, <5>2
      <4>3. \/ client' = [client EXCEPT ![c] = HandledBuiltIn(c, p)]
            \/ client' = [client EXCEPT ![c] = queued]
        BY <3>3 DEF StoreAndHandle, TypeInv, TypeOK
      <4> QED
        BY <4>1, <4>2, <4>3
    <3>4. CASE Enqueue(c)
      <4> DEFINE state == [client[c] EXCEPT !.reader = "read", !.payload = Nil,
                   !.messageQueue = Append(client[c].messageQueue, client[c].payload)]
      <4>1. client' = [client EXCEPT ![c] = state]
        BY <3>4, <1>t, ClientFields DEF Enqueue, Step, Reading
      <4>2. SamePlace(client[c], state)
        BY <1>t, ClientFields DEF SamePlace
      <4> QED
        BY <4>1, <4>2
    <3>5. ASSUME NEW e \in Frames \cup {"io"}, ReadFails(c, e)
          PROVE  \E state : /\ client' = [client EXCEPT ![c] = state]
                            /\ SamePlace(client[c], state)
      <4> DEFINE state == [client[c] EXCEPT !.reader = "stopped", !.closeChan = Reported(c, e),
                                            !.greeted = FALSE, !.sid = 0, !.next = 1]
      <4>1. client' = [client EXCEPT ![c] = state]
        BY <3>5 DEF ReadFails, Step
      <4>2. SamePlace(client[c], state)
        BY <1>t, ClientFields DEF SamePlace
      <4> QED
        BY <4>1, <4>2
    <3> QED
      BY <1>3, <3>1, <3>2, <3>3, <3>4, <3>5 DEF Reader
  <2>2. sessionChan' = sessionChan /\ lost' = lost
    BY <1>3 DEF HeartbeatFails, Reader, ReadMessage, StoreAndHandle, Enqueue, ReadFails, Step
  <2> QED
    BY <2>1, <2>2, PlaceStep
<1>4. ASSUME NEW c \in Clients, Listener(c) PROVE PlaceInv'
  <2>1. PICK state : /\ client' = [client EXCEPT ![c] = state]
                     /\ SamePlace(client[c], state)
    <3> DEFINE m == Head(client[c].messageQueue)
               rest == Tail(client[c].messageQueue)
               numbered == Saved(c, client[c].session.id, m.seq)
               named == Saved(c, client[c].event.sid, client[c].session.seq)
               error == Reported(c, "panic")
    <3>1. numbered.shard = client[c].session.shard /\ named.shard = client[c].session.shard
      BY SavedShard
    <3>2. \/ client' = [client EXCEPT ![c] = [client[c] EXCEPT !.messageQueue = rest,
                           !.listener = "ready", !.event = m, !.session = numbered]]
          \/ client' = [client EXCEPT ![c] = [client[c] EXCEPT !.messageQueue = rest,
                                                              !.session = numbered]]
          \/ client' = [client EXCEPT ![c] = [client[c] EXCEPT !.session = named,
                                                 !.listener = "wait", !.event = Nil]]
          \/ client' = [client EXCEPT ![c] = [client[c] EXCEPT !.session = named,
                                                 !.listener = "dead", !.closeChan = error]]
          \/ client' = [client EXCEPT ![c] = [client[c] EXCEPT !.listener = "exited"]]
      <4>1. CASE TakeReady(c)
        BY <4>1 DEF TakeReady, Step
      <4>2. CASE TakeEvent(c)
        BY <4>2 DEF TakeEvent, TypeInv, TypeOK
      <4>3. CASE HandleReady(c)
        BY <4>3 DEF HandleReady, Step
      <4>4. CASE ReadyPanics(c)
        BY <4>4 DEF ReadyPanics, Step
      <4>5. CASE ListenerExits(c)
        BY <4>5 DEF ListenerExits, Step
      <4> QED
        BY <1>4, <4>1, <4>2, <4>3, <4>4, <4>5 DEF Listener
    <3> HIDE DEF m, rest, numbered, named, error
    <3>3. /\ SamePlace(client[c], [client[c] EXCEPT !.messageQueue = rest,
                           !.listener = "ready", !.event = m, !.session = numbered])
          /\ SamePlace(client[c], [client[c] EXCEPT !.messageQueue = rest, !.session = numbered])
      BY <1>t, <3>1, ClientFields DEF SamePlace
    <3>4. /\ SamePlace(client[c], [client[c] EXCEPT !.session = named,
                                     !.listener = "wait", !.event = Nil])
          /\ SamePlace(client[c], [client[c] EXCEPT !.session = named,
                                     !.listener = "dead", !.closeChan = error])
          /\ SamePlace(client[c], [client[c] EXCEPT !.listener = "exited"])
      BY <1>t, <3>1, ClientFields DEF SamePlace
    <3> QED
      BY <3>2, <3>3, <3>4
  <2>2. sessionChan' = sessionChan /\ lost' = lost
    BY <1>4 DEF Listener, TakeReady, TakeEvent, HandleReady, ReadyPanics, ListenerExits, Step
  <2> QED
    BY <2>1, <2>2, PlaceStep
<1>5. CASE cleanupDataMap \/ RefreshToken \/ UNCHANGED vars
  BY <1>5, PlaceFrame DEF cleanupDataMap, RefreshToken, vars, SamePlace
<1> QED
  BY <1>1, <1>2, <1>3, <1>4, <1>5 DEF Next

(* A shard is never authenticated twice at a time and never queued twice,   *)
(* and it disappears only when its Identify or Resume cannot be written.    *)
THEOREM OnePlaceCorrect == Spec => []OnePlace
<1>1. PlaceInv => OnePlace
  BY DEF PlaceInv
<1> QED
  BY <1>1, InitType, TypeStep, InitPlace, PlaceInvStep, PTL DEF Spec
-----------------------------------------------------------------------------
(* What has become of the events of a session, up to number n.              *)
Accounted(m) == HandedOrQueued(m) \/ m \in dropped

Covered(i, n) == \A k \in 2 .. n : Accounted(Event(i, k))

(* An event with this data was handed over or is on its way.                *)
Reached(data) ==
  \E k \in Events : Datum[k] = data /\ k.seq # 1 /\ HandedOrQueued(k)

CoveredSession(r) == r.id # 0 => Covered(r.id, r.seq)

(* Everything a client has at hand belongs to one session.                  *)
OneSession(c) == \E i \in 1 .. MaxSessions :
  /\ \A j \in DOMAIN client[c].messageQueue : client[c].messageQueue[j].sid = i
  /\ client[c].listener = "ready" => client[c].event.sid = i
  /\ client[c].reader \in {"read", "store", "enqueue"} => client[c].sid = i
  /\ Working(c) /\ client[c].session.id # 0 => client[c].session.id = i

(* What the platform has sent to a client is covered, but for the event the *)
(* reader is about to store.                                                *)
ReadInOrder(c) ==
  /\ client[c].reader \in {"read", "enqueue"} => Covered(client[c].sid, client[c].next - 1)
  /\ client[c].reader = "enqueue" => client[c].payload = Event(client[c].sid, client[c].next - 1)
  /\ client[c].reader = "store" /\ client[c].payload \in Controls
       => Covered(client[c].sid, client[c].next - 1)
  /\ client[c].reader = "store" /\ client[c].payload \in Events
       => /\ client[c].payload = Event(client[c].sid, client[c].next - 1)
          /\ Covered(client[c].sid, client[c].next - 2)

QueueCovered(c) ==
  \A j \in DOMAIN client[c].messageQueue :
    Covered(client[c].messageQueue[j].sid, client[c].messageQueue[j].seq)

SessionCovered(c) ==
  Working(c) => /\ CoveredSession(client[c].given) /\ CoveredSession(client[c].session)
                /\ client[c].listener = "ready" => client[c].session.seq <= 1

NotYetListening(c) ==
  /\ client[c].main \in {"unused", "dial", "auth"}
       => /\ client[c].reader = "off" /\ client[c].listener = "off"
          /\ client[c].messageQueue = << >>
  /\ client[c].main \in {"dial", "auth"} => client[c].session = client[c].given

ClientInv(c) == /\ NotYetListening(c) /\ SessionCovered(c) /\ QueueCovered(c)
                /\ ReadInOrder(c) /\ OneSession(c)

SharedInv ==
  /\ \A data \in dataMap \cap Events : data.seq = 1 \/ Reached(data)
  /\ \A m \in dropped : m.seq = 1 \/ Reached(Datum[m])
  /\ \A i \in DOMAIN sessionChan : CoveredSession(sessionChan[i])

SkipInv == SharedInv /\ \A c \in Clients : ClientInv(c)
-----------------------------------------------------------------------------
LEMMA SkipImplies == TypeInv /\ SkipInv => NothingSkipped
<1> SUFFICES ASSUME TypeInv, SkipInv PROVE NothingSkipped
  OBVIOUS
<1>1. ASSUME NEW r \in Resumable PROVE \A n \in 2 .. r.seq : Accounted(Event(r.id, n))
  <2>1. r.id # 0
    BY <1>1 DEF Resumable
  <2>2. CASE r \in ToSet(sessionChan)
    BY <2>1, <2>2 DEF ToSet, SkipInv, SharedInv, CoveredSession, Covered
  <2>3. CASE \E c \in Clients : Working(c) /\ r \in {client[c].given, client[c].session}
    BY <2>1, <2>3 DEF SkipInv, ClientInv, SessionCovered, CoveredSession, Covered
  <2> QED
    BY <1>1, <2>2, <2>3 DEF Resumable
<1>2. ASSUME NEW m \in dropped \cup {e \in Events : DataHash(e) \in dataMap}, m.seq # 1
      PROVE  \E k \in Events : DataHash(k) = DataHash(m) /\ HandedOrQueued(k)
  <2>1. m \in Events /\ DataHash(m) = Datum[m] /\ Datum[m] \in Events /\ Datum[m].seq # 1
    BY <1>2, Hashes DEF TypeInv, TypeOK
  <2>2. Reached(Datum[m])
    BY <1>2, <2>1 DEF SkipInv, SharedInv
  <2> QED BY <2>1, <2>2, Hashes DEF Reached
<1> QED
  BY <1>1, <1>2 DEF NothingSkipped, Accounted

(* Once an event was given to ParseAndHandle or queued, it stays so: only   *)
(* the listener takes it out of a queue, and READY is not handed over.      *)
LEMMA CoveredFrame ==
  ASSUME TypeInv, NEW c \in Clients, handed \subseteq handed', dropped \subseteq dropped',
         \A d \in Clients \ {c} : client'[d] = client[d],
         \A m \in Pending(c) : m.seq = 1 \/ m \in handed' \/ m \in Pending(c)'
  PROVE  /\ \A m : m.seq # 1 /\ HandedOrQueued(m) => HandedOrQueued(m)'
         /\ \A i : \A n \in Int : Covered(i, n) => Covered(i, n)'
<1>1. \A d \in Clients \ {c} : Pending(d)' = Pending(d)
  BY DEF Pending
<1>2. ASSUME NEW m, m.seq # 1, HandedOrQueued(m) PROVE HandedOrQueued(m)'
  BY <1>1, <1>2 DEF HandedOrQueued
<1>3. ASSUME NEW i, NEW n \in Int, Covered(i, n) PROVE Covered(i, n)'
  <2> SUFFICES ASSUME NEW k \in 2 .. n PROVE Accounted(Event(i, k))'
    BY DEF Covered
  <2>1. Event(i, k).seq # 1 /\ Accounted(Event(i, k))
    BY <1>3 DEF Event, Covered
  <2> QED
    BY <1>2, <2>1 DEF Accounted
<1> QED
  BY <1>2, <1>3

(* What a step leaves alone, part by part.                                  *)
LEMMA KeepRead ==
  ASSUME TypeInv, NEW c \in Clients, ReadInOrder(c),
         \A i : \A n \in Int : Covered(i, n) => Covered(i, n)',
         client'[c].reader = client[c].reader, client'[c].payload = client[c].payload,
         client'[c].sid = client[c].sid, client'[c].next = client[c].next
  PROVE  ReadInOrder(c)'
<1>1. client[c].next \in Int
  BY Constants DEF TypeInv, TypeOK, ClientState
<1> QED
  BY <1>1 DEF ReadInOrder

LEMMA KeepQueue ==
  ASSUME TypeInv, NEW c \in Clients, QueueCovered(c),
         \A i : \A n \in Int : Covered(i, n) => Covered(i, n)',
         client'[c].messageQueue = client[c].messageQueue
  PROVE  QueueCovered(c)'
<1>1. client[c].messageQueue \in Seq(Events)
  BY DEF TypeInv, TypeOK, ClientState
<1>2. \A j \in DOMAIN client[c].messageQueue : client[c].messageQueue[j].seq \in Int
  BY <1>1, ElementOfSeq, LenProperties, PayloadKinds, Constants
<1> QED
  BY <1>2 DEF QueueCovered

LEMMA KeepSession ==
  ASSUME TypeInv, NEW c \in Clients, SessionCovered(c),
         \A i : \A n \in Int : Covered(i, n) => Covered(i, n)',
         Working(c)' => Working(c),
         client'[c].given = client[c].given, client'[c].session = client[c].session,
         client'[c].listener = "ready" => client[c].listener = "ready"
  PROVE  SessionCovered(c)'
<1>1. client[c].given.seq \in Int /\ client[c].session.seq \in Int
  BY Constants DEF TypeInv, TypeOK, ClientState, SessionRec
<1> QED
  BY <1>1 DEF SessionCovered, CoveredSession

LEMMA KeepOne ==
  ASSUME NEW c \in Clients, OneSession(c),
         client'[c].messageQueue = client[c].messageQueue,
         client'[c].listener = "ready" =>
           client[c].listener = "ready" /\ client'[c].event = client[c].event,
         client'[c].reader \in {"read", "store", "enqueue"} =>
           client[c].reader \in {"read", "store", "enqueue"} /\ client'[c].sid = client[c].sid,
         Working(c)' => Working(c) /\ client'[c].session.id \in {0, client[c].session.id}
  PROVE  OneSession(c)'
BY DEF OneSession

(* The other clients, and what is shared.                                   *)
LEMMA KeepOthers ==
  ASSUME TypeInv, SkipInv, NEW c \in Clients,
         \A d \in Clients \ {c} : client'[d] = client[d],
         \A i : \A n \in Int : Covered(i, n) => Covered(i, n)'
  PROVE  \A d \in Clients \ {c} : ClientInv(d)'
<1> SUFFICES ASSUME NEW d \in Clients \ {c} PROVE ClientInv(d)'
  OBVIOUS
<1>1. ClientInv(d) /\ client'[d] = client[d] /\ (Working(d)' <=> Working(d))
  BY DEF SkipInv, Working
<1>2. NotYetListening(d)'
  BY <1>1 DEF ClientInv, NotYetListening
<1>3. OneSession(d)'
  BY <1>1, KeepOne DEF ClientInv
<1> QED
  BY <1>1, <1>2, <1>3, KeepRead, KeepQueue, KeepSession DEF ClientInv

LEMMA KeepShared ==
  ASSUME TypeInv, SkipInv,
         \A m : m.seq # 1 /\ HandedOrQueued(m) => HandedOrQueued(m)',
         \A i : \A n \in Int : Covered(i, n) => Covered(i, n)',
         \A h \in dataMap' \cap Events : h \in dataMap \/ h.seq = 1 \/ Reached(h)',
         \A m \in dropped' : m \in dropped \/ m.seq = 1 \/ Reached(Datum[m]),
         \A i \in DOMAIN sessionChan' :
           \/ \E j \in DOMAIN sessionChan : sessionChan'[i] = sessionChan[j]
           \/ sessionChan'[i].seq \in Int /\ CoveredSession(sessionChan'[i])
  PROVE  SharedInv' 
<1>1. \A j \in DOMAIN sessionChan : sessionChan[j].seq \in Int
  <2>1. \A j \in DOMAIN sessionChan : sessionChan[j] \in SessionRec
    BY ElementOfSeq, LenProperties DEF TypeInv, TypeOK
  <2> QED
    BY <2>1, Constants DEF SessionRec
<1>2. (\A i \in DOMAIN sessionChan : CoveredSession(sessionChan[i]))'
  BY <1>1 DEF SkipInv, SharedInv, CoveredSession
<1>3. \A h : Reached(h) => Reached(h)'
  BY DEF Reached
<1>4. \A h \in dataMap' \cap Events : h.seq = 1 \/ Reached(h)'
  BY <1>3 DEF SkipInv, SharedInv
<1>5. \A m \in dropped' : m.seq = 1 \/ Reached(Datum[m])'
  BY <1>3 DEF SkipInv, SharedInv
<1> QED
  BY <1>2, <1>4, <1>5 DEF SharedInv

(* Steps of newConnect that leave the goroutines of the client alone.       *)
LEMMA QuietStep ==
  ASSUME TypeInv, SkipInv, NEW c \in Clients,
         \A d \in Clients \ {c} : client'[d] = client[d],
         dataMap' = dataMap, handed' = handed, dropped' = dropped,
         client'[c].messageQueue = client[c].messageQueue,
         client'[c].reader = client[c].reader, client'[c].payload = client[c].payload,
         client'[c].sid = client[c].sid, client'[c].next = client[c].next,
         client'[c].listener = client[c].listener, client'[c].event = client[c].event,
         client'[c].main = "unused" => client[c].main = "unused",
         client'[c].main \in {"dial", "auth"} =>
           client[c].main \in {"dial", "auth"} /\ client'[c].session = client[c].session,
         Working(c)' =>
           /\ Working(c) /\ client'[c].given = client[c].given
           /\ client'[c].session \in {client[c].session, NewSession(client[c].session.shard)},
         \A i \in DOMAIN sessionChan' :
           \/ \E j \in DOMAIN sessionChan : sessionChan'[i] = sessionChan[j]
           \/ Working(c) /\ sessionChan'[i] \in {client[c].given, client[c].session}
  PROVE  SkipInv'
<1>1. Pending(c)' = Pending(c)
  BY DEF Pending
<1>2. /\ \A m : m.seq # 1 /\ HandedOrQueued(m) => HandedOrQueued(m)'
      /\ \A i : \A n \in Int : Covered(i, n) => Covered(i, n)'
  BY <1>1, CoveredFrame
<1>3. ClientInv(c) /\ client[c].session.seq \in Int /\ client[c].given.seq \in Int
  BY Constants, SMTT(30) DEF SkipInv, TypeInv, TypeOK, ClientState, SessionRec
<1>4. ClientInv(c)'
  <2>1. NotYetListening(c)'
    BY <1>3 DEF ClientInv, NotYetListening, Working
  <2>2. SessionCovered(c)'
    <3> SUFFICES ASSUME Working(c)'
                 PROVE  /\ CoveredSession(client[c].given)'
                        /\ CoveredSession(client[c].session)'
                        /\ client'[c].listener = "ready" => client'[c].session.seq <= 1
      BY DEF SessionCovered
    <3>1. SessionCovered(c)
      BY <1>3 DEF ClientInv
    <3>2. CASE client'[c].session = client[c].session
      BY <1>2, <1>3, <3>1, <3>2 DEF SessionCovered, CoveredSession
    <3>3. CASE client'[c].session = NewSession(client[c].session.shard)
      BY <1>2, <1>3, <3>1, <3>3 DEF SessionCovered, CoveredSession, NewSession
    <3> QED
      BY <3>2, <3>3
  <2>3. OneSession(c)'
    BY <1>3, KeepOne DEF ClientInv, NewSession
  <2> QED
    BY <1>2, <1>3, <2>1, <2>2, <2>3, KeepRead, KeepQueue DEF ClientInv
<1>5. SharedInv'
  <2>1. \A i \in DOMAIN sessionChan' :
           \/ \E j \in DOMAIN sessionChan : sessionChan'[i] = sessionChan[j]
           \/ sessionChan'[i].seq \in Int /\ CoveredSession(sessionChan'[i])
    BY <1>3 DEF ClientInv, SessionCovered
  <2> QED
    BY <1>2, <2>1, KeepShared
<1> QED
  BY <1>2, <1>4, <1>5, KeepOthers DEF SkipInv

LEMMA AppendRange ==
  ASSUME NEW S, NEW q \in Seq(S), NEW x \in S
  PROVE  /\ Append(q, x) \in Seq(S)
         /\ \A i \in DOMAIN Append(q, x) :
              (\E j \in DOMAIN q : Append(q, x)[i] = q[j]) \/ Append(q, x)[i] = x
         /\ ToSet(q) \cup {x} \subseteq ToSet(Append(q, x))
<1> DEFINE longer == Append(q, x)
<1>1. /\ longer \in Seq(S) /\ Len(longer) = Len(q) + 1
      /\ \A i \in 1 .. Len(q) : longer[i] = q[i]
      /\ longer[Len(q) + 1] = x
  BY AppendProperties
<1>2. /\ DOMAIN q = 1 .. Len(q) /\ Len(q) \in Nat
      /\ DOMAIN longer = 1 .. Len(q) + 1
  BY <1>1, LenProperties
<1> HIDE DEF longer
<1>3. \A i \in DOMAIN longer : (\E j \in DOMAIN q : longer[i] = q[j]) \/ longer[i] = x
  BY <1>1, <1>2
<1>4. ToSet(q) \subseteq ToSet(longer)
  <2>1. \A i \in DOMAIN q : i \in DOMAIN longer /\ longer[i] = q[i]
    BY <1>1, <1>2
  <2> QED
    BY <2>1 DEF ToSet
<1>5. x \in ToSet(longer)
  <2>1. Len(q) + 1 \in DOMAIN longer
    BY <1>2
  <2> QED
    BY <1>1, <2>1 DEF ToSet
<1> QED
  BY <1>1, <1>3, <1>4, <1>5 DEF longer

LEMMA TailRange ==
  ASSUME NEW S, NEW q \in Seq(S), q # << >>
  PROVE  /\ Head(q) \in S /\ Tail(q) \in Seq(S)
         /\ \A i \in DOMAIN Tail(q) : \E j \in DOMAIN q : Tail(q)[i] = q[j]
         /\ \E j \in DOMAIN q : Head(q) = q[j]
         /\ \A j \in DOMAIN q : q[j] = Head(q) \/ \E i \in DOMAIN Tail(q) : q[j] = Tail(q)[i]
<1>1. /\ Head(q) = q[1] /\ Head(q) \in S /\ Tail(q) \in Seq(S)
      /\ Len(Tail(q)) = Len(q) - 1
      /\ \A i \in 1 .. Len(Tail(q)) : Tail(q)[i] = q[i + 1]
  BY HeadTailProperties
<1>2. /\ DOMAIN q = 1 .. Len(q) /\ Len(q) \in Nat /\ Len(q) > 0
      /\ DOMAIN Tail(q) = 1 .. Len(q) - 1
  BY <1>1, LenProperties, EmptySeq
<1>3. ASSUME NEW j \in 1 .. Len(q), j # 1
      PROVE  \E i \in 1 .. Len(q) - 1 : q[j] = Tail(q)[i]
  <2>1. j - 1 \in 1 .. Len(q) - 1 /\ (j - 1) + 1 = j
    BY <1>2, <1>3
  <2> QED
    BY <1>1, <2>1
<1>4. \A i \in 1 .. Len(q) - 1 : i + 1 \in 1 .. Len(q)
  BY <1>2
<1>5. 1 \in 1 .. Len(q)
  BY <1>2
<1> QED
  BY <1>1, <1>2, <1>3, <1>4, <1>5

LEMMA QuietSkip ==
  ASSUME TypeInv, SkipInv, NEW c \in Clients,
         \/ HeartbeatFails(c) \/ ConnectFails(c) \/ Connects(c) \/ AuthFails(c)
         \/ TakeError(c) \/ ClearSession(c) \/ RefusedPanics(c) \/ Requeue(c)
  PROVE  SkipInv'
<1>t. /\ client[c] \in ClientState /\ sessionChan \in Seq(SessionRec)
      /\ client[c].given \in SessionRec /\ client[c].session \in SessionRec
  BY DEF TypeInv, TypeOK, ClientState
<1>1. /\ \A d \in Clients \ {c} : client'[d] = client[d]
      /\ dataMap' = dataMap /\ handed' = handed /\ dropped' = dropped
  BY DEF HeartbeatFails, ConnectFails, Connects, AuthFails, TakeError, ClearSession,
         RefusedPanics, Requeue, Step, StepAndQueue, TypeInv, TypeOK
<1>2. /\ Gone(c).main = "gone"
      /\ Gone(c).messageQueue = client[c].messageQueue
      /\ Gone(c).reader = client[c].reader /\ Gone(c).payload = client[c].payload
      /\ Gone(c).sid = client[c].sid /\ Gone(c).next = client[c].next
      /\ Gone(c).listener = client[c].listener /\ Gone(c).event = client[c].event
  BY <1>t, ClientFields DEF Gone
<1>3. ASSUME NEW session \in {client[c].given, client[c].session},
             Working(c), StepAndQueue(c, Gone(c), session)
      PROVE  SkipInv'
  <2>1. client'[c] = Gone(c) /\ sessionChan' = Append(sessionChan, session)
    BY <1>3 DEF StepAndQueue, TypeInv, TypeOK
  <2>2. \A i \in DOMAIN sessionChan' :
          \/ \E j \in DOMAIN sessionChan : sessionChan'[i] = sessionChan[j]
          \/ Working(c) /\ sessionChan'[i] \in {client[c].given, client[c].session}
    BY <1>t, <1>3, <2>1, AppendRange
  <2>3. ~Working(c)' /\ client'[c].main = "gone"
    BY <1>2, <2>1 DEF Working
  <2> QED
    BY <1>1, <1>2, <2>1, <2>2, <2>3, QuietStep
<1>5. CASE HeartbeatFails(c)
  <2> DEFINE report == Reported(c, "io")
  <2>1. client' = [client EXCEPT ![c] = [client[c] EXCEPT !.closeChan = report]]
    BY <1>5 DEF HeartbeatFails, Step
  <2> HIDE DEF report
  <2>2. /\ client'[c].main = "listening"
        /\ client'[c].messageQueue = client[c].messageQueue
        /\ client'[c].reader = client[c].reader /\ client'[c].payload = client[c].payload
        /\ client'[c].sid = client[c].sid /\ client'[c].next = client[c].next
        /\ client'[c].listener = client[c].listener /\ client'[c].event = client[c].event
        /\ client'[c].given = client[c].given /\ client'[c].session = client[c].session
    BY <1>t, <1>5, <2>1, ClientFields DEF HeartbeatFails, TypeInv, TypeOK
  <2>3. Working(c) /\ sessionChan' = sessionChan
    BY <1>5 DEF HeartbeatFails, Step, Working
  <2> QED
    BY <1>1, <2>2, <2>3, QuietStep
<1>6. CASE Connects(c)
  <2>1. client' = [client EXCEPT ![c] = [client[c] EXCEPT !.main = "auth"]]
    BY <1>6 DEF Connects, Step
  <2>2. /\ client'[c].main = "auth"
        /\ client'[c].messageQueue = client[c].messageQueue
        /\ client'[c].reader = client[c].reader /\ client'[c].payload = client[c].payload
        /\ client'[c].sid = client[c].sid /\ client'[c].next = client[c].next
        /\ client'[c].listener = client[c].listener /\ client'[c].event = client[c].event
        /\ client'[c].given = client[c].given /\ client'[c].session = client[c].session
    BY <1>t, <2>1, ClientFields DEF TypeInv, TypeOK
  <2>3. client[c].main = "dial" /\ Working(c) /\ sessionChan' = sessionChan
    BY <1>6 DEF Connects, Step, Working
  <2> QED
    BY <1>1, <2>2, <2>3, QuietStep
<1>7. CASE TakeError(c)
  <2> DEFINE err == Verdict(client[c].closeChan)
  <2>1. client' = [client EXCEPT ![c] = [client[c] EXCEPT !.main = "ended", !.err = err]]
    BY <1>7 DEF TakeError, TypeInv, TypeOK
  <2> HIDE DEF err
  <2>2. /\ client'[c].main = "ended"
        /\ client'[c].messageQueue = client[c].messageQueue
        /\ client'[c].reader = client[c].reader /\ client'[c].payload = client[c].payload
        /\ client'[c].sid = client[c].sid /\ client'[c].next = client[c].next
        /\ client'[c].listener = client[c].listener /\ client'[c].event = client[c].event
        /\ client'[c].given = client[c].given /\ client'[c].session = client[c].session
    BY <1>t, <2>1, ClientFields DEF TypeInv, TypeOK
  <2>3. Working(c) /\ sessionChan' = sessionChan
    BY <1>7 DEF TakeError, Working
  <2> QED
    BY <1>1, <2>2, <2>3, QuietStep
<1>8. CASE ClearSession(c)
  <2> DEFINE empty == NewSession(client[c].session.shard)
  <2>1. client' = [client EXCEPT ![c] = [client[c] EXCEPT !.main = "requeue", !.session = empty]]
    BY <1>8 DEF ClearSession, Step
  <2> HIDE DEF empty
  <2>2. /\ client'[c].main = "requeue" /\ client'[c].session = empty
        /\ client'[c].messageQueue = client[c].messageQueue
        /\ client'[c].reader = client[c].reader /\ client'[c].payload = client[c].payload
        /\ client'[c].sid = client[c].sid /\ client'[c].next = client[c].next
        /\ client'[c].listener = client[c].listener /\ client'[c].event = client[c].event
        /\ client'[c].given = client[c].given
    BY <1>t, <2>1, ClientFields DEF TypeInv, TypeOK
  <2>3. Working(c) /\ sessionChan' = sessionChan
    BY <1>8 DEF ClearSession, Step, Working
  <2> QED
    BY <1>1, <2>2, <2>3, QuietStep DEF empty
<1>9. CASE AuthFails(c)
  <2>1. client'[c] = Gone(c) /\ sessionChan' = sessionChan
    BY <1>9 DEF AuthFails, TypeInv, TypeOK
  <2>2. ~Working(c)' /\ client'[c].main = "gone"
    BY <1>2, <2>1 DEF Working
  <2> QED
    BY <1>1, <1>2, <2>1, <2>2, QuietStep
<1>10. CASE ConnectFails(c)
  BY <1>3, <1>10 DEF ConnectFails, Working
<1>11. CASE RefusedPanics(c)
  BY <1>3, <1>11 DEF RefusedPanics, Working
<1>12. CASE Requeue(c)
  BY <1>3, <1>12 DEF Requeue, Working
<1> QED
  BY <1>5, <1>6, <1>7, <1>8, <1>9, <1>10, <1>11, <1>12

(* A connection starts with nothing at hand, and as far as its session goes.*)
LEMMA StartSkip ==
  ASSUME TypeInv, SkipInv, NEW c \in Clients, StartConnect(c)
  PROVE  SkipInv'
<1> DEFINE session == Head(sessionChan)
<1>1. /\ session \in SessionRec
      /\ \A i \in DOMAIN sessionChan' : \E j \in DOMAIN sessionChan : sessionChan'[i] = sessionChan[j]
      /\ \E j \in DOMAIN sessionChan : session = sessionChan[j]
  BY TailRange DEF StartConnect, TypeInv, TypeOK
<1>2. /\ \A d \in Clients \ {c} : client'[d] = client[d]
      /\ client'[c] = NewClient("dial", session)
      /\ dataMap' = dataMap /\ handed' = handed /\ dropped' = dropped
  BY DEF StartConnect, TypeInv, TypeOK
<1>3. /\ client'[c].main = "dial" /\ client'[c].given = session /\ client'[c].session = session
      /\ client'[c].reader = "off" /\ client'[c].listener = "off"
      /\ client'[c].messageQueue = << >>
  BY <1>2 DEF NewClient
<1>4. Pending(c) = {}
  BY DEF SkipInv, ClientInv, NotYetListening, StartConnect, Pending, ToSet
<1>5. /\ \A m : m.seq # 1 /\ HandedOrQueued(m) => HandedOrQueued(m)'
      /\ \A i : \A n \in Int : Covered(i, n) => Covered(i, n)'
  BY <1>2, <1>4, CoveredFrame
<1>6. CoveredSession(session) /\ session.seq \in Int /\ session.id \in 0 .. MaxSessions
  BY <1>1, Constants DEF SkipInv, SharedInv, SessionRec
<1>7. ClientInv(c)'
  <2>1. NotYetListening(c)'
    BY <1>3 DEF NotYetListening
  <2>2. SessionCovered(c)'
    BY <1>3, <1>5, <1>6 DEF SessionCovered, CoveredSession
  <2>3. QueueCovered(c)'
    BY <1>3 DEF QueueCovered
  <2>4. ReadInOrder(c)'
    BY <1>3 DEF ReadInOrder
  <2>5. OneSession(c)'
    <3> DEFINE i == IF session.id = 0 THEN 1 ELSE session.id
    <3>1. i \in 1 .. MaxSessions
      BY <1>6, Constants
    <3>2. session.id # 0 => session.id = i
      OBVIOUS
    <3> HIDE DEF i, session
    <3> QED
      BY <1>3, <3>1, <3>2 DEF OneSession
  <2> QED
    BY <2>1, <2>2, <2>3, <2>4, <2>5 DEF ClientInv
<1>8. SharedInv'
  BY <1>1, <1>2, <1>5, KeepShared
<1> QED
  BY <1>2, <1>5, <1>7, <1>8, KeepOthers DEF SkipInv

(* What a step of c must show of c alone, when no session moves.            *)
LEMMA ClientMoves ==
  ASSUME TypeInv, SkipInv, NEW c \in Clients,
         \A d \in Clients \ {c} : client'[d] = client[d],
         sessionChan' = sessionChan,
         \A m : m.seq # 1 /\ HandedOrQueued(m) => HandedOrQueued(m)',
         \A i : \A n \in Int : Covered(i, n) => Covered(i, n)',
         \A h \in dataMap' \cap Events : h \in dataMap \/ h.seq = 1 \/ Reached(h)',
         \A m \in dropped' : m \in dropped \/ m.seq = 1 \/ Reached(Datum[m]),
         NotYetListening(c)', SessionCovered(c)', QueueCovered(c)',
         ReadInOrder(c)', OneSession(c)'
  PROVE  SkipInv'
<1>1. SharedInv'
  BY KeepShared
<1> QED
  BY <1>1, KeepOthers DEF SkipInv, ClientInv

(* A connection that is authenticated is served from LastSeq + 1 on.        *)
LEMMA ListensSkip ==
  ASSUME TypeInv, SkipInv, NEW c \in Clients, NEW i \in Int, NEW n \in Int,
         client[c].main = "auth", Listens(c, i, n),
         sessionChan' = sessionChan, dataMap' = dataMap, handed' = handed, dropped' = dropped,
         i \in 1 .. MaxSessions, client[c].given.id \in {0, i}, Covered(i, n - 1)
  PROVE  SkipInv'
<1>1. /\ client[c] \in ClientState /\ client \in [Clients -> ClientState]
      /\ client[c].session.seq \in Int /\ client[c].given.seq \in Int
  <2>1. client[c] \in ClientState /\ client \in [Clients -> ClientState]
    BY DEF TypeInv, TypeOK
  <2>2. client[c].session \in SessionRec /\ client[c].given \in SessionRec
    BY <2>1 DEF ClientState
  <2> QED
    BY <2>1, <2>2, Constants DEF SessionRec
<1>2. /\ \A d \in Clients \ {c} : client'[d] = client[d]
      /\ client'[c] = [client[c] EXCEPT !.main = "listening", !.reader = "read",
                                        !.listener = "wait", !.sid = i, !.next = n]
  BY <1>1 DEF Listens
<1>3. /\ client'[c].main = "listening" /\ client'[c].reader = "read"
      /\ client'[c].listener = "wait" /\ client'[c].sid = i /\ client'[c].next = n
      /\ client'[c].messageQueue = client[c].messageQueue
      /\ client'[c].given = client[c].given /\ client'[c].session = client[c].session
  BY <1>1, <1>2, ClientFields
<1>4. /\ client[c].messageQueue = << >> /\ client[c].session = client[c].given
      /\ client[c].reader = "off" /\ Working(c) /\ SessionCovered(c)
  BY DEF SkipInv, ClientInv, NotYetListening, Working
<1>5. Pending(c) = {}
  BY <1>4 DEF Pending, ToSet
<1>6. /\ \A m : m.seq # 1 /\ HandedOrQueued(m) => HandedOrQueued(m)'
      /\ \A j : \A k \in Int : Covered(j, k) => Covered(j, k)'
  BY <1>2, <1>5, CoveredFrame
<1>7. SessionCovered(c)'
  BY <1>1, <1>3, <1>4, <1>6 DEF SessionCovered, CoveredSession
<1>8. QueueCovered(c)'
  BY <1>3, <1>4 DEF QueueCovered
<1>9. ReadInOrder(c)'
  BY <1>3, <1>6 DEF ReadInOrder
<1>10. OneSession(c)'
  BY <1>3, <1>4 DEF OneSession
<1>11. NotYetListening(c)'
  BY <1>3 DEF NotYetListening
<1> QED
  BY <1>2, <1>6, <1>7, <1>8, <1>9, <1>10, <1>11, ClientMoves

LEMMA AuthSkip ==
  ASSUME TypeInv, SkipInv, NEW c \in Clients, Identify(c) \/ Resume(c)
  PROVE  SkipInv'
<1>1. /\ client[c].given.id \in 0 .. MaxSessions /\ client[c].given.seq \in Int
      /\ opened \in 0 .. MaxSessions /\ MaxSessions \in Nat
  BY Constants DEF TypeInv, TypeOK, ClientState, SessionRec
<1>2. CASE Identify(c)
  <2>1. opened + 1 \in 1 .. MaxSessions /\ opened + 1 \in Int
    BY <1>1, <1>2 DEF Identify
  <2>2. Covered(opened + 1, 1 - 1)
    BY DEF Covered
  <2> QED
    BY <1>2, <2>1, <2>2, ListensSkip DEF Identify
<1>3. CASE Resume(c)
  <2> DEFINE i == client[c].given.id
             n == client[c].given.seq + 1
  <2>1. i \in 1 .. MaxSessions /\ i \in Int /\ n \in Int /\ n - 1 = client[c].given.seq
    BY <1>1, <1>3 DEF Resume
  <2>2. Covered(i, n - 1)
    BY <1>3, <2>1 DEF Resume, SkipInv, ClientInv, SessionCovered, CoveredSession, Working
  <2>3. Listens(c, i, n)
    BY <1>3 DEF Resume
  <2>4. client[c].given.id \in {0, i}
    OBVIOUS
  <2> HIDE DEF i, n
  <2> QED
    BY <1>3, <2>1, <2>2, <2>3, <2>4, ListensSkip DEF Resume
<1> QED
  BY <1>2, <1>3

(* Steps of the reader leave the sessions and the listener alone.           *)
LEMMA ReaderMoves ==
  ASSUME TypeInv, SkipInv, NEW c \in Clients,
         \A d \in Clients \ {c} : client'[d] = client[d],
         sessionChan' = sessionChan, handed' = handed, dropped \subseteq dropped',
         client'[c].main = client[c].main, client'[c].given = client[c].given,
         client'[c].session = client[c].session, client'[c].listener = client[c].listener,
         client'[c].event = client[c].event,
         client[c].reader \in {"read", "store", "enqueue"},
         client'[c].reader \in {"read", "store", "enqueue"} => client'[c].sid = client[c].sid,
         Pending(c) \subseteq Pending(c)',
         \A h \in dataMap' \cap Events : h \in dataMap \/ h.seq = 1 \/ Reached(h)',
         \A m \in dropped' : m \in dropped \/ m.seq = 1 \/ Reached(Datum[m]),
         \A j \in DOMAIN client'[c].messageQueue :
           \/ \E k \in DOMAIN client[c].messageQueue :
                client'[c].messageQueue[j] = client[c].messageQueue[k]
           \/ /\ client'[c].messageQueue[j].sid = client[c].sid
              /\ client'[c].messageQueue[j].seq \in Int
              /\ Covered(client'[c].messageQueue[j].sid, client'[c].messageQueue[j].seq),
         (\A i : \A n \in Int : Covered(i, n) => Covered(i, n)') => ReadInOrder(c)'
  PROVE  SkipInv'
<1>1. /\ \A m : m.seq # 1 /\ HandedOrQueued(m) => HandedOrQueued(m)'
      /\ \A i : \A n \in Int : Covered(i, n) => Covered(i, n)'
  BY CoveredFrame
<1>2. /\ ClientInv(c) /\ (Working(c)' <=> Working(c))
      /\ client[c].main \notin {"unused", "dial", "auth"}
  BY DEF SkipInv, ClientInv, NotYetListening, Working
<1>3. SessionCovered(c)'
  BY <1>1, <1>2, KeepSession DEF ClientInv
<1>4. \A k \in DOMAIN client[c].messageQueue : client[c].messageQueue[k].seq \in Int
  <2>1. client[c].messageQueue \in Seq(Events)
    BY DEF TypeInv, TypeOK, ClientState
  <2> QED
    BY <2>1, ElementOfSeq, LenProperties, PayloadKinds, Constants
<1>5. QueueCovered(c)'
  BY <1>1, <1>2, <1>4 DEF ClientInv, QueueCovered
<1>6. OneSession(c)'
  BY <1>2 DEF ClientInv, OneSession
<1>7. NotYetListening(c)'
  BY <1>2 DEF NotYetListening
<1> QED
  BY <1>1, <1>3, <1>5, <1>6, <1>7, ClientMoves

LEMMA ReaderSkip ==
  ASSUME TypeInv, SkipInv, NEW c \in Clients, Reader(c)
  PROVE  SkipInv'
<1>t. /\ client[c] \in ClientState /\ client \in [Clients -> ClientState]
      /\ client[c].next \in Int /\ client[c].messageQueue \in Seq(Events)
  BY Constants DEF TypeInv, TypeOK, ClientState
<1>i. ReadInOrder(c)
  BY DEF SkipInv, ClientInv
<1>1. ASSUME NEW p \in Payloads, ReadMessage(c, p) PROVE SkipInv'
  <2> DEFINE next == IF p \in Events THEN client[c].next + 1 ELSE client[c].next
             seen == DataHash(p) \in dataMap
             payload == IF seen THEN Nil ELSE p
             reader == IF seen THEN "read" ELSE "store"
  <2>1. client' = [client EXCEPT ![c] = [client[c] EXCEPT !.greeted = TRUE, !.next = next,
                                           !.payload = payload, !.reader = reader]]
    BY <1>1 DEF ReadMessage
  <2>2. /\ client[c].reader = "read" /\ sessionChan' = sessionChan /\ handed' = handed
        /\ dataMap' = dataMap /\ p \in Incoming(c)
        /\ dropped' = dropped \cup (IF seen THEN {p} \cap Events ELSE {})
    BY <1>1 DEF ReadMessage
  <2>3. reader \in {"read", "store"} /\ next \in Int
    BY <1>t
  <2> HIDE DEF next, payload, reader
  <2>4. /\ \A d \in Clients \ {c} : client'[d] = client[d]
        /\ client'[c] = [client[c] EXCEPT !.greeted = TRUE, !.next = next,
                                          !.payload = payload, !.reader = reader]
    BY <1>t, <2>1
  <2>5. /\ client'[c].main = client[c].main /\ client'[c].given = client[c].given
        /\ client'[c].session = client[c].session /\ client'[c].listener = client[c].listener
        /\ client'[c].event = client[c].event
        /\ client'[c].messageQueue = client[c].messageQueue /\ client'[c].sid = client[c].sid
        /\ client'[c].next = next /\ client'[c].payload = payload /\ client'[c].reader = reader
    BY <1>t, <2>4, ClientFields
  <2>6. Pending(c)' = Pending(c)
    BY <2>2, <2>3, <2>5 DEF Pending
  <2>7. p \in Events => p = Event(client[c].sid, client[c].next)
    BY <2>2, PayloadKinds DEF Incoming, Controls
  <2>8. ASSUME NEW i, i = client[c].sid, NEW n \in Int, n = client[c].next,
               \A j : \A k \in Int : Covered(j, k) => Covered(j, k)'
        PROVE  ReadInOrder(c)'
    <3>1. Covered(i, n - 1)
      BY <1>i, <2>2, <2>8 DEF ReadInOrder
    <3>2. Covered(i, n - 1)'
      BY <2>8, <3>1
    <3>3. CASE p \in Events
      <4>1. next - 1 = n /\ next - 2 = n - 1 /\ p = Event(i, n)
        BY <2>7, <2>8, <3>3 DEF next
      <4>2. CASE seen
        <5>1. Accounted(Event(i, n))'
          BY <2>2, <3>3, <4>1, <4>2 DEF Accounted
        <5>2. \A k \in 2 .. n : k \in 2 .. n - 1 \/ k = n
          OBVIOUS
        <5>3. Covered(i, n)'
          BY <3>2, <5>1, <5>2 DEF Covered
        <5>4. reader = "read"
          BY <4>2 DEF reader
        <5> QED
          BY <2>5, <2>8, <4>1, <5>3, <5>4 DEF ReadInOrder
      <4>3. CASE ~seen
        <5>1. reader = "store" /\ payload = p /\ p \notin Controls
          BY <3>3, <4>3, PayloadKinds DEF reader, payload
        <5> QED
          BY <2>5, <2>8, <3>2, <4>1, <5>1 DEF ReadInOrder
      <4> QED
        BY <4>2, <4>3
    <3>4. CASE p \notin Events
      <4>1. next = n
        BY <2>8, <3>4 DEF next
      <4>2. reader = "store" => payload \notin Events
        BY <3>4 DEF reader, payload
      <4> QED
        BY <2>3, <2>5, <2>8, <3>2, <4>1, <4>2 DEF ReadInOrder
    <3> QED
      BY <3>3, <3>4
  <2>9. (\A j : \A k \in Int : Covered(j, k) => Covered(j, k)') => ReadInOrder(c)'
    BY <1>t, <2>8
  <2>10. ASSUME NEW m \in dropped' PROVE m \in dropped \/ m.seq = 1 \/ Reached(Datum[m])
    <3>1. CASE m \in dropped
      BY <3>1
    <3>2. CASE m = p /\ p \in Events /\ seen
      <4>1. /\ DataHash(p) = Datum[p] /\ Datum[p] \in Events
            /\ Datum[p].seq = 1 => p.seq = 1
        BY <3>2, Hashes
      <4>2. Datum[p].seq = 1 \/ Reached(Datum[p])
        BY <3>2, <4>1 DEF SkipInv, SharedInv
      <4> QED BY <3>2, <4>1, <4>2
    <3> QED BY <2>2, <3>1, <3>2
  <2> QED
    BY <2>2, <2>3, <2>4, <2>5, <2>6, <2>9, <2>10, ReaderMoves
<1>2. ASSUME StoreAndHandle(c), client[c].payload \in Controls,
             client' = [client EXCEPT ![c] = HandledBuiltIn(c, client[c].payload)]
      PROVE  SkipInv'
  <2>1. /\ client[c].reader = "store" /\ sessionChan' = sessionChan /\ handed' = handed
        /\ dataMap' = dataMap \cup {DataHash(client[c].payload)} /\ dropped' = dropped
    BY <1>2 DEF StoreAndHandle
  <2>2. /\ HandledBuiltIn(c, client[c].payload).main = client[c].main
        /\ HandledBuiltIn(c, client[c].payload).given = client[c].given
        /\ HandledBuiltIn(c, client[c].payload).session = client[c].session
        /\ HandledBuiltIn(c, client[c].payload).listener = client[c].listener
        /\ HandledBuiltIn(c, client[c].payload).event = client[c].event
        /\ HandledBuiltIn(c, client[c].payload).messageQueue = client[c].messageQueue
        /\ HandledBuiltIn(c, client[c].payload).sid = client[c].sid
        /\ HandledBuiltIn(c, client[c].payload).next = client[c].next
        /\ HandledBuiltIn(c, client[c].payload).reader = "read"
    <3>1. CASE client[c].payload.op = "hello"
      BY <1>t, <3>1, ClientFields DEF HandledBuiltIn, Reading
    <3>2. CASE client[c].payload.op # "hello"
      <4> DEFINE report == Reported(c, client[c].payload.op)
      <4>1. HandledBuiltIn(c, client[c].payload) = [Reading(c) EXCEPT !.closeChan = report]
        BY <3>2 DEF HandledBuiltIn
      <4> HIDE DEF report
      <4> QED
        BY <1>t, <4>1, ClientFields DEF Reading
    <3> QED
      BY <3>1, <3>2
  <2>3. /\ \A d \in Clients \ {c} : client'[d] = client[d]
        /\ client'[c] = HandledBuiltIn(c, client[c].payload)
    BY <1>t, <1>2
  <2>4. Pending(c)' = Pending(c)
    BY <2>1, <2>2, <2>3 DEF Pending
  <2>5. dataMap' \cap Events \subseteq dataMap
    BY <1>2, <2>1, Hashes
  <2>6. ASSUME \A i : \A n \in Int : Covered(i, n) => Covered(i, n)'
        PROVE  ReadInOrder(c)'
    <3>1. Covered(client[c].sid, client[c].next - 1)
      BY <1>i, <1>2, <2>1 DEF ReadInOrder
    <3> QED
      BY <1>t, <2>2, <2>3, <2>6, <3>1 DEF ReadInOrder
  <2> QED
    BY <2>1, <2>2, <2>3, <2>4, <2>5, <2>6, ReaderMoves
<1>3. ASSUME StoreAndHandle(c), client[c].payload \in Events,
             client' = [client EXCEPT ![c].reader = "enqueue"]
      PROVE  SkipInv'
  <2>1. /\ client[c].reader = "store" /\ sessionChan' = sessionChan /\ handed' = handed
        /\ dataMap' = dataMap \cup {DataHash(client[c].payload)} /\ dropped' = dropped
    BY <1>3 DEF StoreAndHandle
  <2>2. /\ \A d \in Clients \ {c} : client'[d] = client[d]
        /\ client'[c] = [client[c] EXCEPT !.reader = "enqueue"]
    BY <1>t, <1>3
  <2>3. /\ client'[c].main = client[c].main /\ client'[c].given = client[c].given
        /\ client'[c].session = client[c].session /\ client'[c].listener = client[c].listener
        /\ client'[c].event = client[c].event
        /\ client'[c].messageQueue = client[c].messageQueue /\ client'[c].sid = client[c].sid
        /\ client'[c].next = client[c].next /\ client'[c].payload = client[c].payload
        /\ client'[c].reader = "enqueue"
    BY <1>t, <2>2, ClientFields
  <2>4. Pending(c) \subseteq Pending(c)' /\ client[c].payload \in Pending(c)'
    BY <2>1, <2>3 DEF Pending
  <2>5. HandedOrQueued(client[c].payload)' /\ Accounted(client[c].payload)'
    BY <2>3, <2>4 DEF HandedOrQueued, Accounted
  <2>6. ASSUME \A i : \A n \in Int : Covered(i, n) => Covered(i, n)'
        PROVE  ReadInOrder(c)'
    <3>1. /\ client[c].payload = Event(client[c].sid, client[c].next - 1)
          /\ Covered(client[c].sid, client[c].next - 2)
      BY <1>i, <1>3, <2>1 DEF ReadInOrder
    <3>2. Covered(client[c].sid, client[c].next - 2)'
      BY <1>t, <2>3, <2>6, <3>1
    <3>3. \A k \in 2 .. client[c].next - 1 :
            k \in 2 .. client[c].next - 2 \/ k = client[c].next - 1
      BY <1>t
    <3>4. Covered(client[c].sid, client[c].next - 1)'
      BY <2>3, <2>5, <3>1, <3>2, <3>3 DEF Covered
    <3> QED
      BY <2>3, <3>1, <3>4 DEF ReadInOrder
  <2>7. \A h \in dataMap' \cap Events : h \in dataMap \/ h.seq = 1 \/ Reached(h)'
    <3>1. /\ DataHash(client[c].payload) = Datum[client[c].payload]
          /\ client[c].payload.seq = 1 => Datum[client[c].payload].seq = 1
      BY <1>3, Hashes
    <3> QED BY <1>3, <2>1, <2>5, <3>1 DEF Reached
  <2> QED
    BY <2>1, <2>2, <2>3, <2>4, <2>6, <2>7, ReaderMoves, ZenonT(60)
<1>4. ASSUME Enqueue(c) PROVE SkipInv'
  <2> DEFINE queue == Append(client[c].messageQueue, client[c].payload)
  <2>1. client' = [client EXCEPT ![c] = [Reading(c) EXCEPT !.messageQueue = queue]]
    <3>1. Reading(c).messageQueue = client[c].messageQueue
      BY <1>t, ClientFields DEF Reading
    <3> QED
      BY <1>4, <3>1 DEF Enqueue, Step
  <2>2. /\ client[c].reader = "enqueue" /\ sessionChan' = sessionChan /\ handed' = handed
        /\ dataMap' = dataMap /\ dropped' = dropped
    BY <1>4 DEF Enqueue, Step
  <2>3. /\ client[c].payload = Event(client[c].sid, client[c].next - 1)
        /\ Covered(client[c].sid, client[c].next - 1) /\ client[c].payload \in Events
    BY <1>i, <2>2 DEF ReadInOrder, TypeInv
  <2>4. /\ \A j \in DOMAIN queue :
             (\E k \in DOMAIN client[c].messageQueue : queue[j] = client[c].messageQueue[k])
               \/ queue[j] = client[c].payload
        /\ ToSet(client[c].messageQueue) \cup {client[c].payload} \subseteq ToSet(queue)
    <3>1. client[c].payload \in Events
      BY <2>3
    <3> QED
      BY <1>t, <3>1, AppendRange
  <2> HIDE DEF queue
  <2>5. /\ \A d \in Clients \ {c} : client'[d] = client[d]
        /\ client'[c] = [Reading(c) EXCEPT !.messageQueue = queue]
    BY <1>t, <2>1
  <2>6. /\ client'[c].main = client[c].main /\ client'[c].given = client[c].given
        /\ client'[c].session = client[c].session /\ client'[c].listener = client[c].listener
        /\ client'[c].event = client[c].event
        /\ client'[c].messageQueue = queue /\ client'[c].sid = client[c].sid
        /\ client'[c].next = client[c].next /\ client'[c].reader = "read"
    BY <1>t, <2>5, ClientFields DEF Reading
  <2>7. Pending(c) \subseteq Pending(c)'
    BY <2>2, <2>4, <2>6 DEF Pending
  <2>8. ASSUME \A i : \A n \in Int : Covered(i, n) => Covered(i, n)'
        PROVE  ReadInOrder(c)'
    BY <1>t, <2>3, <2>6, <2>8 DEF ReadInOrder
  <2>9. \A j \in DOMAIN queue :
          \/ \E k \in DOMAIN client[c].messageQueue : queue[j] = client[c].messageQueue[k]
          \/ /\ queue[j].sid = client[c].sid /\ queue[j].seq \in Int
             /\ Covered(queue[j].sid, queue[j].seq)
    BY <1>t, <2>3, <2>4 DEF Event
  <2> QED
    BY <2>2, <2>5, <2>6, <2>7, <2>8, <2>9, ReaderMoves
<1>5. ASSUME NEW e \in Frames \cup {"io"}, ReadFails(c, e) PROVE SkipInv'
  <2> DEFINE report == Reported(c, e)
  <2>1. client' = [client EXCEPT ![c] = [client[c] EXCEPT !.reader = "stopped",
                     !.closeChan = report, !.greeted = FALSE, !.sid = 0, !.next = 1]]
    BY <1>5 DEF ReadFails, Step
  <2>2. /\ client[c].reader = "read" /\ sessionChan' = sessionChan /\ handed' = handed
        /\ dataMap' = dataMap /\ dropped' = dropped
    BY <1>5 DEF ReadFails, Step
  <2> HIDE DEF report
  <2>3. /\ \A d \in Clients \ {c} : client'[d] = client[d]
        /\ client'[c] = [client[c] EXCEPT !.reader = "stopped",
                           !.closeChan = report, !.greeted = FALSE, !.sid = 0, !.next = 1]
    BY <1>t, <2>1
  <2>4. /\ client'[c].main = client[c].main /\ client'[c].given = client[c].given
        /\ client'[c].session = client[c].session /\ client'[c].listener = client[c].listener
        /\ client'[c].event = client[c].event
        /\ client'[c].messageQueue = client[c].messageQueue /\ client'[c].reader = "stopped"
    BY <1>t, <2>3, ClientFields
  <2>5. Pending(c)' = Pending(c) /\ ReadInOrder(c)'
    BY <2>2, <2>4 DEF Pending, ReadInOrder
  <2> QED
    BY <2>2, <2>3, <2>4, <2>5, ReaderMoves
<1> QED
  BY <1>1, <1>2, <1>3, <1>4, <1>5 DEF Reader, StoreAndHandle

(* Steps of the listener leave the reader and the sessions that wait alone. *)
LEMMA ListenerMoves ==
  ASSUME TypeInv, SkipInv, NEW c \in Clients, NEW session, session.seq \in Int,
         \A d \in Clients \ {c} : client'[d] = client[d],
         sessionChan' = sessionChan, dataMap' = dataMap, handed \subseteq handed',
         dropped' = dropped,
         client'[c].main = client[c].main, client'[c].given = client[c].given,
         client'[c].session = IF Working(c) THEN session ELSE client[c].session,
         client'[c].reader = client[c].reader, client'[c].payload = client[c].payload,
         client'[c].sid = client[c].sid, client'[c].next = client[c].next,
         client[c].main \notin {"unused", "dial", "auth"},
         \A m \in Pending(c) : m.seq = 1 \/ m \in handed' \/ m \in Pending(c)',
         \A j \in DOMAIN client'[c].messageQueue :
           \E k \in DOMAIN client[c].messageQueue :
             client'[c].messageQueue[j] = client[c].messageQueue[k],
         Working(c) => /\ CoveredSession(session)
                       /\ client'[c].listener = "ready" => session.seq <= 1,
         \E i \in 1 .. MaxSessions :
           /\ \A j \in DOMAIN client[c].messageQueue : client[c].messageQueue[j].sid = i
           /\ client[c].reader \in {"read", "store", "enqueue"} => client[c].sid = i
           /\ client'[c].listener = "ready" => client'[c].event.sid = i
           /\ Working(c) /\ session.id # 0 => session.id = i
  PROVE  SkipInv'
<1>1. /\ \A m : m.seq # 1 /\ HandedOrQueued(m) => HandedOrQueued(m)'
      /\ \A i : \A n \in Int : Covered(i, n) => Covered(i, n)'
  BY CoveredFrame
<1>2. ClientInv(c) /\ (Working(c)' <=> Working(c))
  BY DEF SkipInv, Working
<1>3. SessionCovered(c)'
  <2>1. client[c].given.seq \in Int
    <3>1. client[c].given \in SessionRec
      BY DEF TypeInv, TypeOK, ClientState
    <3> QED
      BY <3>1, Constants DEF SessionRec
  <2>2. Working(c) => CoveredSession(client[c].given)'
    BY <1>1, <1>2, <2>1 DEF ClientInv, SessionCovered, CoveredSession
  <2>3. Working(c) => CoveredSession(client[c].session)'
    BY <1>1, <1>2 DEF CoveredSession
  <2> QED
    BY <1>2, <2>2, <2>3 DEF SessionCovered
<1>4. \A k \in DOMAIN client[c].messageQueue : client[c].messageQueue[k].seq \in Int
  <2>1. client[c].messageQueue \in Seq(Events)
    BY DEF TypeInv, TypeOK, ClientState
  <2> QED
    BY <2>1, ElementOfSeq, LenProperties, PayloadKinds, Constants
<1>5. QueueCovered(c)'
  BY <1>1, <1>2, <1>4 DEF ClientInv, QueueCovered
<1>6. OneSession(c)'
  BY <1>2 DEF OneSession
<1>7. NotYetListening(c)'
  BY DEF NotYetListening
<1>8. ReadInOrder(c)'
  BY <1>1, <1>2, KeepRead DEF ClientInv
<1> QED
  BY <1>1, <1>3, <1>5, <1>6, <1>7, <1>8, ClientMoves

LEMMA ListenerSkip ==
  ASSUME TypeInv, SkipInv, NEW c \in Clients, Listener(c)
  PROVE  SkipInv'
<1> DEFINE m == Head(client[c].messageQueue)
           saved(id, n) == [client[c].session EXCEPT !.id = id, !.seq = n]
<1>t. /\ client[c] \in ClientState /\ client \in [Clients -> ClientState]
      /\ client[c].messageQueue \in Seq(Events) /\ client[c].session \in SessionRec
      /\ client[c].event \in Events \cup {Nil}
  BY DEF TypeInv, TypeOK, ClientState
<1>f. /\ client[c].session.seq \in Int
      /\ \A id, n : saved(id, n).id = id /\ saved(id, n).seq = n
      /\ \A id, n : Saved(c, id, n) = IF Working(c) THEN saved(id, n) ELSE client[c].session
  BY <1>t, Constants DEF SessionRec, Saved
<1>i. /\ SessionCovered(c) /\ QueueCovered(c) /\ OneSession(c)
      /\ client[c].main \notin {"unused", "dial", "auth"}
  BY DEF SkipInv, ClientInv, NotYetListening, Listener, TakeReady, TakeEvent, HandleReady,
         ReadyPanics, ListenerExits
<1>q. client[c].messageQueue # << >> =>
        /\ m \in Events /\ Tail(client[c].messageQueue) \in Seq(Events)
        /\ \A i \in DOMAIN Tail(client[c].messageQueue) : \E j \in DOMAIN client[c].messageQueue :
             Tail(client[c].messageQueue)[i] = client[c].messageQueue[j]
        /\ \E j \in DOMAIN client[c].messageQueue : m = client[c].messageQueue[j]
        /\ \A j \in DOMAIN client[c].messageQueue : client[c].messageQueue[j] = m
             \/ \E i \in DOMAIN Tail(client[c].messageQueue) :
                  client[c].messageQueue[j] = Tail(client[c].messageQueue)[i]
  BY <1>t, TailRange
<1>1. ASSUME TakeReady(c) \/ TakeEvent(c) PROVE SkipInv'
  <2> DEFINE session == saved(client[c].session.id, m.seq)
             listener == IF TakeReady(c) THEN "ready" ELSE "wait"
             event == IF TakeReady(c) THEN m ELSE client[c].event
             queue == Tail(client[c].messageQueue)
             real == Saved(c, client[c].session.id, m.seq)
  <2>1. /\ client[c].messageQueue # << >> /\ client[c].listener = "wait"
        /\ sessionChan' = sessionChan /\ dataMap' = dataMap /\ handed \subseteq handed'
        /\ dropped' = dropped
        /\ m.seq = 1 \/ m \in handed'
        /\ listener = "ready" => m.seq = 1 /\ event = m
    BY <1>1 DEF TakeReady, TakeEvent, Step
  <2>2. client'[c] = [client[c] EXCEPT !.messageQueue = queue, !.listener = listener,
                                       !.event = event, !.session = real]
        /\ \A d \in Clients \ {c} : client'[d] = client[d]
    <3>1. CASE TakeReady(c)
      <4>1. listener = "ready" /\ event = m
        BY <3>1
      <4>2. client' = [client EXCEPT ![c] = [client[c] EXCEPT
                         !.messageQueue = queue, !.listener = listener,
                         !.event = event, !.session = real]]
        <5> HIDE DEF listener, event
        <5>1. client' = [client EXCEPT ![c] = [client[c] EXCEPT
                         !.messageQueue = queue, !.listener = "ready",
                         !.event = m, !.session = Saved(c, client[c].session.id, m.seq)]]
          BY <1>t, <3>1, ClientFields DEF TakeReady, Step
        <5> QED
          BY <4>1, <5>1
      <4> HIDE DEF queue, listener, event, real
      <4> QED
        BY <1>t, <4>2
    <3>2. CASE ~TakeReady(c)
      <4>1. listener = client[c].listener /\ event = client[c].event
        BY <2>1, <3>2
      <4>2. /\ client'[c] = [client[c] EXCEPT !.messageQueue = queue, !.session = real]
            /\ \A d \in Clients \ {c} : client'[d] = client[d]
        <5>1. client' = [client EXCEPT ![c].messageQueue = Tail(@),
                           ![c].session = Saved(c, @.id, m.seq)]
          BY <1>1, <3>2 DEF TakeEvent
        <5> QED
          BY <1>t, <5>1, ClientFields
      <4> HIDE DEF queue, listener, event, real
      <4> QED
        BY <1>t, <4>1, <4>2, ClientFields
    <3> QED
      BY <3>1, <3>2
  <2>3. listener \in {"ready", "wait"} /\ (Working(c) => real = session)
          /\ (~Working(c) => real = client[c].session)
          /\ session.id = client[c].session.id /\ session.seq = m.seq
    BY <1>t DEF Saved, SessionRec
  <2>4. m \in Events /\ m.seq \in Int
    BY <1>q, <2>1, PayloadKinds, Constants
  <2>5. /\ \A j \in DOMAIN queue : \E k \in DOMAIN client[c].messageQueue :
             queue[j] = client[c].messageQueue[k]
        /\ ToSet(client[c].messageQueue) \subseteq ToSet(queue) \cup {m}
    BY <1>q, <2>1, SMTT(30) DEF ToSet
  <2>6. CoveredSession(session) \/ ~Working(c)
    <3>1. PICK j \in DOMAIN client[c].messageQueue : m = client[c].messageQueue[j]
      BY <1>q, <2>1
    <3>2. Covered(m.sid, m.seq)
      BY <1>i, <3>1 DEF QueueCovered
    <3>3. Working(c) /\ session.id # 0 => session.id = m.sid
      BY <1>i, <2>3, <3>1 DEF OneSession
    <3> QED
      BY <2>3, <3>2, <3>3 DEF CoveredSession
  <2>7. PICK i \in 1 .. MaxSessions :
          /\ \A j \in DOMAIN client[c].messageQueue : client[c].messageQueue[j].sid = i
          /\ client[c].reader \in {"read", "store", "enqueue"} => client[c].sid = i
          /\ Working(c) /\ client[c].session.id # 0 => client[c].session.id = i
    BY <1>i DEF OneSession
  <2>8. m.sid = i
    BY <1>q, <2>1, <2>7
  <2> HIDE DEF session, listener, event, queue, real
  <2>9. /\ client'[c].main = client[c].main /\ client'[c].given = client[c].given
        /\ client'[c].session = real /\ client'[c].reader = client[c].reader
        /\ client'[c].payload = client[c].payload /\ client'[c].sid = client[c].sid
        /\ client'[c].next = client[c].next /\ client'[c].messageQueue = queue
        /\ client'[c].listener = listener /\ client'[c].event = event
    BY <1>t, <2>2, ClientFields
  <2>10. \A x \in Pending(c) : x.seq = 1 \/ x \in handed' \/ x \in Pending(c)'
    BY <2>1, <2>5, <2>9 DEF Pending
  <2>11. Working(c) => CoveredSession(session) /\ (listener = "ready" => session.seq <= 1)
    BY <2>1, <2>3, <2>6
  <2>12. client'[c].session = IF Working(c) THEN session ELSE client[c].session
    BY <2>3, <2>9
  <2>13. /\ listener = "ready" => event.sid = i
         /\ Working(c) /\ session.id # 0 => session.id = i
         /\ session.seq \in Int
    BY <2>1, <2>3, <2>4, <2>7, <2>8
  <2>14. \E k \in 1 .. MaxSessions :
           /\ \A j \in DOMAIN client[c].messageQueue : client[c].messageQueue[j].sid = k
           /\ client[c].reader \in {"read", "store", "enqueue"} => client[c].sid = k
           /\ client'[c].listener = "ready" => client'[c].event.sid = k
           /\ Working(c) /\ session.id # 0 => session.id = k
    BY <2>7, <2>9, <2>13
  <2>15. \A d \in Clients \ {c} : client'[d] = client[d]
    BY <2>2
  <2>16. \A j \in DOMAIN client'[c].messageQueue : \E k \in DOMAIN client[c].messageQueue :
           client'[c].messageQueue[j] = client[c].messageQueue[k]
    BY <2>5, <2>9
  <2>17. Working(c) => /\ CoveredSession(session)
                       /\ client'[c].listener = "ready" => session.seq <= 1
    BY <2>9, <2>11
  <2> QED
    BY <1>i, <2>1, <2>9, <2>10, <2>12, <2>13, <2>14, <2>15, <2>16, <2>17, ListenerMoves
<1>2. ASSUME HandleReady(c) \/ ReadyPanics(c) PROVE SkipInv'
  <2> DEFINE session == saved(client[c].event.sid, client[c].session.seq)
             real == Saved(c, client[c].event.sid, client[c].session.seq)
  <2>1. /\ client[c].listener = "ready" /\ sessionChan' = sessionChan
        /\ dataMap' = dataMap /\ handed' = handed /\ dropped' = dropped
    BY <1>2 DEF HandleReady, ReadyPanics, Step
  <2>2. /\ Working(c) => real = session
        /\ ~Working(c) => real = client[c].session
        /\ session.id = client[c].event.sid /\ session.seq = client[c].session.seq
    BY <1>t DEF Saved, SessionRec
  <2> HIDE DEF session, real
  <2>3. /\ \A d \in Clients \ {c} : client'[d] = client[d]
        /\ client'[c].main = client[c].main /\ client'[c].given = client[c].given
        /\ client'[c].session = real /\ client'[c].reader = client[c].reader
        /\ client'[c].payload = client[c].payload /\ client'[c].sid = client[c].sid
        /\ client'[c].next = client[c].next
        /\ client'[c].messageQueue = client[c].messageQueue
        /\ client'[c].listener # "ready"
    <3>1. CASE HandleReady(c)
      <4>1. client' = [client EXCEPT ![c] = [client[c] EXCEPT !.session = real,
                         !.listener = "wait", !.event = Nil]]
        BY <1>t, <3>1, ClientFields DEF HandleReady, Step, real
      <4> QED
        BY <1>t, <4>1, ClientFields
    <3>2. CASE ReadyPanics(c)
      <4> DEFINE report == Reported(c, "panic")
      <4>1. client' = [client EXCEPT ![c] = [client[c] EXCEPT !.session = real,
                         !.listener = "dead", !.closeChan = report]]
        BY <1>t, <3>2, ClientFields DEF ReadyPanics, Step, real
      <4> HIDE DEF report
      <4> QED
        BY <1>t, <4>1, ClientFields
    <3> QED
      BY <1>2, <3>1, <3>2
  <2>4. Pending(c)' = Pending(c)
    BY <2>3 DEF Pending
  <2>5. Working(c) => CoveredSession(session)
    <3>1. Working(c) => session.seq \in Int /\ session.seq <= 1
      BY <1>f, <1>i, <2>1, <2>2 DEF SessionCovered
    <3> QED
      BY <3>1 DEF CoveredSession, Covered
  <2>6. \E i \in 1 .. MaxSessions :
           /\ \A j \in DOMAIN client[c].messageQueue : client[c].messageQueue[j].sid = i
           /\ client[c].reader \in {"read", "store", "enqueue"} => client[c].sid = i
           /\ Working(c) /\ session.id # 0 => session.id = i
    BY <1>i, <2>1, <2>2 DEF OneSession
  <2>7. /\ session.seq \in Int
        /\ client'[c].session = IF Working(c) THEN session ELSE client[c].session
    BY <1>f, <2>2, <2>3
  <2> QED
    BY <1>i, <2>1, <2>3, <2>4, <2>5, <2>6, <2>7, ListenerMoves
<1>3. ASSUME ListenerExits(c) PROVE SkipInv'
  <2>1. /\ sessionChan' = sessionChan /\ dataMap' = dataMap /\ handed' = handed
        /\ dropped' = dropped
        /\ client' = [client EXCEPT ![c] = [client[c] EXCEPT !.listener = "exited"]]
    BY <1>3 DEF ListenerExits, Step
  <2>2. /\ \A d \in Clients \ {c} : client'[d] = client[d]
        /\ client'[c].main = client[c].main /\ client'[c].given = client[c].given
        /\ client'[c].session = client[c].session /\ client'[c].reader = client[c].reader
        /\ client'[c].payload = client[c].payload /\ client'[c].sid = client[c].sid
        /\ client'[c].next = client[c].next
        /\ client'[c].messageQueue = client[c].messageQueue
        /\ client'[c].listener = "exited"
    BY <1>t, <2>1, ClientFields
  <2>3. Pending(c)' = Pending(c)
    BY <2>2 DEF Pending
  <2>4. client'[c].session = IF Working(c) THEN client[c].session ELSE client[c].session
    BY <2>2
  <2>5. \E i \in 1 .. MaxSessions :
           /\ \A j \in DOMAIN client[c].messageQueue : client[c].messageQueue[j].sid = i
           /\ client[c].reader \in {"read", "store", "enqueue"} => client[c].sid = i
           /\ Working(c) /\ client[c].session.id # 0 => client[c].session.id = i
    BY <1>i DEF OneSession
  <2>6. Working(c) => CoveredSession(client[c].session)
    BY <1>i DEF SessionCovered
  <2> QED
    BY <1>f, <1>i, <2>1, <2>2, <2>3, <2>4, <2>5, <2>6, ListenerMoves
<1> QED
  BY <1>1, <1>2, <1>3 DEF Listener
-----------------------------------------------------------------------------
(* Steps that touch no client only forget what dataMap holds.               *)
LEMMA SharedSkip ==
  ASSUME TypeInv, SkipInv, client' = client, sessionChan' = sessionChan,
         handed' = handed, dropped' = dropped, dataMap' \subseteq dataMap
  PROVE  SkipInv'
<1>1. \A m : HandedOrQueued(m)' <=> HandedOrQueued(m)
  BY DEF HandedOrQueued, Pending
<1>2. \A i, n : Covered(i, n)' <=> Covered(i, n)
  BY <1>1 DEF Covered, Accounted
<1>5. \A h : Reached(h)' <=> Reached(h)
  BY <1>1 DEF Reached
<1>3. SharedInv'
  BY <1>2, <1>5 DEF SkipInv, SharedInv, CoveredSession
<1>4. ASSUME NEW c \in Clients PROVE ClientInv(c)'
  <2>1. ClientInv(c) /\ (Working(c)' <=> Working(c))
    BY DEF SkipInv, Working
  <2>2. NotYetListening(c)' /\ OneSession(c)'
    BY <2>1 DEF ClientInv, NotYetListening, OneSession
  <2>3. SessionCovered(c)' /\ QueueCovered(c)'
    BY <1>2, <2>1 DEF ClientInv, SessionCovered, QueueCovered, CoveredSession
  <2>4. ReadInOrder(c)'
    BY <1>2, <2>1 DEF ClientInv, ReadInOrder
  <2> QED
    BY <2>2, <2>3, <2>4 DEF ClientInv
<1> QED
  BY <1>3, <1>4 DEF SkipInv

LEMMA InitSkip == Init => SkipInv
<1> SUFFICES ASSUME Init PROVE SkipInv
  OBVIOUS
<1>1. \A i \in DOMAIN sessionChan : sessionChan[i].id = 0
  BY Constants DEF Init, NewSession
<1>2. ASSUME NEW c \in Clients PROVE ClientInv(c)
  <2>1. /\ client[c].main = "unused" /\ client[c].reader = "off"
        /\ client[c].listener = "off" /\ client[c].messageQueue = << >>
    BY DEF Init, NewClient
  <2>2. 1 \in 1 .. MaxSessions
    BY Constants
  <2> QED
    BY <2>1, <2>2 DEF ClientInv, NotYetListening, SessionCovered, QueueCovered, ReadInOrder,
                      OneSession, Working
<1>3. dataMap = {} /\ dropped = {}
  BY DEF Init
<1> QED
  BY <1>1, <1>2, <1>3 DEF SkipInv, SharedInv, CoveredSession

LEMMA SkipStep == TypeInv /\ SkipInv /\ [Next]_vars => SkipInv'
<1> SUFFICES ASSUME TypeInv, SkipInv, [Next]_vars PROVE SkipInv'
  OBVIOUS
<1>1. ASSUME NEW c \in Clients, StartConnect(c) PROVE SkipInv'
  BY <1>1, StartSkip
<1>2. ASSUME NEW c \in Clients, HeartbeatFails(c) PROVE SkipInv'
  BY <1>2, QuietSkip
<1>3. ASSUME NEW c \in Clients, Main(c) PROVE SkipInv'
  BY <1>3, QuietSkip, AuthSkip DEF Main
<1>4. ASSUME NEW c \in Clients, Reader(c) PROVE SkipInv'
  BY <1>4, ReaderSkip
<1>5. ASSUME NEW c \in Clients, Listener(c) PROVE SkipInv'
  BY <1>5, ListenerSkip
<1>6. CASE cleanupDataMap
  BY <1>6, SharedSkip DEF cleanupDataMap
<1>7. CASE RefreshToken
  BY <1>7, SharedSkip DEF RefreshToken
<1>8. CASE UNCHANGED vars
  BY <1>8, SharedSkip DEF vars
<1> QED
  BY <1>1, <1>2, <1>3, <1>4, <1>5, <1>6, <1>7, <1>8 DEF Next

(* Resuming a session behind its LastSeq skips no event, and dataMap drops  *)
(* no data: whatever is not sent again was given to ParseAndHandle, is on   *)
(* its way or was dropped, and an event with the data of a dropped one was  *)
(* handed over or is on its way (saveSeq, storeDataToSyncMap and Resume of  *)
(* client.go).                                                              *)
THEOREM NothingSkippedCorrect == Spec => []NothingSkipped
<1>1. TypeInv /\ SkipInv /\ [Next]_vars => (TypeInv /\ SkipInv)'
  BY TypeStep, SkipStep
<1> QED
  BY <1>1, InitType, InitSkip, SkipImplies, PTL DEF Spec
=============================================================================
