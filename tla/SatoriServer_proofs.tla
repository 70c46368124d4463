------------------------- MODULE SatoriServer_proofs -------------------------
(***************************************************************************)
(* Proofs about the push side of the Satori server, for every number of    *)
(* connections, events and webhooks, and every capacity of the queue.      *)
(***************************************************************************)
EXTENDS SatoriServer, SequenceTheorems, TLAPS

QueueProofs == INSTANCE EventQueue_proofs WITH
                 Sns <- Sns, Capacity <- Capacity, Events <- Events, pushed <- pushed

LEMMA QueueTypes ==
  ASSUME NEW S, NEW q \in Seq(S)
  PROVE  /\ \A e \in S : Queue!Pushed(q, e) \in Seq(S)
         /\ \A sn : Queue!Resumed(q, sn) \in Seq(S)
<1>1. \A e \in S : QueueProofs!Pushed(q, e) \in Seq(S)
  BY QueueProofs!PushedProperties, ServerAssumption
<1>2. \A sn : QueueProofs!Resumed(q, sn) \in Seq(S)
  BY QueueProofs!ResumedType, ServerAssumption
<1>3. \A e \in S : Queue!Pushed(q, e) = QueueProofs!Pushed(q, e)
  BY DEF Queue!Pushed, QueueProofs!Pushed
<1>4. \A sn : Queue!Resumed(q, sn) = QueueProofs!Resumed(q, sn)
  BY DEF Queue!Resumed, QueueProofs!Resumed, Queue!Min, QueueProofs!Min
<1> QED
  BY <1>1, <1>2, <1>3, <1>4

(* Deleting slot i moves the slots behind it one down.                      *)
LEMMA RemoveAtProperties ==
  ASSUME NEW S, NEW s \in Seq(S), NEW i \in DOMAIN s
  PROVE  /\ RemoveAt(s, i) \in Seq(S)
         /\ Len(RemoveAt(s, i)) = Len(s) - 1
         /\ \A k \in 1 .. Len(s) - 1 :
              RemoveAt(s, i)[k] = s[IF k < i THEN k ELSE k + 1]
<1> DEFINE a == SubSeq(s, 1, i - 1)
           b == SubSeq(s, i + 1, Len(s))
<1>1. /\ Len(s) \in Nat /\ DOMAIN s = 1 .. Len(s) /\ i \in 1 .. Len(s)
      /\ \A k \in 1 .. Len(s) : s[k] \in S
  BY LenProperties, ElementOfSeq
<1>2. /\ a \in Seq(S) /\ Len(a) = i - 1
      /\ \A k \in 1 .. i - 1 : a[k] = s[k]
  <2>1. \A k \in 1 .. i - 1 : s[k] \in S
    BY <1>1
  <2>2. /\ a \in Seq(S)
        /\ Len(a) = IF 1 <= i - 1 THEN i - 1 - 1 + 1 ELSE 0
        /\ \A k \in 1 .. i - 1 - 1 + 1 : a[k] = s[1 + k - 1]
    BY <1>1, <2>1, SubSeqProperties
  <2> QED
    BY <1>1, <2>2
<1>3. /\ b \in Seq(S) /\ Len(b) = Len(s) - i
      /\ \A k \in 1 .. Len(s) - i : b[k] = s[i + k]
  <2>1. \A k \in i + 1 .. Len(s) : s[k] \in S
    BY <1>1
  <2>2. /\ b \in Seq(S)
        /\ Len(b) = IF i + 1 <= Len(s) THEN Len(s) - (i + 1) + 1 ELSE 0
        /\ \A k \in 1 .. Len(s) - (i + 1) + 1 : b[k] = s[(i + 1) + k - 1]
    BY <1>1, <2>1, SubSeqProperties
  <2> HIDE DEF b
  <2>3. Len(s) - (i + 1) + 1 = Len(s) - i
    BY <1>1
  <2>4. \A k \in 1 .. Len(s) - i : (i + 1) + k - 1 = i + k
    BY <1>1
  <2> QED
    BY <1>1, <2>2, <2>3, <2>4
<1>4. RemoveAt(s, i) = a \o b
  BY DEF RemoveAt
<1> HIDE DEF a, b
<1>5. /\ a \o b \in Seq(S)
      /\ Len(a \o b) = Len(s) - 1
      /\ \A k \in 1 .. Len(s) - 1 :
           (a \o b)[k] = IF k <= i - 1 THEN a[k] ELSE b[k - (i - 1)]
  <2>1. /\ a \o b \in Seq(S)
        /\ Len(a \o b) = Len(a) + Len(b)
        /\ \A k \in 1 .. Len(a) + Len(b) :
             (a \o b)[k] = IF k <= Len(a) THEN a[k] ELSE b[k - Len(a)]
    BY <1>2, <1>3, ConcatProperties
  <2>2. Len(a) + Len(b) = Len(s) - 1
    BY <1>1, <1>2, <1>3
  <2> QED
    BY <1>2, <2>1, <2>2
<1>6. ASSUME NEW k \in 1 .. Len(s) - 1
      PROVE  (a \o b)[k] = s[IF k < i THEN k ELSE k + 1]
  <2>1. CASE k < i
    BY <2>1, <1>1, <1>2, <1>5
  <2>2. CASE ~(k < i)
    <3>1. k - (i - 1) \in 1 .. Len(s) - i /\ i + (k - (i - 1)) = k + 1
      BY <2>2, <1>1
    <3> QED
      BY <2>2, <3>1, <1>1, <1>3, <1>5, SMTT(30)
  <2> QED
    BY <2>1, <2>2
<1> QED
  BY <1>4, <1>5, <1>6
-----------------------------------------------------------------------------
LEMMA ConnStepType ==
  ASSUME TypeOK, NEW c \in Conns, NEW state \in ConnState,
         ConnStep(c, state), writer' \in BOOLEAN
  PROVE  TypeOK'
<1>1. conn' \in [Conns -> ConnState]
  BY DEF TypeOK, ConnStep
<1> QED
  BY <1>1 DEF TypeOK, ConnStep, server, sends, others

LEMMA ConnType ==
  ASSUME TypeOK, NEW c \in Conns, NEW state \in ConnState,
         conn' = [conn EXCEPT ![c] = state]
  PROVE  conn' \in [Conns -> ConnState]
BY DEF TypeOK

LEMMA HandlerType ==
  ASSUME TypeOK, NEW c \in Conns,
         NEW pc \in {"idle", "auth", "enter", "entering", "resume", "replay",
                     "wait", "leave", "leaving", "close", "signal", "exit"},
         conn' = [conn EXCEPT ![c].handler = pc]
  PROVE  conn' \in [Conns -> ConnState]
<1>1. conn[c] \in ConnState
  BY DEF TypeOK
<1>2. [conn[c] EXCEPT !.handler = pc] \in ConnState
  BY <1>1 DEF ConnState
<1> QED
  BY <1>2, ConnType

LEMMA PostType ==
  ASSUME TypeOK, NEW e \in Sns, NEW c \in Conns, NEW pc \in PostPcs,
         post' = [post EXCEPT ![e][c] = pc]
  PROVE  post' \in [Sns -> [Conns -> PostPcs]]
BY DEF TypeOK

(* The value a Close takes from hasClosed.                                  *)
LEMMA TakenType ==
  ASSUME TypeOK, NEW c \in Conns,
         conn' = [conn EXCEPT ![c].hasClosed = FALSE]
  PROVE  conn' \in [Conns -> ConnState]
<1>1. conn[c] \in ConnState
  BY DEF TypeOK
<1>2. [conn[c] EXCEPT !.hasClosed = FALSE] \in ConnState
  BY <1>1 DEF ConnState
<1> QED
  BY <1>2, ConnType

LEMMA TypeStep == TypeOK /\ [Next]_vars => TypeOK'
<1> SUFFICES ASSUME TypeOK, [Next]_vars PROVE TypeOK'
  OBVIOUS
<1>1. ASSUME NEW e \in Sns, StartSend(e) PROVE TypeOK'
  <2>1. Events' \in Seq(Sns)
    BY <1>1, QueueTypes DEF StartSend, EventsAfter, TypeOK
  <2>2. pushed' \in Seq(Sns)
    BY <1>1, AppendProperties DEF StartSend, TypeOK
  <2>3. send' \in [Sns -> SendState]
    BY <1>1, ZenonT(60) DEF StartSend, TypeOK, SendState
  <2>4. /\ post' \in [Sns -> [Conns -> PostPcs]]
        /\ hook' \in [Sns -> [Hooks -> HookPcs]]
    BY <1>1 DEF StartSend, TypeOK, PostPcs, HookPcs
  <2> QED
    BY <1>1, <2>1, <2>2, <2>3, <2>4 DEF StartSend, TypeOK, others
<1>2. ASSUME NEW e \in Sns, NEW c \in Conns, PostWork(e, c) PROVE TypeOK'
  <2>1. CASE PostSucceeds(e, c)
    <3>1. Received(c, e) \in Seq(Sns \cup {READY})
      BY AppendProperties DEF Received, TypeOK, ConnState
    <3>2. conn' \in [Conns -> ConnState]
      <4>1. conn[c] \in ConnState
        BY DEF TypeOK
      <4>2. [conn[c] EXCEPT !.got = Received(c, e)] \in ConnState
        BY <3>1, <4>1 DEF ConnState
      <4> QED
        BY <2>1, <4>2, ConnType DEF PostSucceeds
    <3>3. Append(send[e].ws, c) \in Seq(Conns)
      BY AppendProperties DEF TypeOK, SendState
    <3>4. /\ send' \in [Sns -> SendState]
          /\ post' \in [Sns -> [Conns -> PostPcs]]
      BY <2>1, <3>3, ZenonT(60) DEF PostSucceeds, TypeOK, SendState, PostPcs
    <3> QED
      BY <2>1, <3>2, <3>4 DEF PostSucceeds, TypeOK, server, others
  <2>2. CASE PostFails(e, c)
    <3>1. post' \in [Sns -> [Conns -> PostPcs]]
      BY <2>2, PostType DEF PostFails, PostPcs
    <3> QED
      BY <2>2, <3>1 DEF PostFails, TypeOK, server, others
  <2>3. CASE PostSignals(e, c)
    <3>1. /\ post' \in [Sns -> [Conns -> PostPcs]]
          /\ conn' \in [Conns -> ConnState]
      BY <2>3, PostType, HandlerType DEF PostSignals, Signalled, PostPcs
    <3> QED
      BY <2>3, <3>1 DEF PostSignals, TypeOK, server, others
  <2>4. CASE PostCloseReturns(e, c)
    <3>1. /\ post' \in [Sns -> [Conns -> PostPcs]]
          /\ conn' \in [Conns -> ConnState]
      BY <2>4, PostType, TakenType DEF PostCloseReturns, PostPcs
    <3> QED
      BY <2>4, <3>1 DEF PostCloseReturns, TypeOK, server, others
  <2> QED
    BY <1>2, <2>1, <2>2, <2>3, <2>4 DEF PostWork
<1>3. ASSUME NEW e \in Sns, SendWork(e) \/ SendLock(e) PROVE TypeOK'
  <2>1. CASE EndPosting(e)
    BY <2>1 DEF EndPosting, TypeOK, SendState, server, others
  <2>2. CASE SendStore(e)
    <3>1. /\ send[e].ws \in Seq(Conns) /\ send[e].wh \in Seq(Hooks)
          /\ ToSet(websockets) \subseteq Conns
      BY LenProperties, ElementOfSeq DEF TypeOK, SendState, ToSet
    <3>2. send' \in [Sns -> SendState]
      BY <2>2, EmptySeq DEF SendStore, TypeOK, SendState
    <3> QED
      BY <2>2, <3>1, <3>2
      DEF SendStore, Survivors, Unlock, TypeOK, CloseState, server, others
  <2>3. ASSUME NEW u \in Hooks, PostHook(e, u) PROVE TypeOK'
    <3>1. Append(send[e].wh, u) \in Seq(Hooks)
      BY AppendProperties DEF TypeOK, SendState
    <3>2. /\ send' \in [Sns -> SendState]
          /\ hook' \in [Sns -> [Hooks -> HookPcs]]
      BY <2>3, <3>1, ZenonT(60) DEF PostHook, TypeOK, SendState, HookPcs
    <3> QED
      BY <2>3, <3>2 DEF PostHook, TypeOK, server, others
  <2>4. CASE SendLock(e)
    BY <2>4 DEF SendLock, Announce, TypeOK, SendState, server, others
  <2> QED
    BY <1>3, <2>1, <2>2, <2>3, <2>4 DEF SendWork
<1>4. ASSUME NEW c \in Conns,
             \/ HandlerWork(c) \/ HandlerLock(c) \/ AuthTimeout(c)
             \/ ReaderWork(c) \/ HeartWork(c) \/ Environment(c)
      PROVE  TypeOK'
  <2> DEFINE s == conn[c]
  <2>0. s \in ConnState /\ writer \in BOOLEAN
    BY DEF TypeOK
  <2>1. CASE Refuse(c) \/ SkipIdentify(c)
    BY <2>0, <2>1, ConnStepType DEF Refuse, SkipIdentify, ConnState
  <2>2. ASSUME NEW n \in {0} \cup Sns, Identify(c, n) PROVE TypeOK'
    <3>1. Received(c, READY) \in Seq(Sns \cup {READY})
      BY <2>0, AppendProperties DEF Received, ConnState
    <3>2. n \in Nat
      BY ServerAssumption
    <3> QED
      BY <2>0, <2>2, <3>1, <3>2, ConnStepType DEF Identify, ConnState
  <2>3. CASE RegisterLock(c) \/ LeaveLock(c)
    BY <2>0, <2>3, ConnStepType
    DEF RegisterLock, LeaveLock, Leaving, Announce, ConnState
  <2>4. CASE Register(c)
    <3>1. websockets' \in Seq(Conns)
      BY <2>4, AppendProperties DEF Register, TypeOK
    <3>2. conn' \in [Conns -> ConnState]
      BY <2>4, HandlerType DEF Register
    <3>3. close' \in CloseState
      <4>1. CASE close.aliased /\ Len(websockets) < Len(close.view)
        <5>1. /\ close.view \in Seq(Conns)
              /\ Len(websockets) + 1 \in 1 .. Len(close.view)
          BY <4>1, LenProperties DEF TypeOK, CloseState
        <5>2. [close.view EXCEPT ![Len(websockets) + 1] = c] \in Seq(Conns)
          BY <5>1, ExceptSeq
        <5>3. close' = [close EXCEPT !.view =
                          [close.view EXCEPT ![Len(websockets) + 1] = c]]
          BY <2>4, <4>1 DEF Register, AppendedInPlace, TypeOK, CloseState
        <5> QED
          BY <5>2, <5>3 DEF TypeOK, CloseState
      <4>2. CASE ~(close.aliased /\ Len(websockets) < Len(close.view))
        BY <2>4, <4>2 DEF Register, AppendedInPlace, TypeOK, CloseState
      <4> QED
        BY <4>1, <4>2
    <3> QED
      BY <2>4, <3>1, <3>2, <3>3 DEF Register, Unlock, TypeOK, sends
  <2>5. CASE Resume(c)
    <3>1. Queue!Resumed(Events, conn[c].sn) \in Seq(Sns)
      BY QueueTypes DEF TypeOK
    <3> QED
      BY <2>0, <2>5, <3>1, ConnStepType DEF Resume, ConnState
  <2>6. CASE Replay(c)
    <3>1. /\ s.backlog # << >> /\ s.backlog \in Seq(Sns)
          /\ s.got \in Seq(Sns \cup {READY})
      BY <2>0, <2>6 DEF Replay, ConnState
    <3>2. Tail(s.backlog) \in Seq(Sns) /\ Head(s.backlog) \in Sns
      BY <3>1, HeadTailProperties
    <3>3. Received(c, Head(s.backlog)) \in Seq(Sns \cup {READY})
      BY <3>1, <3>2, AppendProperties DEF Received
    <3> QED
      BY <2>0, <2>6, <3>2, <3>3, ConnStepType DEF Replay, ConnState
  <2>7. CASE EndReplay(c) \/ SignalClosed(c) \/ CloseConn(c) \/ AuthTimeout(c)
    BY <2>0, <2>7, ConnStepType
    DEF EndReplay, SignalClosed, Exited, CloseConn, AuthTimeout, ConnState
  <2>8. CASE Unregister(c)
    <3>1. conn' \in [Conns -> ConnState]
      BY <2>8, HandlerType DEF Unregister
    <3>2. websockets' \in Seq(Conns) /\ close' \in CloseState
      <4>1. ASSUME NEW i \in DOMAIN websockets,
                   websockets' = RemoveAt(websockets, i),
                   close' = [close EXCEPT !.view = DeletedInPlace(i)]
            PROVE  websockets' \in Seq(Conns) /\ close' \in CloseState
        <5>1. websockets' \in Seq(Conns)
          BY <4>1, RemoveAtProperties DEF TypeOK
        <5>2. DeletedInPlace(i) \in Seq(Conns)
          <6>1. close.view \in Seq(Conns) /\ websockets \in Seq(Conns)
            BY DEF TypeOK, CloseState
          <6>2. /\ Len(close.view) \in Nat /\ Len(websockets) \in Nat
                /\ DOMAIN close.view = 1 .. Len(close.view)
                /\ DOMAIN websockets = 1 .. Len(websockets)
                /\ close.view \in [1 .. Len(close.view) -> Conns]
                /\ websockets \in [1 .. Len(websockets) -> Conns]
            BY <6>1, LenProperties
          <6>3. CASE close.aliased
            <7>1. DeletedInPlace(i) \in [1 .. Len(close.view) -> Conns]
              BY <6>2, <6>3 DEF DeletedInPlace
            <7> QED
              BY <6>2, <7>1, SeqDef
          <6> QED
            BY <6>1, <6>3 DEF DeletedInPlace
        <5> QED
          BY <4>1, <5>1, <5>2 DEF TypeOK, CloseState
      <4> QED
        BY <2>8, <4>1 DEF Unregister, TypeOK
    <3> QED
      BY <2>8, <3>1, <3>2 DEF Unregister, Unlock, TypeOK, sends
  <2>9. CASE ReaderWork(c) \/ HeartWork(c)
    <3>1. CASE HandshakeReadFails(c) \/ ReceiveFails(c)
      BY <2>0, <3>1, ConnStepType
      DEF HandshakeReadFails, ReceiveFails, ReadError, ConnState
    <3>2. CASE ReaderSignals(c) \/ ReaderCloseReturns(c)
      BY <2>0, <3>2, ConnStepType, ZenonT(60)
      DEF ReaderSignals, Exited, ReaderCloseReturns, ConnState
    <3>3. CASE HeartWork(c)
      <4>1. /\ [s EXCEPT !.heart = "closeSend", !.errChan = FALSE] \in ConnState
            /\ [s EXCEPT !.handler = "leave", !.heart = "done"] \in ConnState
        BY <2>0 DEF ConnState
      <4> QED
        BY <2>0, <3>3, <4>1, ConnStepType
        DEF HeartWork, ReadErrorArrives, HeartSignals
    <3> QED
      BY <2>9, <3>1, <3>2, <3>3 DEF ReaderWork
  <2>10. CASE Connect(c) \/ PeerGone(c) \/ HeartbeatTimeout(c)
    BY <2>0, <2>10, ConnStepType
    DEF Connect, PeerGone, HeartbeatTimeout, ConnState
  <2>11. CASE ReadyFails(c)
    BY <2>11 DEF ReadyFails, TypeOK, server, sends
  <2>12. ASSUME NEW op \in ClientOps, ReceiveAtOnce(c, op) PROVE TypeOK'
    <3>1. op \in AllClientOps
      BY ServerAssumption
    <3> QED
      BY <2>0, <2>12, <3>1, ConnStepType DEF ReceiveAtOnce, ConnState
  <2> QED
    BY <1>4, <2>1, <2>2, <2>3, <2>4, <2>5, <2>6, <2>7, <2>8, <2>9, <2>10,
       <2>11, <2>12
    DEF HandlerWork, HandlerLock, Environment
<1>5. ASSUME NEW u \in Hooks,
             \/ \E op \in {"create", "delete"} : ApiLock(u, op)
             \/ ApiWork(u)
      PROVE  TypeOK'
  <2>1. ASSUME NEW op \in {"create", "delete"}, ApiLock(u, op) PROVE TypeOK'
    BY <2>1 DEF ApiLock, Announce, TypeOK, server, sends
  <2>2. CASE CreateWebHook(u)
    <3>1. webhooks' \in Seq(Hooks)
      BY <2>2, AppendProperties DEF CreateWebHook, TypeOK
    <3> QED
      BY <2>2, <3>1 DEF CreateWebHook, ApiReturns, Unlock, TypeOK, sends
  <2>3. CASE DeleteWebHook(u)
    <3>1. webhooks' \in Seq(Hooks)
      BY <2>3, RemoveAtProperties DEF DeleteWebHook, TypeOK
    <3> QED
      BY <2>3, <3>1 DEF DeleteWebHook, ApiReturns, Unlock, TypeOK, sends
  <2> QED
    BY <1>5, <2>1, <2>2, <2>3 DEF ApiWork
<1>6. CASE CloseServer \/ CloseWork \/ CloseLock
  <2>1. CASE CloseServer \/ CloseLock
    BY <2>1, ZenonT(60) DEF CloseServer, CloseLock, Announce, TypeOK, CloseState, server,
                sends
  <2>2. CASE CloseNext
    <3>1. close.view[close.index] \in Conns
      <4>1. /\ close.view \in Seq(Conns) /\ close.index \in Nat \ {0}
            /\ close.index <= Len(close.view)
        BY <2>2 DEF CloseNext, TypeOK, CloseState
      <4> QED
        BY <4>1, LenProperties, ElementOfSeq
    <3> QED
      <4>1. close \in CloseState /\ close.index + 1 \in Nat \ {0}
        BY DEF TypeOK, CloseState
      <4>2. [close EXCEPT !.pc = "closeSend", !.index = close.index + 1,
                          !.target = close.view[close.index]] \in CloseState
        BY <3>1, <4>1 DEF CloseState
      <4>3. close' \in CloseState
        BY <2>2, <4>2 DEF CloseNext
      <4> QED
        BY <2>2, <4>3 DEF CloseNext, TypeOK, server, sends
  <2>3. CASE CloseReturns
    <3>1. conn' \in [Conns -> ConnState]
      <4>1. CASE close.target \in Conns
        BY <2>3, <4>1, TakenType DEF CloseReturns
      <4>2. CASE close.target \notin Conns
        BY <2>3, <4>2 DEF CloseReturns, TypeOK
      <4> QED
        BY <4>1, <4>2
    <3> QED
      BY <2>3, <3>1 DEF CloseReturns, TypeOK, CloseState, server, sends
  <2>4. ASSUME NEW c \in Conns, CloseSignals(c) PROVE TypeOK'
    <3>1. conn' \in [Conns -> ConnState]
      BY <2>4, HandlerType DEF CloseSignals, Signalled
    <3> QED
      BY <2>4, <3>1 DEF CloseSignals, TypeOK, CloseState, server, sends
  <2>5. CASE CloseStore
    BY <2>5, EmptySeq DEF CloseStore, Unlock, TypeOK, CloseState, sends
  <2> QED
    BY <1>6, <2>1, <2>2, <2>3, <2>4, <2>5 DEF CloseWork
<1>7. CASE UNCHANGED vars
  BY <1>7 DEF vars, server, sends, others, TypeOK
<1> QED
  BY <1>1, <1>2, <1>3, <1>4, <1>5, <1>6, <1>7 DEF Next

(* Every state of the server is of its type.                                *)
THEOREM TypeCorrect == Spec => []TypeOK
<1>1. Init => TypeOK
  <2> SUFFICES ASSUME Init PROVE TypeOK
    OBVIOUS
  <2>1. \A S : << >> \in Seq(S)
    BY EmptySeq
  <2>2. NewConn \in ConnState
    BY <2>1 DEF NewConn, ConnState, AllClientOps
  <2>3. /\ send \in [Sns -> SendState]
        /\ conn \in [Conns -> ConnState]
    BY <2>1, <2>2 DEF Init, SendState
  <2>4. close \in CloseState
    BY <2>1 DEF Init, CloseState
  <2> QED
    BY <2>1, <2>3, <2>4 DEF Init, TypeOK, PostPcs, HookPcs
<1> QED
  BY <1>1, TypeStep, PTL DEF Spec
-----------------------------------------------------------------------------
(***************************************************************************)
(* The write lock                                                          *)
(***************************************************************************)
SendWrites == {e \in Sns : send[e].pc = "storing"}
ConnWrites == {c \in Conns : conn[c].handler \in {"entering", "leaving"}}
ApiWrites  == {u \in Hooks : api[u] # "idle"}
CloseWrites == close.pc = "locking"

(* OneWriter by cases: nobody, or one caller of one of the four kinds.      *)
Nobody == SendWrites = {} /\ ConnWrites = {} /\ ApiWrites = {} /\ ~CloseWrites

Somebody ==
  \/ /\ \E e \in Sns : SendWrites = {e}
     /\ ConnWrites = {} /\ ApiWrites = {} /\ ~CloseWrites
  \/ /\ \E c \in Conns : ConnWrites = {c}
     /\ SendWrites = {} /\ ApiWrites = {} /\ ~CloseWrites
  \/ /\ \E u \in Hooks : ApiWrites = {u}
     /\ SendWrites = {} /\ ConnWrites = {} /\ ~CloseWrites
  \/ /\ CloseWrites
     /\ SendWrites = {} /\ ConnWrites = {} /\ ApiWrites = {}

WriterInv == /\ writer \in BOOLEAN
             /\ IF writer THEN Somebody ELSE Nobody

LEMMA WriterInvSuffices == WriterInv => OneWriter
<1> SUFFICES ASSUME WriterInv PROVE OneWriter
  OBVIOUS
<1>1. Writing = {<<"send", e>> : e \in SendWrites}
                  \cup {<<"conn", c>> : c \in ConnWrites}
                  \cup {<<"api", u>> : u \in ApiWrites}
                  \cup {<<"close", 0>> : x \in {y \in {0} : CloseWrites}}
  BY DEF Writing, SendWrites, ConnWrites, ApiWrites, CloseWrites
<1>2. CASE writer
  <2>1. Somebody
    BY <1>2 DEF WriterInv
  <2>2. CASE CloseWrites
    <3>1. Writing = {<<"close", 0>>}
      BY <1>1, <2>1, <2>2 DEF Somebody
    <3> QED
      BY <1>2, <3>1 DEF OneWriter
  <2>3. ASSUME NEW e \in Sns, SendWrites = {e} PROVE OneWriter
    <3>1. Writing = {<<"send", e>>}
      BY <1>1, <2>1, <2>3 DEF Somebody
    <3> QED
      BY <1>2, <3>1 DEF OneWriter
  <2>4. ASSUME NEW c \in Conns, ConnWrites = {c} PROVE OneWriter
    <3>1. Writing = {<<"conn", c>>}
      BY <1>1, <2>1, <2>4 DEF Somebody
    <3> QED
      BY <1>2, <3>1 DEF OneWriter
  <2>5. ASSUME NEW u \in Hooks, ApiWrites = {u} PROVE OneWriter
    <3>1. Writing = {<<"api", u>>}
      BY <1>1, <2>1, <2>5 DEF Somebody
    <3> QED
      BY <1>2, <3>1 DEF OneWriter
  <2> QED
    BY <2>1, <2>2, <2>3, <2>4, <2>5 DEF Somebody
<1>3. CASE ~writer
  BY <1>1, <1>3 DEF WriterInv, Nobody, OneWriter
<1> QED
  BY <1>2, <1>3

(* A step in which nobody takes or gives back the lock.                     *)
LEMMA WriterStutter ==
  ASSUME WriterInv, writer' = writer, SendWrites' = SendWrites,
         ConnWrites' = ConnWrites, ApiWrites' = ApiWrites,
         CloseWrites' = CloseWrites
  PROVE  WriterInv'
BY DEF WriterInv, Somebody, Nobody

(* Steps of one connection that leave the lock alone.                       *)
LEMMA HandlersKept ==
  ASSUME conn \in [Conns -> ConnState], NEW c, NEW x,
         \/ conn' = [conn EXCEPT ![c].hasClosed = x]
         \/ conn' = [conn EXCEPT ![c].got = x]
  PROVE  ConnWrites' = ConnWrites
<1>1. ASSUME NEW d \in Conns PROVE conn'[d].handler = conn[d].handler
  <2>1. conn[d] \in ConnState
    OBVIOUS
  <2>2. CASE conn' = [conn EXCEPT ![c].hasClosed = x]
    BY <2>1, <2>2 DEF ConnState
  <2>3. CASE conn' = [conn EXCEPT ![c].got = x]
    BY <2>1, <2>3 DEF ConnState
  <2> QED
    BY <2>2, <2>3
<1> QED
  BY <1>1 DEF ConnWrites

LEMMA HandlerMoved ==
  ASSUME conn \in [Conns -> ConnState], NEW c \in Conns, NEW pc,
         conn' = [conn EXCEPT ![c].handler = pc],
         pc \notin {"entering", "leaving"}
  PROVE  ConnWrites' = ConnWrites \ {c}
<1>1. \A d \in Conns : conn'[d].handler = IF d = c THEN pc ELSE conn[d].handler
  BY DEF ConnState
<1> QED
  BY <1>1 DEF ConnWrites

LEMMA WriterStep == TypeOK /\ WriterInv /\ [Next]_vars => WriterInv'
<1> SUFFICES ASSUME TypeOK, WriterInv, [Next]_vars PROVE WriterInv'
  OBVIOUS
<1> USE DEF SendWrites, ConnWrites, ApiWrites, CloseWrites
<1> DEFINE SendKept == SendWrites' = SendWrites
           ConnKept == ConnWrites' = ConnWrites
           RestKept == ApiWrites' = ApiWrites /\ CloseWrites' = CloseWrites
<1>0. /\ send \in [Sns -> SendState] /\ conn \in [Conns -> ConnState]
      /\ api \in [Hooks -> {"idle", "create", "delete"}]
      /\ close \in CloseState
  BY DEF TypeOK
<1>1. ASSUME NEW e \in Sns, StartSend(e) PROVE WriterInv'
  <2>1. SendKept
    BY <1>0, <1>1 DEF StartSend, SendState
  <2> QED
    BY <1>1, <2>1, WriterStutter DEF StartSend, others
<1>2. ASSUME NEW e \in Sns, NEW c \in Conns, PostWork(e, c) PROVE WriterInv'
  <2>1. SendKept
    <3>1. \A f \in Sns : send'[f].pc = send[f].pc
      <4>1. CASE PostSucceeds(e, c) \/ PostCloseReturns(e, c)
        <5>1. \/ UNCHANGED send
              \/ \E ws : send' = [send EXCEPT ![e].ws = ws]
          BY <4>1 DEF PostSucceeds, PostCloseReturns
        <5>2. CASE \E ws : send' = [send EXCEPT ![e].ws = ws]
          BY <1>0, <5>2 DEF SendState
        <5> QED
          BY <5>1, <5>2
      <4>2. CASE PostFails(e, c) \/ PostSignals(e, c)
        BY <4>2 DEF PostFails, PostSignals
      <4> QED
        BY <1>2, <4>1, <4>2 DEF PostWork
    <3> QED
      BY <3>1
  <2>2. ConnKept
    <3>1. CASE PostSucceeds(e, c)
      BY <1>0, <3>1, HandlersKept DEF PostSucceeds
    <3>2. CASE PostCloseReturns(e, c)
      BY <1>0, <3>2, HandlersKept DEF PostCloseReturns
    <3>3. CASE PostSignals(e, c)
      BY <1>0, <3>3, HandlerMoved DEF PostSignals, Signalled
    <3>4. CASE PostFails(e, c)
      BY <3>4 DEF PostFails
    <3> QED
      BY <1>2, <3>1, <3>2, <3>3, <3>4 DEF PostWork
  <2> QED
    BY <1>2, <2>1, <2>2, WriterStutter
    DEF PostWork, PostSucceeds, PostFails, PostSignals, PostCloseReturns,
        others
<1>3. ASSUME NEW e \in Sns, EndPosting(e) \/ \E u \in Hooks : PostHook(e, u)
      PROVE  WriterInv'
  <2>1. SendKept
    <3>1. \A f \in Sns : send'[f].pc = send[f].pc \/ f = e
      BY <1>0, <1>3 DEF EndPosting, PostHook, SendState
    <3>2. (send'[e].pc = "storing") <=> (send[e].pc = "storing")
      BY <1>0, <1>3 DEF EndPosting, PostHook, SendState
    <3> QED
      BY <3>1, <3>2
  <2> QED
    BY <1>3, <2>1, WriterStutter DEF EndPosting, PostHook, others
<1>4. ASSUME NEW e \in Sns, SendLock(e) PROVE WriterInv'
  <2>1. Nobody
    BY <1>4 DEF SendLock, Announce, WriterInv
  <2>2. SendWrites' = {e}
    BY <1>0, <1>4, <2>1 DEF SendLock, Nobody, SendState
  <2> QED
    BY <1>4, <2>1, <2>2
    DEF SendLock, Announce, WriterInv, Nobody, Somebody, others
<1>5. ASSUME NEW e \in Sns, SendStore(e) PROVE WriterInv'
  <2>1. writer /\ e \in SendWrites
    BY <1>5 DEF SendStore, Acquired
  <2>2. SendWrites = {e} /\ ConnWrites = {} /\ ApiWrites = {} /\ ~CloseWrites
    BY <2>1 DEF WriterInv, Somebody
  <2>3. SendWrites' = {}
    BY <1>0, <1>5, <2>2 DEF SendStore, SendState
  <2>4. ~CloseWrites'
    BY <1>0, <1>5, <2>2 DEF SendStore, CloseState
  <2> QED
    BY <1>5, <2>2, <2>3, <2>4 DEF SendStore, Unlock, WriterInv, Nobody
<1>6. ASSUME NEW c \in Conns, NEW state,
             ConnStep(c, state), writer' = writer,
             conn[c].handler \notin {"entering", "leaving"},
             state.handler \notin {"entering", "leaving"}
      PROVE  WriterInv'
  <2>1. ConnKept
    BY <1>0, <1>6 DEF ConnStep
  <2> QED
    BY <1>6, <2>1, WriterStutter DEF ConnStep, sends, others
<1>7. ASSUME NEW c \in Conns, RegisterLock(c) \/ LeaveLock(c) PROVE WriterInv'
  <2>1. Nobody
    BY <1>7 DEF RegisterLock, LeaveLock, Announce, WriterInv
  <2>2. ConnWrites' = {c}
    BY <1>0, <1>7, <2>1
    DEF RegisterLock, LeaveLock, Leaving, ConnStep, Nobody, ConnState
  <2>3. /\ writer' = TRUE /\ SendWrites' = {} /\ ApiWrites' = {} /\ ~CloseWrites'
    BY <1>7, <2>1
    DEF RegisterLock, LeaveLock, Announce, ConnStep, Nobody, sends, others
  <2> HIDE DEF SendWrites, ConnWrites, ApiWrites, CloseWrites
  <2> QED
    BY <2>2, <2>3 DEF WriterInv, Somebody
<1>8. ASSUME NEW c \in Conns, Register(c) \/ Unregister(c) PROVE WriterInv'
  <2>1. writer /\ c \in ConnWrites
    BY <1>8 DEF Register, Unregister, Acquired
  <2>2. ConnWrites = {c} /\ SendWrites = {} /\ ApiWrites = {} /\ ~CloseWrites
    BY <2>1 DEF WriterInv, Somebody
  <2>3. ConnWrites' = {}
    <3>1. \E pc \in {"resume", "wait", "close"} :
            conn' = [conn EXCEPT ![c].handler = pc]
      BY <1>8 DEF Register, Unregister
    <3>2. ConnWrites' = ConnWrites \ {c}
      BY <1>0, <3>1, HandlerMoved
    <3> QED
      BY <2>2, <3>2
  <2>4. ~CloseWrites'
    BY <1>0, <1>8, <2>2
    DEF Register, AppendedInPlace, Unregister, CloseState
  <2> QED
    BY <1>8, <2>2, <2>3, <2>4
    DEF Register, Unregister, Unlock, WriterInv, Nobody, sends
<1>9. ASSUME NEW c \in Conns,
             \/ HandlerWork(c) \/ HandlerLock(c) \/ AuthTimeout(c)
             \/ ReaderWork(c) \/ HeartWork(c) \/ Environment(c)
      PROVE  WriterInv'
  <2>0. conn[c] \in ConnState
    BY <1>0
  <2>1. CASE Refuse(c) \/ SkipIdentify(c) \/ \E s \in {0} \cup Sns : Identify(c, s)
    BY <2>0, <2>1, <1>6 DEF Refuse, SkipIdentify, Identify, Takes, ConnState
  <2>2. CASE Resume(c) \/ Replay(c) \/ EndReplay(c)
    BY <2>0, <2>2, <1>6 DEF Resume, Replay, EndReplay, ConnState
  <2>3. CASE CloseConn(c) \/ SignalClosed(c) \/ AuthTimeout(c)
    BY <2>0, <2>3, <1>6
    DEF CloseConn, SignalClosed, AuthTimeout, Exited, ConnState
  <2>4. CASE ReaderSignals(c) \/ HeartSignals(c)
    BY <2>0, <2>4, <1>6 DEF ReaderSignals, HeartSignals, Exited, ConnState
  <2>5. ASSUME NEW state, ConnStep(c, state), writer' = writer,
               state.handler = conn[c].handler
        PROVE  WriterInv'
    <3>1. ConnKept
      BY <1>0, <2>5 DEF ConnStep
    <3> QED
      BY <2>5, <3>1, WriterStutter DEF ConnStep, sends, others
  <2>6. CASE HandshakeReadFails(c) \/ ReceiveFails(c) \/ ReaderCloseReturns(c)
    BY <2>0, <2>5, <2>6
    DEF HandshakeReadFails, ReceiveFails, ReadError, ReaderCloseReturns,
        ConnState
  <2>7. CASE ReadErrorArrives(c) \/ PeerGone(c) \/ HeartbeatTimeout(c)
    BY <2>0, <2>5, <2>7
    DEF ReadErrorArrives, PeerGone, HeartbeatTimeout, ConnState
  <2>8. CASE \E op \in ClientOps : ReceiveAtOnce(c, op)
    BY <2>0, <2>5, <2>8 DEF ReceiveAtOnce, ConnState
  <2>9. CASE Connect(c)
    BY <2>0, <2>9, <1>6 DEF Connect, ConnState
  <2>10. CASE ReadyFails(c)
    BY <2>10, WriterStutter DEF ReadyFails, sends
  <2> QED
    BY <1>7, <1>8, <1>9, <2>1, <2>2, <2>3, <2>4, <2>6, <2>7, <2>8, <2>9, <2>10
    DEF HandlerWork, HandlerLock, ReaderWork, HeartWork, Environment
<1>10. ASSUME NEW u \in Hooks, NEW op \in {"create", "delete"}, ApiLock(u, op)
       PROVE  WriterInv'
  <2>1. Nobody
    BY <1>10 DEF ApiLock, Announce, WriterInv
  <2>2. ApiWrites' = {u}
    BY <1>0, <1>10, <2>1 DEF ApiLock, Nobody
  <2> QED
    BY <1>10, <2>1, <2>2
    DEF ApiLock, Announce, WriterInv, Nobody, Somebody, sends
<1>11. ASSUME NEW u \in Hooks, ApiWork(u) PROVE WriterInv'
  <2>1. writer /\ u \in ApiWrites
    BY <1>11 DEF ApiWork, CreateWebHook, DeleteWebHook, Acquired
  <2>2. ApiWrites = {u} /\ SendWrites = {} /\ ConnWrites = {} /\ ~CloseWrites
    BY <2>1 DEF WriterInv, Somebody
  <2>3. ApiWrites' = {}
    BY <1>0, <1>11, <2>2 DEF ApiWork, CreateWebHook, DeleteWebHook, ApiReturns
  <2> QED
    BY <1>11, <2>2, <2>3
    DEF ApiWork, CreateWebHook, DeleteWebHook, ApiReturns, Unlock, WriterInv,
        Nobody, sends
<1>12. CASE CloseServer \/ CloseNext \/ CloseReturns
               \/ \E c \in Conns : CloseSignals(c)
  <2>1. ConnKept
    <3>1. CASE CloseServer \/ CloseNext
      BY <3>1 DEF CloseServer, CloseNext
    <3>2. CASE CloseReturns
      BY <1>0, <3>2, HandlersKept DEF CloseReturns
    <3>3. ASSUME NEW c \in Conns, CloseSignals(c) PROVE ConnKept
      BY <1>0, <3>3, HandlerMoved DEF CloseSignals, Signalled
    <3> QED
      BY <1>12, <3>1, <3>2, <3>3
  <2>2. CloseWrites' = CloseWrites
    BY <1>0, <1>12
    DEF CloseServer, CloseNext, CloseReturns, CloseSignals, CloseState
  <2> QED
    BY <1>12, <2>1, <2>2, WriterStutter
    DEF CloseServer, CloseNext, CloseReturns, CloseSignals, sends
<1>13. CASE CloseLock
  <2>1. Nobody
    BY <1>13 DEF CloseLock, Announce, WriterInv
  <2>2. CloseWrites'
    BY <1>0, <1>13 DEF CloseLock, CloseState
  <2> QED
    BY <1>13, <2>1, <2>2
    DEF CloseLock, Announce, WriterInv, Nobody, Somebody, sends
<1>14. CASE CloseStore
  <2>1. SendWrites = {} /\ ConnWrites = {} /\ ApiWrites = {}
    BY <1>14 DEF CloseStore, Acquired, WriterInv, Somebody
  <2>2. ~CloseWrites'
    BY <1>0, <1>14 DEF CloseStore, CloseState
  <2> QED
    BY <1>14, <2>1, <2>2 DEF CloseStore, Unlock, WriterInv, Nobody, sends
<1>15. CASE UNCHANGED vars
  BY <1>15, WriterStutter DEF vars, sends, others
<1> QED
  BY <1>1, <1>2, <1>3, <1>4, <1>5, <1>9, <1>10, <1>11, <1>12, <1>13, <1>14,
     <1>15
  DEF Next, SendWork, CloseWork

(* Between Lock and Unlock there is one caller, and the lock is taken       *)
(* exactly while there is one.                                              *)
THEOREM OneWriterCorrect == Spec => []OneWriter
<1>1. Init => WriterInv
  <2> SUFFICES ASSUME Init PROVE WriterInv
    OBVIOUS
  <2>1. SendWrites = {} /\ ApiWrites = {} /\ ~CloseWrites
    BY DEF Init, SendWrites, ApiWrites, CloseWrites
  <2>2. ConnWrites = {}
    BY DEF Init, NewConn, ConnWrites
  <2> QED
    BY <2>1, <2>2 DEF Init, WriterInv, Nobody
<1> QED
  BY <1>1, TypeCorrect, WriterStep, WriterInvSuffices, PTL DEF Spec
-----------------------------------------------------------------------------
(***************************************************************************)
(* What ws.Close() means when it returns.  A Close wakes the handler at    *)
(* isClosed (the handler is then on its way out), and returns with the     *)
(* value of hasClosed (which the handler sends at its very end).           *)
(***************************************************************************)
WayOut == {"leave", "leaving", "close", "signal", "exit"}

WokenFor(c) == \/ \E e \in Sns : post[e][c] \in {"closeWait", "nil"}
               \/ close.target = c /\ close.pc # "closeSend"

ReturnedFor(c) == \/ \E e \in Sns : post[e][c] = "nil"
                  \/ close.target = c /\ close.pc \notin {"closeSend", "closeWait"}

Ends(s, woken, returned) ==
  /\ woken \/ s.reader \in {"closeWait", "closed"} =>
       /\ s.handler \in WayOut
       /\ s.handler \in {"signal", "exit"} => s.closed \/ s.gone
  /\ s.handler = "auth" /\ s.reader = "closeSend" => s.gone
  /\ s.reader = "recv" => s.handler \notin {"idle", "auth"}
  /\ s.hasClosed => s.handler = "exit"
  /\ returned \/ s.reader = "closed" => s.handler = "exit"

EndInv == \A c \in Conns : Ends(conn[c], WokenFor(c), ReturnedFor(c))

LEMMA EndConnStep ==
  ASSUME TypeOK, EndInv, NEW c \in Conns, NEW state, ConnStep(c, state),
         Ends(state, WokenFor(c), ReturnedFor(c))
  PROVE  EndInv'
<1> SUFFICES ASSUME NEW d \in Conns
             PROVE  Ends(conn'[d], WokenFor(d), ReturnedFor(d))
  BY DEF EndInv, ConnStep, WokenFor, ReturnedFor, sends, others
<1>1. conn'[d] = IF d = c THEN state ELSE conn[d]
  BY DEF ConnStep, TypeOK
<1> QED
  BY <1>1 DEF EndInv

(* Steps that concern no Close: the handlers, the readers and what is woken *)
(* stay as they are.                                                        *)
LEMMA EndKept ==
  ASSUME EndInv, UNCHANGED conn,
         \A d \in Conns : WokenFor(d)' => WokenFor(d),
         \A d \in Conns : ReturnedFor(d)' => ReturnedFor(d)
  PROVE  EndInv'
BY DEF EndInv, Ends

LEMMA EndPost ==
  ASSUME TypeOK, EndInv, NEW e \in Sns, NEW c \in Conns, PostWork(e, c)
  PROVE  EndInv'
<1>0. /\ conn \in [Conns -> ConnState] /\ conn[c] \in ConnState
      /\ post \in [Sns -> [Conns -> PostPcs]]
  BY DEF TypeOK
<1>1. Ends(conn[c], WokenFor(c), ReturnedFor(c))
  BY DEF EndInv
<1>2. \A f \in Sns, d \in Conns :
        <<f, d>> # <<e, c>> => post'[f][d] = post[f][d]
  BY <1>0 DEF PostWork, PostSucceeds, PostFails, PostSignals, PostCloseReturns
<1>3. close' = close
  BY DEF PostWork, PostSucceeds, PostFails, PostSignals, PostCloseReturns,
         others
<1>4. \A d \in Conns \ {c} : /\ WokenFor(d)' = WokenFor(d)
                             /\ ReturnedFor(d)' = ReturnedFor(d)
                             /\ conn'[d] = conn[d]
  <2>1. \A d \in Conns \ {c} : \A f \in Sns : post'[f][d] = post[f][d]
    BY <1>2
  <2>2. \A d \in Conns \ {c} : conn'[d] = conn[d]
    BY <1>0 DEF PostWork, PostSucceeds, PostFails, PostSignals, Signalled,
                PostCloseReturns
  <2> QED
    BY <1>3, <2>1, <2>2 DEF WokenFor, ReturnedFor
<1> SUFFICES Ends(conn'[c], WokenFor(c)', ReturnedFor(c)')
  BY <1>4 DEF EndInv
<1>5. CASE PostSucceeds(e, c) \/ PostFails(e, c)
  <2>1. post'[e][c] \notin {"closeWait", "nil"}
    BY <1>0, <1>5 DEF PostSucceeds, PostFails
  <2>2. (WokenFor(c)' => WokenFor(c)) /\ (ReturnedFor(c)' => ReturnedFor(c))
    BY <1>2, <1>3, <2>1 DEF WokenFor, ReturnedFor
  <2>3. /\ conn'[c].handler = conn[c].handler
        /\ conn'[c].reader = conn[c].reader
        /\ conn'[c].hasClosed = conn[c].hasClosed
        /\ conn'[c].closed = conn[c].closed
        /\ conn'[c].gone = conn[c].gone
    BY <1>0, <1>5 DEF PostSucceeds, PostFails, ConnState
  <2> QED
    BY <1>1, <2>2, <2>3 DEF Ends
<1>6. CASE PostSignals(e, c)
  <2>1. conn[c].handler = "wait" /\ post'[e][c] = "closeWait"
    BY <1>0, <1>6 DEF PostSignals, Signalled
  <2>2. conn'[c] = [conn[c] EXCEPT !.handler = "leave"]
    BY <1>0, <1>6 DEF PostSignals, Signalled
  <2>3. ReturnedFor(c)' => ReturnedFor(c)
    BY <1>2, <1>3, <2>1 DEF ReturnedFor
  <2> QED
    BY <1>0, <1>1, <2>1, <2>2, <2>3 DEF Ends, WayOut, ConnState
<1>7. CASE PostCloseReturns(e, c)
  <2>1. /\ conn[c].hasClosed /\ post[e][c] = "closeWait"
        /\ conn'[c] = [conn[c] EXCEPT !.hasClosed = FALSE]
    BY <1>0, <1>7 DEF PostCloseReturns
  <2>2. WokenFor(c)
    BY <2>1 DEF WokenFor
  <2> QED
    BY <1>0, <1>1, <2>1, <2>2 DEF Ends, ConnState
<1> QED
  BY <1>5, <1>6, <1>7 DEF PostWork

LEMMA EndConn ==
  ASSUME TypeOK, EndInv, NEW c \in Conns,
         \/ HandlerWork(c) \/ HandlerLock(c) \/ AuthTimeout(c)
         \/ ReaderWork(c) \/ HeartWork(c) \/ Environment(c)
  PROVE  EndInv'
<1> DEFINE s == conn[c]
<1>0. /\ conn \in [Conns -> ConnState] /\ s \in ConnState
      /\ Ends(s, WokenFor(c), ReturnedFor(c))
  BY DEF TypeOK, EndInv
<1>1. CASE Refuse(c) \/ SkipIdentify(c) \/ \E n \in {0} \cup Sns : Identify(c, n)
  BY <1>0, <1>1, EndConnStep
  DEF Refuse, SkipIdentify, Identify, Takes, Ends, WayOut, ConnState
<1>2. CASE RegisterLock(c) \/ LeaveLock(c)
  BY <1>0, <1>2, EndConnStep
  DEF RegisterLock, LeaveLock, Leaving, Ends, WayOut, ConnState
<1>3. CASE Register(c) \/ Unregister(c)
  <2>1. /\ close'.target = close.target /\ close'.pc = close.pc
        /\ post' = post
    BY <1>3 DEF Register, Unregister, AppendedInPlace, TypeOK, CloseState, sends
  <2>2. \A d \in Conns : /\ WokenFor(d)' = WokenFor(d)
                         /\ ReturnedFor(d)' = ReturnedFor(d)
    BY <2>1 DEF WokenFor, ReturnedFor
  <2>3. PICK pc \in {"resume", "wait", "close"} :
          /\ conn' = [conn EXCEPT ![c].handler = pc]
          /\ \/ pc = "close" /\ s.handler = "leaving"
             \/ s.handler = "entering"
    BY <1>3 DEF Register, Unregister
  <2>4. \A d \in Conns \ {c} : conn'[d] = conn[d]
    BY <1>0, <2>3
  <2>5. conn'[c] = [s EXCEPT !.handler = pc]
    BY <1>0, <2>3
  <2>6. Ends(conn'[c], WokenFor(c), ReturnedFor(c))
    BY <1>0, <2>3, <2>5 DEF Ends, WayOut, ConnState
  <2> QED
    BY <2>2, <2>4, <2>6 DEF EndInv
<1>4. CASE Resume(c) \/ Replay(c) \/ EndReplay(c)
  BY <1>0, <1>4, EndConnStep
  DEF Resume, Replay, EndReplay, Ends, WayOut, ConnState
<1>5. CASE CloseConn(c) \/ SignalClosed(c) \/ AuthTimeout(c)
  BY <1>0, <1>5, EndConnStep
  DEF CloseConn, SignalClosed, AuthTimeout, Exited, Ends, WayOut, ConnState
<1>6. CASE HandshakeReadFails(c) \/ ReceiveFails(c)
  BY <1>0, <1>6, EndConnStep, ZenonT(60)
  DEF HandshakeReadFails, ReceiveFails, ReadError, Ends, WayOut, ConnState
<1>7. CASE ReaderSignals(c) \/ ReaderCloseReturns(c)
  BY <1>0, <1>7, EndConnStep
  DEF ReaderSignals, ReaderCloseReturns, Exited, Ends, WayOut, ConnState
<1>8. CASE ReadErrorArrives(c) \/ HeartSignals(c)
  BY <1>0, <1>8, EndConnStep, ZenonT(60)
  DEF ReadErrorArrives, HeartSignals, Ends, WayOut, ConnState
<1>9. CASE Connect(c) \/ PeerGone(c) \/ HeartbeatTimeout(c)
  BY <1>0, <1>9, EndConnStep, ZenonT(60)
  DEF Connect, PeerGone, HeartbeatTimeout, Ends, WayOut, ConnState
<1>10. CASE \E op \in ClientOps : ReceiveAtOnce(c, op)
  BY <1>0, <1>10, EndConnStep, ZenonT(60) DEF ReceiveAtOnce, Ends, WayOut, ConnState
<1>11. CASE ReadyFails(c)
  BY <1>11, EndKept DEF ReadyFails, sends, WokenFor, ReturnedFor
<1> QED
  BY <1>1, <1>2, <1>3, <1>4, <1>5, <1>6, <1>7, <1>8, <1>9, <1>10, <1>11
  DEF HandlerWork, HandlerLock, ReaderWork, HeartWork, Environment

LEMMA EndClose ==
  ASSUME TypeOK, EndInv, CloseServer \/ CloseWork \/ CloseLock
  PROVE  EndInv'
<1>0. conn \in [Conns -> ConnState] /\ close \in CloseState
  BY DEF TypeOK
<1>1. CASE CloseServer \/ CloseLock \/ CloseStore
  <2>1. /\ close'.target = close.target
        /\ close.pc \notin {"closeSend", "closeWait"}
        /\ post' = post /\ conn' = conn
    BY <1>0, <1>1
    DEF CloseServer, CloseLock, CloseStore, CloseState, sends
  <2> QED
    BY <2>1, EndKept DEF WokenFor, ReturnedFor
<1>2. CASE CloseNext
  <2>1. close'.pc = "closeSend" /\ post' = post /\ conn' = conn
    BY <1>0, <1>2 DEF CloseNext, CloseState, sends
  <2> QED
    BY <2>1, EndKept DEF WokenFor, ReturnedFor
<1>3. CASE CloseReturns
  <2>0. PICK t : t = close.target
    OBVIOUS
  <2>1. /\ close.pc = "closeWait" /\ conn[t].hasClosed
        /\ close'.target = t /\ close'.pc = "range" /\ post' = post
    BY <1>0, <1>3, <2>0 DEF CloseReturns, CloseState, sends
  <2>2. \A d \in Conns \ {t} : /\ WokenFor(d)' = WokenFor(d)
                               /\ ReturnedFor(d)' = ReturnedFor(d)
                               /\ conn'[d] = conn[d]
    BY <1>0, <1>3, <2>0, <2>1 DEF CloseReturns, WokenFor, ReturnedFor
  <2>3. CASE t \in Conns
    <3>1. conn'[t] = [conn[t] EXCEPT !.hasClosed = FALSE] /\ conn[t] \in ConnState
      BY <1>0, <1>3, <2>0, <2>3 DEF CloseReturns
    <3>2. Ends(conn[t], WokenFor(t), ReturnedFor(t)) /\ WokenFor(t)
      BY <2>0, <2>1, <2>3 DEF EndInv, WokenFor
    <3>3. Ends(conn'[t], WokenFor(t)', ReturnedFor(t)')
      BY <2>1, <3>1, <3>2 DEF Ends, ConnState
    <3> QED
      BY <2>2, <3>3 DEF EndInv
  <2>4. CASE t \notin Conns
    BY <2>2, <2>4 DEF EndInv
  <2> QED
    BY <2>3, <2>4
<1>4. ASSUME NEW c \in Conns, CloseSignals(c) PROVE EndInv'
  <2>1. /\ close.target = c /\ close'.target = c
        /\ close.pc = "closeSend" /\ close'.pc = "closeWait"
        /\ conn[c].handler = "wait" /\ post' = post
        /\ conn'[c] = [conn[c] EXCEPT !.handler = "leave"]
        /\ conn[c] \in ConnState
    BY <1>0, <1>4 DEF CloseSignals, Signalled, CloseState, sends
  <2>2. \A d \in Conns \ {c} : /\ WokenFor(d)' = WokenFor(d)
                               /\ ReturnedFor(d)' = ReturnedFor(d)
                               /\ conn'[d] = conn[d]
    BY <1>0, <1>4, <2>1 DEF CloseSignals, Signalled, WokenFor, ReturnedFor
  <2>3. ReturnedFor(c)' => ReturnedFor(c)
    BY <2>1 DEF ReturnedFor
  <2>4. Ends(conn[c], WokenFor(c), ReturnedFor(c))
    BY DEF EndInv
  <2>5. Ends(conn'[c], WokenFor(c)', ReturnedFor(c)')
    BY <2>1, <2>3, <2>4 DEF Ends, WayOut, ConnState
  <2> QED
    BY <2>2, <2>5 DEF EndInv
<1> QED
  BY <1>1, <1>2, <1>3, <1>4 DEF CloseWork

LEMMA EndStep == TypeOK /\ EndInv /\ [Next]_vars => EndInv'
<1> SUFFICES ASSUME TypeOK, EndInv, [Next]_vars PROVE EndInv'
  OBVIOUS
<1>1. ASSUME NEW e \in Sns, StartSend(e) PROVE EndInv'
  <2>1. /\ UNCHANGED <<conn, close>>
        /\ \A f \in Sns, d \in Conns :
             post'[f][d] \in {"closeWait", "nil"} => post'[f][d] = post[f][d]
    BY <1>1 DEF StartSend, TypeOK, others
  <2> QED
    BY <2>1, EndKept DEF WokenFor, ReturnedFor
<1>2. ASSUME NEW e \in Sns, SendWork(e) \/ SendLock(e) PROVE EndInv'
  <2>1. /\ UNCHANGED <<conn, post>>
        /\ close'.target = close.target /\ close'.pc = close.pc
    BY <1>2 DEF SendWork, EndPosting, PostHook, SendStore, SendLock, TypeOK,
                CloseState, others
  <2> QED
    BY <2>1, EndKept DEF WokenFor, ReturnedFor
<1>3. ASSUME NEW u \in Hooks,
             ApiWork(u) \/ \E op \in {"create", "delete"} : ApiLock(u, op)
      PROVE  EndInv'
  <2>1. UNCHANGED <<conn, post, close>>
    BY <1>3 DEF ApiWork, CreateWebHook, DeleteWebHook, ApiReturns, ApiLock,
                sends
  <2> QED
    BY <2>1, EndKept DEF WokenFor, ReturnedFor
<1>4. CASE UNCHANGED vars
  BY <1>4, EndKept DEF vars, sends, others, WokenFor, ReturnedFor
<1> QED
  BY <1>1, <1>2, <1>3, <1>4, EndPost, EndConn, EndClose DEF Next

(* Whoever called it, ws.Close() returns only after the handler has ended   *)
(* and its connection is closed or had been left by the client.             *)
THEOREM CloseMeansEndedCorrect == Spec => []CloseMeansEnded
<1>1. Init => EndInv
  <2> SUFFICES ASSUME Init, NEW c \in Conns
               PROVE  Ends(conn[c], WokenFor(c), ReturnedFor(c))
    BY DEF EndInv
  <2>1. ~WokenFor(c) /\ ~ReturnedFor(c)
    BY ServerAssumption DEF Init, WokenFor, ReturnedFor, NoConn
  <2>2. conn[c] = NewConn
    BY DEF Init
  <2> QED
    BY <2>1, <2>2 DEF Ends, NewConn
<1>2. EndInv => CloseMeansEnded
  <2> SUFFICES ASSUME EndInv, NEW c \in Conns, CloseReturned(c)
               PROVE  conn[c].handler = "exit" /\ (conn[c].closed \/ conn[c].gone)
    BY DEF CloseMeansEnded
  <2>1. Ends(conn[c], WokenFor(c), ReturnedFor(c))
    BY DEF EndInv
  <2>2. \/ WokenFor(c) /\ ReturnedFor(c)
        \/ conn[c].reader = "closed"
    BY DEF CloseReturned, WokenFor, ReturnedFor
  <2> QED
    BY <2>1, <2>2 DEF Ends
<1> QED
  BY <1>1, <1>2, TypeCorrect, EndStep, PTL DEF Spec
-----------------------------------------------------------------------------
(***************************************************************************)
(* Registrations.  A connection is in the list, or in the results of a     *)
(* Send, only after its handler has registered it, which happens once; and *)
(* each result of a Send comes from the one goroutine posting to it.       *)
(***************************************************************************)
LEMMA AppendOnce ==
  ASSUME NEW S, NEW s \in Seq(S), NEW x \in S, IsInjective(s), x \notin ToSet(s)
  PROVE  IsInjective(Append(s, x)) /\ ToSet(Append(s, x)) = ToSet(s) \cup {x}
<1>1. /\ Len(s) \in Nat /\ DOMAIN s = 1 .. Len(s)
      /\ DOMAIN Append(s, x) = 1 .. Len(s) + 1
      /\ \A i \in 1 .. Len(s) : Append(s, x)[i] = s[i]
      /\ Append(s, x)[Len(s) + 1] = x
  BY AppendProperties, LenProperties
<1>2. \A i \in 1 .. Len(s) + 1 : i \in 1 .. Len(s) \/ i = Len(s) + 1
  BY <1>1
<1>3. Len(s) + 1 \in 1 .. Len(s) + 1 /\ 1 .. Len(s) \subseteq 1 .. Len(s) + 1
  BY <1>1
<1>4. ToSet(s) = {s[i] : i \in 1 .. Len(s)}
  BY <1>1 DEF ToSet
<1>5. ToSet(Append(s, x)) = {Append(s, x)[i] : i \in 1 .. Len(s) + 1}
  BY <1>1 DEF ToSet
<1>6. ToSet(Append(s, x)) = ToSet(s) \cup {x}
  BY <1>1, <1>2, <1>3, <1>4, <1>5
<1>7. IsInjective(Append(s, x))
  BY <1>1, <1>2, <1>4 DEF IsInjective
<1> QED
  BY <1>6, <1>7

LEMMA RemoveAtOnce ==
  ASSUME NEW S, NEW s \in Seq(S), NEW i \in DOMAIN s, IsInjective(s)
  PROVE  IsInjective(RemoveAt(s, i)) /\ ToSet(RemoveAt(s, i)) \subseteq ToSet(s)
<1> DEFINE r == RemoveAt(s, i)
           old(k) == IF k < i THEN k ELSE k + 1
<1>1. /\ Len(s) \in Nat /\ DOMAIN s = 1 .. Len(s) /\ i \in 1 .. Len(s)
      /\ DOMAIN r = 1 .. Len(s) - 1
      /\ \A k \in 1 .. Len(s) - 1 : r[k] = s[old(k)]
  BY RemoveAtProperties, LenProperties
<1>2. /\ \A k \in 1 .. Len(s) - 1 : old(k) \in 1 .. Len(s)
      /\ \A k, l \in 1 .. Len(s) - 1 : old(k) = old(l) => k = l
  BY <1>1
<1> HIDE DEF r, old
<1>3. ASSUME NEW k \in DOMAIN r, NEW l \in DOMAIN r, r[k] = r[l]
      PROVE  k = l
  <2>1. old(k) \in DOMAIN s /\ old(l) \in DOMAIN s /\ s[old(k)] = s[old(l)]
    BY <1>1, <1>2, <1>3
  <2> QED
    BY <1>1, <1>2, <2>1 DEF IsInjective
<1>4. ASSUME NEW k \in DOMAIN r PROVE r[k] \in ToSet(s)
  BY <1>1, <1>2 DEF ToSet
<1> QED
  BY <1>3, <1>4 DEF r, IsInjective, ToSet

LEMMA EmptyOnce == IsInjective(<< >>) /\ ToSet(<< >>) = {}
BY DEF IsInjective, ToSet

Placed == {"resume", "replay", "wait", "leave", "leaving", "close", "signal",
           "exit"}

ListsOnce ==
  /\ IsInjective(websockets) /\ IsInjective(webhooks)
  /\ \A c \in ToSet(websockets) : conn[c].handler \in Placed

ResultsOnce(e) ==
  /\ IsInjective(send[e].ws) /\ IsInjective(send[e].wh)
  /\ \A c \in ToSet(send[e].ws) : post[e][c] = "ok"
  /\ \A u \in ToSet(send[e].wh) : hook[e][u] = "done"
  /\ \A c \in Conns : post[e][c] # "none" => conn[c].handler \in Placed
  /\ send[e].pc = "idle" =>
       /\ send[e].ws = << >> /\ send[e].wh = << >>
       /\ \A c \in Conns : post[e][c] = "none"
       /\ \A u \in Hooks : hook[e][u] = "none"

RegInv == ListsOnce /\ \A e \in Sns : ResultsOnce(e)

(* A step of the connections alone: those that are placed stay so.          *)
LEMMA PlacedStep ==
  ASSUME TypeOK, RegInv, UNCHANGED <<websockets, webhooks, send, post, hook>>,
         \A c \in Conns : conn[c].handler \in Placed => conn'[c].handler \in Placed
  PROVE  RegInv'
<1>1. ToSet(websockets) \subseteq Conns
  BY LenProperties, ElementOfSeq DEF TypeOK, ToSet
<1> QED
  BY <1>1 DEF RegInv, ListsOnce, ResultsOnce

LEMMA ConnPlaced ==
  ASSUME TypeOK, RegInv, NEW c \in Conns, NEW state, ConnStep(c, state),
         conn[c].handler \in Placed => state.handler \in Placed
  PROVE  RegInv'
<1>1. \A d \in Conns : conn[d].handler \in Placed => conn'[d].handler \in Placed
  BY DEF ConnStep, TypeOK
<1> QED
  BY <1>1, PlacedStep DEF ConnStep, server, sends

LEMMA PlacedPost ==
  ASSUME TypeOK, RegInv, NEW e \in Sns, NEW c \in Conns, PostWork(e, c)
  PROVE  RegInv'
<1>0. /\ conn \in [Conns -> ConnState] /\ conn[c] \in ConnState
      /\ post \in [Sns -> [Conns -> PostPcs]]
      /\ send \in [Sns -> SendState]
      /\ send[e].ws \in Seq(Conns) /\ ToSet(websockets) \subseteq Conns
  BY LenProperties, ElementOfSeq DEF TypeOK, SendState, ToSet
<1>1. /\ websockets' = websockets /\ webhooks' = webhooks /\ hook' = hook
      /\ \A f \in Sns \ {e} : send'[f] = send[f] /\ post'[f] = post[f]
      /\ \A d \in Conns \ {c} : post'[e][d] = post[e][d]
      /\ send'[e].pc = send[e].pc /\ send'[e].wh = send[e].wh
      /\ post[e][c] # "none" /\ post'[e][c] # "none"
  BY <1>0 DEF PostWork, PostSucceeds, PostFails, PostSignals,
              PostCloseReturns, SendState, server
<1>2. \A d \in Conns : conn[d].handler \in Placed => conn'[d].handler \in Placed
  <2>1. \A d \in Conns \ {c} : conn'[d] = conn[d]
    BY <1>0 DEF PostWork, PostSucceeds, PostFails, PostSignals, Signalled,
                PostCloseReturns
  <2>2. CASE PostSucceeds(e, c) \/ PostFails(e, c) \/ PostCloseReturns(e, c)
    <3>1. conn'[c].handler = conn[c].handler
      BY <1>0, <2>2 DEF PostSucceeds, PostFails, PostCloseReturns, ConnState
    <3> QED
      BY <2>1, <3>1
  <2>3. CASE PostSignals(e, c)
    <3>1. conn'[c].handler = "leave"
      BY <1>0, <2>3 DEF PostSignals, Signalled, ConnState
    <3> QED
      BY <2>1, <3>1 DEF Placed
  <2> QED
    BY <2>2, <2>3 DEF PostWork
<1>3. ListsOnce'
  BY <1>0, <1>1, <1>2 DEF RegInv, ListsOnce
<1>4. send[e].pc # "idle" /\ conn[c].handler \in Placed
  BY <1>1 DEF RegInv, ResultsOnce
<1>5. /\ IsInjective(send'[e].ws)
      /\ \A d \in ToSet(send'[e].ws) : post'[e][d] = "ok"
  <2>1. /\ IsInjective(send[e].ws)
        /\ \A d \in ToSet(send[e].ws) : post[e][d] = "ok"
        /\ ToSet(send[e].ws) \subseteq Conns
    BY <1>0, LenProperties, ElementOfSeq DEF RegInv, ResultsOnce, ToSet
  <2>2. CASE PostSucceeds(e, c)
    <3>1. /\ send'[e].ws = Append(send[e].ws, c)
          /\ post[e][c] = "post" /\ post'[e][c] = "ok"
      BY <1>0, <2>2 DEF PostSucceeds, SendState
    <3>2. c \notin ToSet(send[e].ws)
      BY <2>1, <3>1
    <3> QED
      BY <1>0, <1>1, <2>1, <3>1, <3>2, AppendOnce
  <2>3. CASE ~PostSucceeds(e, c)
    <3>1. send'[e].ws = send[e].ws /\ post[e][c] # "ok"
      BY <1>0, <2>3 DEF PostWork, PostFails, PostSignals, PostCloseReturns,
                        SendState
    <3> QED
      BY <1>1, <2>1, <3>1
  <2> QED
    BY <2>2, <2>3
<1>6. ResultsOnce(e)'
  BY <1>1, <1>2, <1>4, <1>5 DEF RegInv, ResultsOnce
<1>7. \A f \in Sns \ {e} : ResultsOnce(f)'
  BY <1>1, <1>2 DEF RegInv, ResultsOnce
<1> QED
  BY <1>3, <1>6, <1>7 DEF RegInv

LEMMA PlacedSend ==
  ASSUME TypeOK, RegInv, NEW e \in Sns,
         StartSend(e) \/ SendWork(e) \/ SendLock(e)
  PROVE  RegInv'
<1>0. /\ post \in [Sns -> [Conns -> PostPcs]]
      /\ hook \in [Sns -> [Hooks -> HookPcs]]
      /\ send \in [Sns -> SendState]
      /\ send[e].ws \in Seq(Conns) /\ send[e].wh \in Seq(Hooks)
      /\ websockets \in Seq(Conns)
      /\ ToSet(websockets) \subseteq Conns /\ ToSet(send[e].ws) \subseteq Conns
      /\ ToSet(send[e].wh) \subseteq Hooks
  BY LenProperties, ElementOfSeq DEF TypeOK, SendState, ToSet
<1>1. /\ conn' = conn
      /\ \A f \in Sns \ {e} :
           send'[f] = send[f] /\ post'[f] = post[f] /\ hook'[f] = hook[f]
  BY <1>0 DEF StartSend, SendWork, EndPosting, PostHook, SendStore, SendLock
<1>2. \A f \in Sns \ {e} : ResultsOnce(f)'
  BY <1>1 DEF RegInv, ResultsOnce
<1>3. CASE StartSend(e)
  <2>1. /\ send[e].ws = << >> /\ send[e].wh = << >>
        /\ send'[e].ws = << >> /\ send'[e].wh = << >>
        /\ send'[e].pc = "posting"
    BY <1>0, <1>3 DEF StartSend, RegInv, ResultsOnce, SendState
  <2>2. \A c \in Conns : post'[e][c] # "none" => c \in ToSet(websockets)
    BY <1>0, <1>3 DEF StartSend
  <2>3. ResultsOnce(e)'
    BY <1>1, <2>1, <2>2, EmptyOnce DEF RegInv, ListsOnce, ResultsOnce
  <2> QED
    BY <1>1, <1>2, <1>3, <2>3 DEF StartSend, RegInv, ListsOnce
<1>4. CASE EndPosting(e) \/ SendLock(e)
  <2>1. /\ send'[e].ws = send[e].ws /\ send'[e].wh = send[e].wh
        /\ send'[e].pc # "idle"
        /\ post' = post /\ hook' = hook
        /\ websockets' = websockets /\ webhooks' = webhooks
    BY <1>0, <1>4 DEF EndPosting, SendLock, SendState, server
  <2> QED
    BY <1>1, <1>2, <2>1 DEF RegInv, ListsOnce, ResultsOnce
<1>5. CASE SendStore(e)
  <2>1. /\ websockets' = send[e].ws /\ webhooks' = send[e].wh
        /\ send'[e].ws = << >> /\ send'[e].wh = << >> /\ send'[e].pc = "done"
        /\ post' = post /\ hook' = hook
    BY <1>0, <1>5 DEF SendStore, Survivors
  <2>2. ListsOnce'
    BY <1>0, <1>1, <2>1 DEF RegInv, ListsOnce, ResultsOnce
  <2>3. ResultsOnce(e)'
    BY <1>1, <2>1, EmptyOnce DEF RegInv, ResultsOnce
  <2> QED
    BY <1>2, <2>2, <2>3 DEF RegInv
<1>6. ASSUME NEW u \in Hooks, PostHook(e, u) PROVE RegInv'
  <2>1. /\ websockets' = websockets /\ webhooks' = webhooks /\ post' = post
        /\ hook[e][u] = "post" /\ hook'[e][u] = "done"
        /\ \A v \in Hooks \ {u} : hook'[e][v] = hook[e][v]
        /\ send'[e].ws = send[e].ws /\ send'[e].pc = send[e].pc
        /\ send'[e].wh = send[e].wh \/ send'[e].wh = Append(send[e].wh, u)
    BY <1>0, <1>6 DEF PostHook, SendState, server
  <2>2. send[e].pc # "idle"
    BY <2>1 DEF RegInv, ResultsOnce
  <2>3. IsInjective(send[e].wh) /\ u \notin ToSet(send[e].wh)
    BY <2>1 DEF RegInv, ResultsOnce
  <2>4. /\ IsInjective(send'[e].wh)
        /\ \A v \in ToSet(send'[e].wh) : hook'[e][v] = "done"
    <3>1. ASSUME NEW v \in ToSet(send[e].wh) PROVE hook'[e][v] = "done"
      <4>1. v \in Hooks /\ v # u /\ hook[e][v] = "done"
        BY <1>0, <2>3 DEF RegInv, ResultsOnce
      <4> QED
        BY <2>1, <4>1
    <3>2. CASE send'[e].wh = send[e].wh
      BY <2>3, <3>1, <3>2
    <3>3. CASE send'[e].wh = Append(send[e].wh, u)
      <4>1. /\ IsInjective(Append(send[e].wh, u))
            /\ ToSet(Append(send[e].wh, u)) = ToSet(send[e].wh) \cup {u}
        BY <1>0, <2>3, AppendOnce
      <4> QED
        BY <2>1, <3>1, <3>3, <4>1
    <3> QED
      BY <2>1, <3>2, <3>3
  <2>5. ResultsOnce(e)'
    BY <1>1, <2>1, <2>2, <2>4 DEF RegInv, ResultsOnce
  <2> QED
    BY <1>1, <1>2, <2>1, <2>5 DEF RegInv, ListsOnce
<1> QED
  BY <1>3, <1>4, <1>5, <1>6 DEF SendWork

LEMMA PlacedConn ==
  ASSUME TypeOK, RegInv, NEW c \in Conns,
         \/ HandlerWork(c) \/ HandlerLock(c) \/ AuthTimeout(c)
         \/ ReaderWork(c) \/ HeartWork(c) \/ Environment(c)
  PROVE  RegInv'
<1>0. conn \in [Conns -> ConnState] /\ conn[c] \in ConnState
  BY DEF TypeOK
<1>1. CASE Refuse(c) \/ SkipIdentify(c) \/ \E n \in {0} \cup Sns : Identify(c, n)
  BY <1>0, <1>1, ConnPlaced
  DEF Refuse, SkipIdentify, Identify, Takes, Placed, ConnState
<1>2. CASE RegisterLock(c) \/ LeaveLock(c)
  BY <1>0, <1>2, ConnPlaced
  DEF RegisterLock, LeaveLock, Leaving, Placed, ConnState
<1>3. CASE Resume(c) \/ Replay(c) \/ EndReplay(c)
  BY <1>0, <1>3, ConnPlaced DEF Resume, Replay, EndReplay, Placed, ConnState
<1>4. CASE CloseConn(c) \/ SignalClosed(c) \/ AuthTimeout(c)
  BY <1>0, <1>4, ConnPlaced
  DEF CloseConn, SignalClosed, AuthTimeout, Exited, Placed, ConnState
<1>5. CASE HandshakeReadFails(c) \/ ReceiveFails(c) \/ ReaderCloseReturns(c)
  BY <1>0, <1>5, ConnPlaced
  DEF HandshakeReadFails, ReceiveFails, ReadError, ReaderCloseReturns, ConnState
<1>6. CASE ReaderSignals(c) \/ ReadErrorArrives(c) \/ HeartSignals(c)
  BY <1>0, <1>6, ConnPlaced
  DEF ReaderSignals, Exited, ReadErrorArrives, HeartSignals, Placed, ConnState
<1>7. CASE Connect(c) \/ PeerGone(c) \/ HeartbeatTimeout(c)
  BY <1>0, <1>7, ConnPlaced
  DEF Connect, PeerGone, HeartbeatTimeout, Placed, ConnState
<1>8. CASE \E op \in ClientOps : ReceiveAtOnce(c, op)
  BY <1>0, <1>8, ConnPlaced DEF ReceiveAtOnce, ConnState
<1>9. CASE ReadyFails(c)
  BY <1>9, PlacedStep DEF ReadyFails, server, sends
<1>10. CASE Register(c) \/ Unregister(c)
  <2>1. /\ ToSet(websockets) \subseteq Conns /\ websockets \in Seq(Conns)
        /\ webhooks' = webhooks /\ send' = send /\ post' = post /\ hook' = hook
    BY <1>10, LenProperties, ElementOfSeq
    DEF Register, Unregister, TypeOK, ToSet, sends
  <2>2. PICK pc \in {"resume", "wait", "close"} :
          conn' = [conn EXCEPT ![c].handler = pc]
    BY <1>10 DEF Register, Unregister
  <2>3. /\ conn'[c].handler \in Placed
        /\ \A d \in Conns : conn[d].handler \in Placed => conn'[d].handler \in Placed
    <3>1. conn'[c].handler = pc /\ \A d \in Conns \ {c} : conn'[d] = conn[d]
      BY <1>0, <2>2 DEF ConnState
    <3> QED
      BY <3>1 DEF Placed
  <2>4. /\ IsInjective(websockets')
        /\ ToSet(websockets') \subseteq ToSet(websockets) \cup {c}
    <3>1. CASE Register(c)
      <4>1. c \notin ToSet(websockets) /\ websockets' = Append(websockets, c)
        BY <3>1 DEF Register, RegInv, ListsOnce, Placed
      <4> QED
        BY <2>1, <4>1, AppendOnce DEF RegInv, ListsOnce
    <3>2. CASE Unregister(c)
      BY <2>1, <3>2, RemoveAtOnce DEF Unregister, RegInv, ListsOnce
    <3> QED
      BY <1>10, <3>1, <3>2
  <2> QED
    BY <2>1, <2>3, <2>4 DEF RegInv, ListsOnce, ResultsOnce
<1> QED
  BY <1>1, <1>2, <1>3, <1>4, <1>5, <1>6, <1>7, <1>8, <1>9, <1>10
  DEF HandlerWork, HandlerLock, ReaderWork, HeartWork, Environment

LEMMA PlacedClose ==
  ASSUME TypeOK, RegInv, CloseServer \/ CloseWork \/ CloseLock
  PROVE  RegInv'
<1>0. conn \in [Conns -> ConnState]
  BY DEF TypeOK
<1>1. CASE CloseServer \/ CloseNext \/ CloseLock
  BY <1>1, PlacedStep DEF CloseServer, CloseNext, CloseLock, server, sends
<1>2. CASE CloseReturns
  <2>1. PICK t : conn' = [conn EXCEPT ![t].hasClosed = FALSE]
    BY <1>2 DEF CloseReturns
  <2>2. \A d \in Conns : conn'[d].handler = conn[d].handler
    BY <1>0, <2>1 DEF ConnState
  <2> QED
    BY <1>2, <2>2, PlacedStep DEF CloseReturns, server, sends
<1>3. ASSUME NEW c \in Conns, CloseSignals(c) PROVE RegInv'
  <2>1. conn' = [conn EXCEPT ![c].handler = "leave"]
    BY <1>3 DEF CloseSignals, Signalled
  <2>2. \A d \in Conns : conn[d].handler \in Placed => conn'[d].handler \in Placed
    BY <1>0, <2>1 DEF ConnState, Placed
  <2> QED
    BY <1>3, <2>2, PlacedStep DEF CloseSignals, server, sends
<1>4. CASE CloseStore
  BY <1>4, EmptyOnce DEF CloseStore, sends, RegInv, ListsOnce, ResultsOnce
<1> QED
  BY <1>1, <1>2, <1>3, <1>4 DEF CloseWork

LEMMA RegStep == TypeOK /\ RegInv /\ [Next]_vars => RegInv'
<1> SUFFICES ASSUME TypeOK, RegInv, [Next]_vars PROVE RegInv'
  OBVIOUS
<1>1. ASSUME NEW u \in Hooks, NEW op \in {"create", "delete"}, ApiLock(u, op)
      PROVE  RegInv'
  BY <1>1, PlacedStep DEF ApiLock, server, sends
<1>2. ASSUME NEW u \in Hooks, ApiWork(u) PROVE RegInv'
  <2>1. UNCHANGED <<websockets, send, post, hook, conn>>
    BY <1>2 DEF ApiWork, CreateWebHook, DeleteWebHook, ApiReturns, sends
  <2>2. IsInjective(webhooks')
    <3>1. webhooks \in Seq(Hooks) /\ IsInjective(webhooks)
      BY DEF TypeOK, RegInv, ListsOnce
    <3>2. CASE CreateWebHook(u)
      BY <3>1, <3>2, AppendOnce DEF CreateWebHook
    <3>3. CASE DeleteWebHook(u)
      BY <3>1, <3>3, RemoveAtOnce DEF DeleteWebHook
    <3> QED
      BY <1>2, <3>2, <3>3 DEF ApiWork
  <2> QED
    BY <2>1, <2>2 DEF RegInv, ListsOnce, ResultsOnce
<1>3. CASE UNCHANGED vars
  BY <1>3, PlacedStep DEF vars, server, sends
<1> QED
  BY <1>1, <1>2, <1>3, PlacedPost, PlacedSend, PlacedConn, PlacedClose DEF Next

(* No connection and no webhook is ever registered twice, whatever          *)
(* registers, leaves and is written back by Sends in between.               *)
THEOREM RegisteredOnceCorrect == Spec => []RegisteredOnce
<1>1. Init => RegInv
  BY EmptyOnce DEF Init, RegInv, ListsOnce, ResultsOnce
<1>2. RegInv => RegisteredOnce
  BY DEF RegInv, ListsOnce, RegisteredOnce
<1> QED
  BY <1>1, <1>2, TypeCorrect, RegStep, PTL DEF Spec
-----------------------------------------------------------------------------
(***************************************************************************)
(* The queue inside the server                                             *)
(***************************************************************************)
(* An event is pushed by the one call Server.Send(e).                       *)
PushedOnce == \A e \in Sns : send[e].pc = "idle" => e \notin ToSet(pushed)

LEMMA QueueStep ==
  TypeOK /\ PushedOnce /\ [Next]_vars =>
    PushedOnce' /\ [Queue!Next]_<<Events, pushed>>
<1> SUFFICES ASSUME TypeOK, PushedOnce, [Next]_vars
             PROVE  PushedOnce' /\ [Queue!Next]_<<Events, pushed>>
  OBVIOUS
<1>0. send \in [Sns -> SendState] /\ pushed \in Seq(Sns)
  BY DEF TypeOK
<1>1. ASSUME NEW e \in Sns, StartSend(e)
      PROVE  PushedOnce' /\ [Queue!Next]_<<Events, pushed>>
  <2>1. /\ Events' = Queue!Pushed(Events, e) /\ pushed' = Append(pushed, e)
        /\ e \notin ToSet(pushed)
    BY <1>1 DEF StartSend, EventsAfter, PushedOnce
  <2>2. Queue!PushEvent(e)
    BY <2>1 DEF Queue!PushEvent, Queue!Elements, ToSet
  <2>3. send'[e].pc = "posting" /\ \A f \in Sns \ {e} : send'[f] = send[f]
    BY <1>0, <1>1 DEF StartSend, SendState
  <2>4. \A f \in Sns \ {e} : f \notin ToSet(pushed) => f \notin ToSet(pushed')
    <3>1. /\ Len(pushed) \in Nat /\ DOMAIN pushed = 1 .. Len(pushed)
          /\ DOMAIN pushed' = 1 .. Len(pushed) + 1
          /\ \A i \in 1 .. Len(pushed) : pushed'[i] = pushed[i]
          /\ pushed'[Len(pushed) + 1] = e
      BY <1>0, <2>1, AppendProperties, LenProperties
    <3>2. \A i \in 1 .. Len(pushed) + 1 : i \in 1 .. Len(pushed) \/ i = Len(pushed) + 1
      BY <3>1
    <3> QED
      BY <3>1, <3>2 DEF ToSet
  <2>5. PushedOnce'
    BY <2>3, <2>4 DEF PushedOnce
  <2> QED
    BY <2>2, <2>5 DEF Queue!Next
<1>2. ASSUME UNCHANGED <<Events, pushed>>,
             \A f \in Sns : send'[f].pc = "idle" => send[f].pc = "idle"
      PROVE  PushedOnce' /\ [Queue!Next]_<<Events, pushed>>
  BY <1>2 DEF PushedOnce
<1>3. ASSUME NEW e \in Sns, SendWork(e) \/ SendLock(e)
      PROVE  PushedOnce' /\ [Queue!Next]_<<Events, pushed>>
  <2>1. UNCHANGED <<Events, pushed>>
    BY <1>3 DEF SendWork, EndPosting, PostHook, SendStore, SendLock, server
  <2>2. \A f \in Sns : send'[f].pc = "idle" => send[f].pc = "idle"
    <3>1. CASE EndPosting(e) \/ SendLock(e)
      <4>1. PICK pc \in {"collected", "storing"} :
              send' = [send EXCEPT ![e].pc = pc]
        BY <3>1 DEF EndPosting, SendLock
      <4> QED
        BY <1>0, <4>1 DEF SendState
    <3>2. CASE SendStore(e)
      BY <1>0, <3>2 DEF SendStore, SendState
    <3>3. CASE \E u \in Hooks : PostHook(e, u)
      <4>1. CASE UNCHANGED send
        BY <4>1
      <4>2. CASE \E wh : send' = [send EXCEPT ![e].wh = wh]
        BY <1>0, <4>2 DEF SendState
      <4> QED
        BY <3>3, <4>1, <4>2 DEF PostHook
    <3> QED
      BY <1>3, <3>1, <3>2, <3>3 DEF SendWork
  <2> QED
    BY <2>1, <2>2, <1>2
<1>4. ASSUME NEW e \in Sns, NEW c \in Conns, PostWork(e, c)
      PROVE  PushedOnce' /\ [Queue!Next]_<<Events, pushed>>
  <2>1. UNCHANGED <<Events, pushed>>
    BY <1>4 DEF PostWork, PostSucceeds, PostFails, PostSignals,
                PostCloseReturns, server
  <2>2. \A f \in Sns : send'[f].pc = send[f].pc
    <3>1. CASE \E ws : send' = [send EXCEPT ![e].ws = ws]
      BY <1>0, <3>1 DEF SendState
    <3>2. CASE UNCHANGED send
      BY <3>2
    <3> QED
      BY <1>4, <3>1, <3>2
      DEF PostWork, PostSucceeds, PostFails, PostSignals, PostCloseReturns
  <2> QED
    BY <2>1, <2>2, <1>2
<1>5. ASSUME NEW c \in Conns,
             \/ HandlerWork(c) \/ HandlerLock(c) \/ AuthTimeout(c)
             \/ ReaderWork(c) \/ HeartWork(c) \/ Environment(c)
      PROVE  PushedOnce' /\ [Queue!Next]_<<Events, pushed>>
  BY <1>2, <1>5
  DEF HandlerWork, Refuse, SkipIdentify, Identify, Register, Resume, Replay,
      EndReplay, Unregister, CloseConn, SignalClosed, HandlerLock,
      RegisterLock, LeaveLock, AuthTimeout, ReaderWork, HandshakeReadFails,
      ReceiveFails, ReaderSignals, ReaderCloseReturns, HeartWork,
      ReadErrorArrives, HeartSignals, Environment, Connect, PeerGone,
      HeartbeatTimeout, ReadyFails, ReceiveAtOnce, ConnStep, server, sends
<1>6. ASSUME NEW u \in Hooks,
             ApiWork(u) \/ \E op \in {"create", "delete"} : ApiLock(u, op)
      PROVE  PushedOnce' /\ [Queue!Next]_<<Events, pushed>>
  BY <1>2, <1>6 DEF ApiWork, CreateWebHook, DeleteWebHook, ApiReturns, ApiLock,
                    server, sends
<1>7. CASE CloseServer \/ CloseWork \/ CloseLock
  BY <1>2, <1>7 DEF CloseServer, CloseWork, CloseNext, CloseReturns,
                    CloseSignals, CloseStore, CloseLock, server, sends
<1>8. CASE UNCHANGED vars
  BY <1>2, <1>8 DEF vars, server, sends
<1> QED
  BY <1>1, <1>3, <1>4, <1>5, <1>6, <1>7, <1>8 DEF Next

(* The server uses its queue as module EventQueue describes it: every step  *)
(* pushes a new event or leaves the queue alone.                            *)
LEMMA QueueInside == Spec => Queue!Spec
<1>1. Init => PushedOnce /\ Queue!Init
  BY DEF Init, PushedOnce, ToSet, Queue!Init
<1> QED
  BY <1>1, TypeCorrect, QueueStep, PTL
  DEF Spec, Queue!Spec, Queue!vars

(* So what is proved of the queue holds inside the server: at any moment a  *)
(* client whose last event is retained would be resumed with exactly what   *)
(* was pushed after it.                                                     *)
THEOREM ResumeExactCorrect == Spec => []Queue!ResumeExact
<1>1. QueueProofs!CapacityAssumption
  BY ServerAssumption DEF QueueProofs!CapacityAssumption
<1>2. QueueProofs!Spec => []QueueProofs!ResumeExact
  BY <1>1, QueueProofs!ResumeExactCorrect
<1>3. Queue!Init => QueueProofs!Init
  BY DEF Queue!Init, QueueProofs!Init
<1>4. [Queue!Next]_<<Events, pushed>> => [QueueProofs!Next]_<<Events, pushed>>
  BY DEF Queue!Next, Queue!PushEvent, Queue!Elements, Queue!Pushed,
         Queue!PopEvent, Queue!Clear, QueueProofs!Next,
         QueueProofs!PushEvent, QueueProofs!Elements, QueueProofs!Pushed,
         QueueProofs!PopEvent, QueueProofs!Clear
<1>5. QueueProofs!ResumeExact => Queue!ResumeExact
  BY DEF Queue!ResumeExact, Queue!Elements, Queue!Resumed, Queue!Min,
         QueueProofs!ResumeExact, QueueProofs!Elements, QueueProofs!Resumed,
         QueueProofs!Min
<1> QED
  BY <1>2, <1>3, <1>4, <1>5, QueueInside, PTL
  DEF Queue!Spec, Queue!vars, QueueProofs!Spec,
      QueueProofs!vars
-----------------------------------------------------------------------------
(***************************************************************************)
(* What a client is sent: nothing twice, unless it resumes, and without a  *)
(* gap if it does.                                                         *)
(***************************************************************************)
(* Nothing is written to a client before it is answered READY; what a client *)
(* that does not resume has, it has of the goroutine that posted it.         *)
Once(c, s) ==
  /\ s.handler \in {"idle", "auth"} => s.got = << >>
  /\ s.handler \in {"resume", "replay"} => s.sn # 0
  /\ s.sn = 0 => /\ IsInjective(s.got)
                 /\ \A m \in ToSet(s.got) : m # READY => post[m][c] = "ok"

(* An event reaches the client, or is on its way to it.                      *)
Reaches(c, s, e) ==
  \/ e \in ToSet(s.got)
  \/ post[e][c] = "post"
  \/ s.handler = "replay" /\ e \in ToSet(s.backlog)

(* From the registration on, the connection is in the list, so that new      *)
(* events are posted to it; from ResumeEvents on, the older ones reach it    *)
(* too.  Its socket is closed only after it has left the list.               *)
HandedOver(c, s) ==
  /\ s.closed => s.handler \in {"signal", "exit"}
  /\ s.handler \in {"resume", "replay", "wait"} /\ c \notin overwritten
       /\ close.pc # "done" => c \in ToSet(websockets)
  /\ s.handler \in {"replay", "wait"} /\ ~s.gone /\ c \notin overwritten
       /\ s.sn # 0 /\ s.sn \in ToSet(Events) =>
     \A i, j \in DOMAIN pushed :
       i < j /\ pushed[i] = s.sn => Reaches(c, s, pushed[j])

ResumeInv == \A c \in Conns : Once(c, conn[c]) /\ HandedOver(c, conn[c])

(* What the proof takes from the other invariants.                           *)
ServerInv == TypeOK /\ RegInv /\ PushedOnce /\ Queue!ResumeExact
-----------------------------------------------------------------------------
LEMMA ServerInvariant == Spec => []ServerInv
<1>1. Init => RegInv /\ PushedOnce
  BY EmptyOnce DEF Init, RegInv, ListsOnce, ResultsOnce, PushedOnce, ToSet
<1>2. TypeOK /\ RegInv /\ PushedOnce /\ [Next]_vars => RegInv' /\ PushedOnce'
  BY RegStep, QueueStep
<1> QED
  BY <1>1, <1>2, TypeCorrect, ResumeExactCorrect, PTL DEF Spec, ServerInv

(* A sequence from its head and its tail.                                    *)
LEMMA HeadOrTail ==
  ASSUME NEW S, NEW s \in Seq(S), s # << >>
  PROVE  \A e \in ToSet(s) : e = Head(s) \/ e \in ToSet(Tail(s))
<1>1. /\ Len(s) \in Nat \ {0} /\ DOMAIN s = 1 .. Len(s)
      /\ Head(s) = s[1]
      /\ Tail(s) \in Seq(S) /\ Len(Tail(s)) = Len(s) - 1
      /\ \A i \in 1 .. Len(Tail(s)) : Tail(s)[i] = s[i + 1]
  BY HeadTailProperties, LenProperties, EmptySeq
<1>2. DOMAIN Tail(s) = 1 .. Len(s) - 1
  BY <1>1, LenProperties
<1>3. ASSUME NEW i \in 1 .. Len(s), i # 1 PROVE s[i] \in ToSet(Tail(s))
  <2>1. i - 1 \in 1 .. Len(s) - 1 /\ Tail(s)[i - 1] = s[i]
    BY <1>1, <1>3
  <2> QED BY <1>2, <2>1 DEF ToSet
<1> QED BY <1>1, <1>3 DEF ToSet

LEMMA AppendHas ==
  ASSUME NEW S, NEW s \in Seq(S), NEW x \in S
  PROVE  ToSet(Append(s, x)) = ToSet(s) \cup {x}
<1>1. /\ Len(s) \in Nat /\ DOMAIN s = 1 .. Len(s)
      /\ DOMAIN Append(s, x) = 1 .. Len(s) + 1
      /\ \A i \in 1 .. Len(s) : Append(s, x)[i] = s[i]
      /\ Append(s, x)[Len(s) + 1] = x
  BY AppendProperties, LenProperties
<1>2. \A i \in 1 .. Len(s) + 1 : i \in 1 .. Len(s) \/ i = Len(s) + 1
  BY <1>1
<1> QED BY <1>1, <1>2 DEF ToSet

(* PushEvent adds nothing but the event.                                     *)
LEMMA PushedHas ==
  ASSUME NEW S, NEW q \in Seq(S), NEW e \in S
  PROVE  ToSet(Queue!Pushed(q, e)) \subseteq ToSet(q) \cup {e}
<1> DEFINE p == Queue!Pushed(q, e)
<1>1. p = QueueProofs!Pushed(q, e)
  BY DEF Queue!Pushed, QueueProofs!Pushed
<1> HIDE DEF p
<1>2. \A x \in S : /\ QueueProofs!Pushed(q, x) \in Seq(S)
                  /\ Len(QueueProofs!Pushed(q, x)) \in 1 .. Len(q) + 1
                  /\ QueueProofs!Pushed(q, x)[Len(QueueProofs!Pushed(q, x))] = x
                  /\ \A i \in 1 .. Len(QueueProofs!Pushed(q, x)) - 1 :
                       QueueProofs!Pushed(q, x)[i]
                         = q[Len(q) - Len(QueueProofs!Pushed(q, x)) + 1 + i]
  BY QueueProofs!PushedProperties, ServerAssumption
<1>3. /\ p \in Seq(S) /\ Len(p) \in 1 .. Len(q) + 1
      /\ p[Len(p)] = e
      /\ \A i \in 1 .. Len(p) - 1 : p[i] = q[Len(q) - Len(p) + 1 + i]
  BY <1>1, <1>2
<1>4. /\ Len(q) \in Nat /\ DOMAIN q = 1 .. Len(q) /\ DOMAIN p = 1 .. Len(p)
  BY <1>3, LenProperties
<1>5. ASSUME NEW i \in DOMAIN p PROVE p[i] \in ToSet(q) \cup {e}
  <2>1. CASE i = Len(p)
    BY <1>3, <2>1
  <2>2. CASE i # Len(p)
    <3>1. i \in 1 .. Len(p) - 1 /\ Len(q) - Len(p) + 1 + i \in 1 .. Len(q)
      BY <1>3, <1>4, <2>2
    <3> QED BY <1>3, <1>4, <3>1 DEF ToSet
  <2> QED BY <2>1, <2>2
<1> QED BY <1>5 DEF p, ToSet
-----------------------------------------------------------------------------
(***************************************************************************)
(* One lemma for each goroutine                                            *)
(***************************************************************************)
LEMMA StepOfConn ==
  ASSUME TypeOK, ResumeInv, NEW c \in Conns, NEW state, ConnStep(c, state),
         Once(c, state), HandedOver(c, state)
  PROVE  ResumeInv'
<1>1. /\ UNCHANGED <<overwritten, websockets, Events, pushed, post, close>>
      /\ \A d \in Conns : conn'[d] = IF d = c THEN state ELSE conn[d]
  BY DEF ConnStep, TypeOK, server, sends, others
<1> QED
  BY <1>1 DEF ResumeInv, Once, HandedOver, Reaches

(* A step of a connection that concerns neither what it is sent nor where    *)
(* it is registered, or takes it out of service.                             *)
LEMMA QuietStep ==
  ASSUME TypeOK, ResumeInv, NEW c \in Conns, NEW state, ConnStep(c, state),
         state.got = conn[c].got, state.sn = conn[c].sn,
         state.backlog = conn[c].backlog, conn[c].gone => state.gone,
         \/ state.handler = conn[c].handler /\ state.closed = conn[c].closed
         \/ /\ conn[c].handler = "idle" /\ state.handler = "auth"
            /\ state.closed = conn[c].closed
         \/ /\ state.handler \in {"enter", "entering", "leave", "leaving", "close"}
            /\ state.closed = conn[c].closed
            /\ conn[c].handler \notin {"signal", "exit"}
         \/ state.handler \in {"signal", "exit"}
  PROVE  ResumeInv'
<1>1. Once(c, conn[c]) /\ HandedOver(c, conn[c])
  BY DEF ResumeInv
<1>2. Once(c, state)
  BY <1>1 DEF Once
<1>3. HandedOver(c, state)
  BY <1>1 DEF HandedOver, Reaches
<1> QED
  BY <1>2, <1>3, StepOfConn

LEMMA ResumeHandler ==
  ASSUME ServerInv, Running, ResumeInv, NEW c \in Conns,
         \/ HandlerWork(c) \/ HandlerLock(c) \/ AuthTimeout(c)
         \/ ReaderWork(c) \/ HeartWork(c) \/ Environment(c)
  PROVE  ResumeInv'
<1> DEFINE s == conn[c]
<1>0. /\ TypeOK /\ conn \in [Conns -> ConnState] /\ s \in ConnState
      /\ Once(c, s) /\ HandedOver(c, s)
  BY DEF ServerInv, TypeOK, ResumeInv
<1>1. CASE Refuse(c) \/ SkipIdentify(c)
  BY <1>0, <1>1, QuietStep DEF Refuse, SkipIdentify, Takes, ConnState
<1>2. ASSUME NEW n \in {0} \cup Sns, Identify(c, n) PROVE ResumeInv'
  <2>1. PICK state : /\ ConnStep(c, state)
                     /\ state = [s EXCEPT !.sn = n, !.got = Received(c, READY),
                                   !.handler = "enter", !.heart = "run", !.reader = "recv"]
    BY <1>2 DEF Identify
  <2>2. state.handler = "enter" /\ state.got = Received(c, READY) /\ state.closed = s.closed
    BY <1>0, <2>1 DEF ConnState
  <2>3. s.got = << >> /\ s.handler = "auth"
    BY <1>0, <1>2 DEF Identify, Takes, Once
  <2>4. /\ IsInjective(state.got) /\ ToSet(state.got) \subseteq {READY}
    <3>1. CASE s.gone
      BY <2>2, <2>3, <3>1, EmptyOnce DEF Received
    <3>2. CASE ~s.gone
      <4>1. << >> \in Seq({READY})
        BY EmptySeq
      <4>2. /\ IsInjective(Append(<< >>, READY))
            /\ ToSet(Append(<< >>, READY)) = ToSet(<< >>) \cup {READY}
        BY <4>1, EmptyOnce, AppendOnce
      <4>3. state.got = Append(<< >>, READY)
        BY <2>2, <2>3, <3>2 DEF Received
      <4> QED BY <4>2, <4>3, EmptyOnce
    <3> QED BY <3>1, <3>2
  <2>5. Once(c, state)
    BY <2>2, <2>4 DEF Once
  <2>6. HandedOver(c, state)
    BY <1>0, <2>2, <2>3 DEF HandedOver
  <2> QED BY <1>0, <2>1, <2>5, <2>6, StepOfConn
<1>3. CASE RegisterLock(c) \/ LeaveLock(c)
  BY <1>0, <1>3, QuietStep DEF RegisterLock, LeaveLock, Leaving, ConnState
<1>4. CASE Resume(c)
  <2> DEFINE b == Queue!Resumed(Events, s.sn)
  <2>1. PICK state : ConnStep(c, state) /\ state = [s EXCEPT !.handler = "replay", !.backlog = b]
    BY <1>4 DEF Resume
  <2>2. /\ state.handler = "replay" /\ state.backlog = b /\ s.handler = "resume"
        /\ state.got = s.got /\ state.sn = s.sn /\ state.closed = s.closed
        /\ state.gone = s.gone
    BY <1>0, <1>4, <2>1 DEF Resume, ConnState
  <2>3. ASSUME NEW i \in DOMAIN pushed, NEW j \in DOMAIN pushed, i < j,
               pushed[i] = s.sn, s.sn \in ToSet(Events)
        PROVE  pushed[j] \in ToSet(b)
    <3>1. b = SubSeq(pushed, i + 1, Len(pushed))
      BY <2>3 DEF ServerInv, Queue!ResumeExact, Queue!Elements, ToSet
    <3> HIDE DEF b
    <3>2. /\ pushed \in Seq(Sns) /\ Len(pushed) \in Nat /\ DOMAIN pushed = 1 .. Len(pushed)
      BY <1>0, LenProperties DEF TypeOK
    <3>3. \A k \in i + 1 .. Len(pushed) : pushed[k] \in Sns
      BY <3>2, ElementOfSeq
    <3>4. /\ SubSeq(pushed, i + 1, Len(pushed)) \in Seq(Sns)
          /\ Len(SubSeq(pushed, i + 1, Len(pushed))) = Len(pushed) - i
          /\ \A k \in 1 .. Len(pushed) - i :
               SubSeq(pushed, i + 1, Len(pushed))[k] = pushed[i + k]
      <4>1. i \in Int /\ Len(pushed) \in Int /\ i + 1 <= Len(pushed)
        BY <2>3, <3>2
      <4>2. /\ SubSeq(pushed, i + 1, Len(pushed)) \in Seq(Sns)
            /\ Len(SubSeq(pushed, i + 1, Len(pushed)))
                 = IF i + 1 <= Len(pushed) THEN Len(pushed) - (i + 1) + 1 ELSE 0
            /\ \A k \in 1 .. Len(pushed) - (i + 1) + 1 :
                 SubSeq(pushed, i + 1, Len(pushed))[k] = pushed[(i + 1) + k - 1]
        BY <3>2, <3>3, <4>1, SubSeqProperties
      <4>3. Len(pushed) - (i + 1) + 1 = Len(pushed) - i
        BY <4>1
      <4>4. \A k \in 1 .. Len(pushed) - i : (i + 1) + k - 1 = i + k
        BY <4>1
      <4> QED BY <4>1, <4>2, <4>3, <4>4
    <3>5. j - i \in 1 .. Len(pushed) - i /\ i + (j - i) = j
      BY <2>3, <3>2
    <3>6. DOMAIN b = 1 .. Len(pushed) - i
      BY <3>1, <3>4, LenProperties
    <3> QED BY <3>1, <3>4, <3>5, <3>6 DEF ToSet
  <2> HIDE DEF b
  <2>4. Once(c, state)
    BY <1>0, <2>2 DEF Once
  <2>5. HandedOver(c, state)
    BY <1>0, <2>2, <2>3 DEF HandedOver, Reaches
  <2> QED BY <1>0, <2>1, <2>4, <2>5, StepOfConn
<1>5. CASE Replay(c)
  <2>1. s.handler = "replay" /\ s.backlog # << >> /\ s.backlog \in Seq(Sns)
    BY <1>0, <1>5 DEF Replay, ConnState
  <2>2. /\ Tail(s.backlog) \in Seq(Sns) /\ Head(s.backlog) \in Sns
        /\ \A e \in ToSet(s.backlog) : e = Head(s.backlog) \/ e \in ToSet(Tail(s.backlog))
    BY <2>1, HeadTailProperties, HeadOrTail
  <2>3. ~s.closed /\ s.sn # 0
    BY <1>0, <2>1 DEF Once, HandedOver
  <2>4. PICK g : /\ ConnStep(c, [s EXCEPT !.backlog = Tail(s.backlog), !.got = g])
                 /\ \/ g = Received(c, Head(s.backlog))
                    \/ g = s.got /\ s.gone
    <3>1. CASE ConnStep(c, [s EXCEPT !.backlog = Tail(@)]) /\ WriteFails(c)
      <4>1. [s EXCEPT !.backlog = Tail(s.backlog), !.got = s.got] = [s EXCEPT !.backlog = Tail(@)]
        BY <1>0 DEF ConnState
      <4> QED BY <2>3, <3>1, <4>1 DEF WriteFails
    <3>2. CASE ConnStep(c, [s EXCEPT !.backlog = Tail(@), !.got = Received(c, Head(s.backlog))])
      BY <3>2
    <3> QED BY <1>5, <3>1, <3>2 DEF Replay
  <2>5. PICK state : state = [s EXCEPT !.backlog = Tail(s.backlog), !.got = g]
    OBVIOUS
  <2>6. /\ state.handler = "replay" /\ state.backlog = Tail(s.backlog) /\ state.got = g
        /\ state.sn = s.sn /\ state.closed = s.closed /\ state.gone = s.gone
    BY <1>0, <2>1, <2>5 DEF ConnState
  <2>7. s.gone \/ ToSet(g) = ToSet(s.got) \cup {Head(s.backlog)}
    <3>1. s.got \in Seq(Sns \cup {READY})
      BY <1>0 DEF ConnState
    <3>2. ToSet(Append(s.got, Head(s.backlog))) = ToSet(s.got) \cup {Head(s.backlog)}
      BY <2>2, <3>1, AppendHas
    <3>3. s.gone \/ g = Append(s.got, Head(s.backlog))
      BY <2>4 DEF Received
    <3> QED BY <3>2, <3>3
  <2>8. Once(c, state)
    BY <2>3, <2>6 DEF Once
  <2>9. HandedOver(c, state)
    BY <1>0, <2>1, <2>2, <2>6, <2>7 DEF HandedOver, Reaches
  <2> QED BY <1>0, <2>4, <2>5, <2>8, <2>9, StepOfConn
<1>6. CASE EndReplay(c)
  <2>1. PICK state : ConnStep(c, state) /\ state = [s EXCEPT !.handler = "wait"]
    BY <1>6 DEF EndReplay
  <2>2. /\ state.handler = "wait" /\ state.got = s.got /\ state.sn = s.sn
        /\ state.closed = s.closed /\ state.gone = s.gone
        /\ s.handler = "replay" /\ s.backlog = << >>
    BY <1>0, <1>6, <2>1 DEF EndReplay, ConnState
  <2>3. Once(c, state)
    BY <1>0, <2>2 DEF Once
  <2>4. HandedOver(c, state)
    BY <1>0, <2>2, EmptyOnce DEF HandedOver, Reaches
  <2> QED BY <1>0, <2>1, <2>3, <2>4, StepOfConn
<1>7. CASE Register(c) \/ Unregister(c)
  <2>1. /\ UNCHANGED <<overwritten, Events, pushed, post>>
        /\ websockets \in Seq(Conns)
        /\ close'.pc = close.pc
    BY <1>0, <1>7 DEF Register, Unregister, AppendedInPlace, TypeOK, CloseState, sends
  <2>2. PICK pc \in {"resume", "wait", "close"} :
          /\ conn' = [conn EXCEPT ![c].handler = pc]
          /\ \/ /\ s.handler = "entering" /\ websockets' = Append(websockets, c)
                /\ pc # "close" /\ (pc = "resume" <=> s.sn > 0)
             \/ /\ s.handler = "leaving" /\ pc = "close"
                /\ \/ UNCHANGED websockets
                   \/ \E i \in DOMAIN websockets :
                        FirstAt(websockets, c, i) /\ websockets' = RemoveAt(websockets, i)
    BY <1>7 DEF Register, Unregister, Resumes
  <2>3. /\ conn'[c] = [s EXCEPT !.handler = pc]
        /\ \A d \in Conns \ {c} : conn'[d] = conn[d]
    BY <1>0, <2>2
  <2>4. \A d \in Conns \ {c} : d \in ToSet(websockets) => d \in ToSet(websockets')
    <3>1. CASE websockets' = Append(websockets, c)
      BY <2>1, <3>1, AppendHas
    <3>2. ASSUME NEW i \in DOMAIN websockets, FirstAt(websockets, c, i),
                 websockets' = RemoveAt(websockets, i), NEW d \in Conns \ {c},
                 d \in ToSet(websockets)
          PROVE  d \in ToSet(websockets')
      <4>1. PICK k \in DOMAIN websockets : websockets[k] = d
        BY <3>2 DEF ToSet
      <4>2. /\ Len(websockets) \in Nat /\ DOMAIN websockets = 1 .. Len(websockets)
            /\ websockets' \in Seq(Conns) /\ Len(websockets') = Len(websockets) - 1
            /\ \A l \in 1 .. Len(websockets) - 1 :
                 websockets'[l] = websockets[IF l < i THEN l ELSE l + 1]
        BY <2>1, <3>2, RemoveAtProperties, LenProperties
      <4>3. DOMAIN websockets' = 1 .. Len(websockets) - 1
        BY <4>2, LenProperties
      <4>4. k # i
        BY <3>2, <4>1 DEF FirstAt
      <4>5. CASE k < i
        BY <4>1, <4>2, <4>3, <4>5 DEF ToSet
      <4>6. CASE k > i
        <5>1. k - 1 \in 1 .. Len(websockets) - 1 /\ websockets'[k - 1] = d
          BY <4>1, <4>2, <4>6
        <5> QED BY <4>3, <5>1 DEF ToSet
      <4> QED BY <4>2, <4>4, <4>5, <4>6
    <3> QED BY <2>2, <3>1, <3>2
  <2>5. \A d \in Conns \ {c} : (Once(d, conn[d]) /\ HandedOver(d, conn[d]))'
    BY <2>1, <2>3, <2>4 DEF ResumeInv, Once, HandedOver, Reaches
  <2>6. /\ conn'[c].handler = pc /\ conn'[c].got = s.got /\ conn'[c].sn = s.sn
        /\ conn'[c].closed = s.closed /\ s.sn \in Nat
    BY <1>0, <2>3 DEF ConnState
  <2>7. Once(c, conn[c])'
    BY <1>0, <2>1, <2>2, <2>6 DEF Once
  <2>8. HandedOver(c, conn[c])'
    <3>1. pc # "close" => c \in ToSet(websockets')
      <4>1. ToSet(Append(websockets, c)) = ToSet(websockets) \cup {c}
        BY <2>1, AppendHas
      <4> QED BY <2>2, <4>1
    <3>2. ~conn'[c].closed
      BY <1>0, <2>2, <2>6 DEF HandedOver
    <3>3. pc = "wait" => s.sn = 0
      BY <2>2, <2>6
    <3> QED BY <2>2, <2>6, <3>1, <3>2, <3>3 DEF HandedOver
  <2> QED BY <2>5, <2>7, <2>8 DEF ResumeInv
<1>8. CASE CloseConn(c) \/ SignalClosed(c) \/ AuthTimeout(c)
  BY <1>0, <1>8, QuietStep DEF CloseConn, SignalClosed, AuthTimeout, Exited, ConnState
<1>9. CASE ReaderWork(c)
  <2>1. CASE HandshakeReadFails(c) \/ ReceiveFails(c) \/ ReaderCloseReturns(c)
    BY <1>0, <2>1, QuietStep
    DEF HandshakeReadFails, ReceiveFails, ReadError, ReaderCloseReturns, ConnState
  <2>2. CASE ReaderSignals(c)
    BY <1>0, <2>2, QuietStep DEF ReaderSignals, Exited, ConnState
  <2> QED BY <1>9, <2>1, <2>2 DEF ReaderWork
<1>10. CASE HeartWork(c)
  BY <1>0, <1>10, QuietStep DEF HeartWork, ReadErrorArrives, HeartSignals, ConnState
<1>11. CASE Connect(c) \/ PeerGone(c) \/ HeartbeatTimeout(c)
  BY <1>0, <1>11, QuietStep DEF Connect, PeerGone, HeartbeatTimeout, ConnState
<1>12. CASE \E op \in ClientOps : ReceiveAtOnce(c, op)
  BY <1>0, <1>12, QuietStep DEF ReceiveAtOnce, ConnState
<1>13. CASE ReadyFails(c)
  BY <1>13 DEF ReadyFails, server, sends, ResumeInv, Once, HandedOver, Reaches
<1> QED
  BY <1>1, <1>2, <1>3, <1>4, <1>5, <1>6, <1>7, <1>8, <1>9, <1>10, <1>11, <1>12, <1>13
  DEF HandlerWork, HandlerLock, Environment

LEMMA ResumePost ==
  ASSUME ServerInv, ResumeInv, NEW e \in Sns, NEW c \in Conns, PostWork(e, c)
  PROVE  ResumeInv'
<1> DEFINE s == conn[c]
<1>0. /\ conn \in [Conns -> ConnState] /\ s \in ConnState
      /\ post \in [Sns -> [Conns -> PostPcs]] /\ pushed \in Seq(Sns)
      /\ Once(c, s) /\ HandedOver(c, s)
      /\ e # READY
  BY ServerAssumption DEF ServerInv, TypeOK, ResumeInv, READY
<1>1. /\ UNCHANGED <<overwritten, websockets, Events, pushed, close>>
      /\ \A f \in Sns, d \in Conns : <<f, d>> # <<e, c>> => post'[f][d] = post[f][d]
      /\ \A d \in Conns \ {c} : conn'[d] = conn[d]
  BY <1>0 DEF PostWork, PostSucceeds, PostFails, PostSignals, Signalled, PostCloseReturns,
              server, others
<1>2. /\ \A d \in Conns : ToSet(conn[d].got) \subseteq Sns \cup {READY}
      /\ \A j \in DOMAIN pushed : pushed[j] \in Sns
  <2>1. \A d \in Conns : conn[d].got \in Seq(Sns \cup {READY})
    BY <1>0 DEF ConnState
  <2> QED BY <1>0, <2>1, LenProperties, ElementOfSeq DEF ToSet
<1>3. \A d \in Conns \ {c} : (Once(d, conn[d]) /\ HandedOver(d, conn[d]))'
  BY <1>1, <1>2 DEF ResumeInv, Once, HandedOver, Reaches
<1>4. CASE PostSucceeds(e, c)
  <2>1. /\ conn'[c] = [s EXCEPT !.got = Received(c, e)]
        /\ post[e][c] = "post" /\ post'[e][c] = "ok" /\ ~s.closed
    BY <1>0, <1>4 DEF PostSucceeds, WriteSucceeds
  <2>2. /\ conn'[c].got = Received(c, e) /\ conn'[c].handler = s.handler
        /\ conn'[c].sn = s.sn /\ conn'[c].closed = s.closed /\ conn'[c].gone = s.gone
        /\ conn'[c].backlog = s.backlog
    BY <1>0, <2>1 DEF ConnState
  <2>3. s.handler \notin {"idle", "auth"}
    BY <2>1 DEF ServerInv, RegInv, ResultsOnce, Placed
  <2>4. s.sn = 0 => e \notin ToSet(s.got)
    BY <1>0, <2>1 DEF Once
  <2>5. /\ s.got \in Seq(Sns \cup {READY})
        /\ ToSet(Append(s.got, e)) = ToSet(s.got) \cup {e}
        /\ IsInjective(s.got) /\ e \notin ToSet(s.got) => IsInjective(Append(s.got, e))
    <3>1. s.got \in Seq(Sns \cup {READY}) /\ e \in Sns \cup {READY}
      BY <1>0 DEF ConnState
    <3> QED BY <3>1, AppendHas, AppendOnce
  <2>6. /\ ToSet(conn'[c].got) \subseteq ToSet(s.got) \cup {e}
        /\ ~s.gone => ToSet(conn'[c].got) = ToSet(s.got) \cup {e}
        /\ s.sn = 0 => IsInjective(conn'[c].got)
    BY <1>0, <2>2, <2>4, <2>5 DEF Received, Once
  <2>7. \A m \in ToSet(s.got) : m # READY /\ post[m][c] = "ok" => post'[m][c] = "ok"
    BY <1>1, <1>2, <2>1
  <2>8. Once(c, conn[c])'
    BY <1>0, <2>1, <2>2, <2>3, <2>6, <2>7 DEF Once
  <2>9. HandedOver(c, conn[c])'
    <3>1. ASSUME NEW m \in Sns, ~s.gone, Reaches(c, conn[c], m)
          PROVE  Reaches(c, conn[c], m)'
      <4>1. CASE m = e
        BY <2>6, <3>1, <4>1 DEF Reaches
      <4>2. CASE m # e
        <5>1. post'[m][c] = post[m][c]
          BY <1>1, <4>2
        <5> QED BY <2>2, <2>6, <3>1, <5>1 DEF Reaches
      <4> QED BY <4>1, <4>2
    <3> QED BY <1>0, <1>1, <1>2, <2>2, <3>1 DEF HandedOver
  <2> QED BY <1>3, <2>8, <2>9 DEF ResumeInv
<1>5. CASE PostFails(e, c) \/ PostCloseReturns(e, c) \/ PostSignals(e, c)
  <2>1. /\ conn'[c].got = s.got /\ conn'[c].sn = s.sn /\ conn'[c].closed = s.closed
        /\ conn'[c].gone = s.gone /\ conn'[c].backlog = s.backlog
        /\ \/ conn'[c].handler = s.handler
           \/ conn'[c].handler = "leave" /\ s.handler = "wait"
    BY <1>0, <1>5 DEF PostFails, PostCloseReturns, PostSignals, Signalled, ConnState
  <2>2. /\ post[e][c] # "ok"
        /\ post[e][c] = "post" => s.closed \/ s.gone
    BY <1>0, <1>5 DEF PostFails, PostCloseReturns, PostSignals, WriteFails
  <2>3. \A m \in ToSet(s.got) : m # READY /\ post[m][c] = "ok" => post'[m][c] = "ok"
    BY <1>1, <1>2, <2>2
  <2>4. Once(c, conn[c])'
    BY <1>0, <2>1, <2>3 DEF Once
  <2>5. HandedOver(c, conn[c])'
    <3>1. ASSUME NEW m \in Sns, ~s.gone, ~s.closed, Reaches(c, conn[c], m)
          PROVE  Reaches(c, conn[c], m)'
      <4>1. m # e => post'[m][c] = post[m][c]
        BY <1>1
      <4>2. CASE post[m][c] = "post"
        <5>1. m # e
          BY <2>2, <3>1, <4>2
        <5> QED BY <4>1, <4>2, <5>1 DEF Reaches
      <4>3. CASE post[m][c] # "post"
        BY <2>1, <3>1, <4>3 DEF Reaches
      <4> QED BY <4>2, <4>3
    <3>2. conn'[c].handler \in {"replay", "wait"} => s.handler = conn'[c].handler /\ ~s.closed
      BY <1>0, <2>1 DEF HandedOver
    <3> QED BY <1>0, <1>1, <1>2, <2>1, <3>1, <3>2 DEF HandedOver
  <2> QED BY <1>3, <2>4, <2>5 DEF ResumeInv
<1> QED
  BY <1>4, <1>5 DEF PostWork

LEMMA ResumeSend ==
  ASSUME ServerInv, Running, ResumeInv, NEW e \in Sns,
         StartSend(e) \/ SendWork(e) \/ SendLock(e)
  PROVE  ResumeInv'
<1>0. /\ conn \in [Conns -> ConnState] /\ pushed \in Seq(Sns) /\ Events \in Seq(Sns)
      /\ post \in [Sns -> [Conns -> PostPcs]] /\ close \in CloseState
      /\ \A c \in Conns : Once(c, conn[c]) /\ HandedOver(c, conn[c])
  BY DEF ServerInv, TypeOK, ResumeInv
<1>1. CASE StartSend(e)
  <2>1. /\ UNCHANGED <<conn, overwritten, websockets, close>>
        /\ pushed' = Append(pushed, e)
        /\ send[e].pc = "idle"
        /\ \A f \in Sns \ {e} : post'[f] = post[f]
        /\ \A c \in ToSet(websockets) \cap Conns : post'[e][c] = "post"
    BY <1>0, <1>1 DEF StartSend, others
  <2>2. /\ e \notin ToSet(pushed)
        /\ \A c \in Conns : post[e][c] = "none"
    BY <2>1 DEF ServerInv, PushedOnce, RegInv, ResultsOnce
  <2>3. ToSet(Events') \subseteq ToSet(Events) \cup {e}
    BY <1>0, <1>1, PushedHas DEF StartSend, EventsAfter
  <2>4. /\ Len(pushed) \in Nat /\ DOMAIN pushed = 1 .. Len(pushed)
        /\ DOMAIN pushed' = 1 .. Len(pushed) + 1
        /\ \A i \in 1 .. Len(pushed) : pushed'[i] = pushed[i] /\ pushed[i] \in Sns
        /\ pushed'[Len(pushed) + 1] = e
    BY <1>0, <2>1, AppendProperties, LenProperties, ElementOfSeq
  <2>5. ASSUME NEW c \in Conns PROVE (Once(c, conn[c]) /\ HandedOver(c, conn[c]))'
    <3> DEFINE s == conn[c]
    <3>1. \A m \in ToSet(s.got) : m = READY \/ m \in Sns
      <4>1. s.got \in Seq(Sns \cup {READY})
        BY <1>0 DEF ConnState
      <4> QED BY <4>1, LenProperties, ElementOfSeq DEF ToSet
    <3>2. Once(c, conn[c])'
      BY <1>0, <2>1, <2>2, <3>1 DEF Once
    <3>3. ASSUME NEW i \in DOMAIN pushed', NEW j \in DOMAIN pushed', i < j,
                 s.handler \in {"replay", "wait"}, ~s.gone, c \notin overwritten,
                 s.sn # 0, s.sn \in ToSet(Events'), pushed'[i] = s.sn,
                 close.pc # "done"
          PROVE  Reaches(c, s, pushed[j])'
      <4>1. i \in 1 .. Len(pushed) /\ pushed[i] = s.sn
        BY <2>4, <3>3
      <4>2. s.sn \in ToSet(Events)
        <5>1. s.sn \in ToSet(pushed)
          BY <2>4, <4>1 DEF ToSet
        <5>2. s.sn \in ToSet(Events')
          BY <3>3
        <5> QED BY <2>2, <2>3, <5>1, <5>2
      <4>3. CASE j \in 1 .. Len(pushed)
        <5>1. Reaches(c, s, pushed[j])
          BY <1>0, <2>4, <3>3, <4>1, <4>2, <4>3 DEF HandedOver
        <5>2. pushed'[j] = pushed[j] /\ pushed[j] \in Sns /\ pushed[j] # e
          BY <2>2, <2>4, <4>3 DEF ToSet
        <5> QED BY <2>1, <5>1, <5>2 DEF Reaches
      <4>4. CASE j = Len(pushed) + 1
        <5>1. c \in ToSet(websockets)
          BY <1>0, <3>3 DEF HandedOver
        <5> QED BY <2>1, <2>4, <4>4, <5>1 DEF Reaches
      <4> QED BY <2>4, <4>3, <4>4
    <3>4. close.pc # "done"
      BY DEF Running
    <3>5. HandedOver(c, conn[c])'
      BY <1>0, <2>1, <3>3, <3>4 DEF HandedOver
    <3> QED BY <3>2, <3>5
  <2> QED BY <2>5 DEF ResumeInv
<1>2. CASE EndPosting(e) \/ SendLock(e) \/ \E u \in Hooks : PostHook(e, u)
  <2>1. UNCHANGED <<conn, overwritten, websockets, Events, pushed, post, close>>
    BY <1>2 DEF EndPosting, SendLock, PostHook, server, others
  <2> QED BY <2>1 DEF ResumeInv, Once, HandedOver, Reaches
<1>3. CASE SendStore(e)
  <2>1. /\ UNCHANGED <<conn, Events, pushed, post>>
        /\ close'.pc = close.pc
        /\ overwritten' = overwritten \cup (ToSet(websockets) \ ToSet(websockets'))
    BY <1>0, <1>3 DEF SendStore, Survivors, CloseState
  <2> QED BY <2>1 DEF ResumeInv, Once, HandedOver, Reaches
<1> QED
  BY <1>1, <1>2, <1>3 DEF SendWork

LEMMA ResumeClose ==
  ASSUME ServerInv, Running, ResumeInv, CloseServer \/ CloseWork \/ CloseLock
  PROVE  ResumeInv'
<1>0. conn \in [Conns -> ConnState] /\ close.pc # "done"
  BY DEF ServerInv, TypeOK, Running
<1>1. CASE CloseServer \/ CloseNext \/ CloseLock
  <2>1. UNCHANGED <<conn, overwritten, websockets, Events, pushed, post>>
    BY <1>1 DEF CloseServer, CloseNext, CloseLock, server, sends
  <2> QED BY <1>0, <2>1 DEF ResumeInv, Once, HandedOver, Reaches
<1>2. ASSUME UNCHANGED <<overwritten, websockets, Events, pushed, post>>,
             \A d \in Conns :
               /\ conn'[d].got = conn[d].got /\ conn'[d].sn = conn[d].sn
               /\ conn'[d].closed = conn[d].closed /\ conn'[d].gone = conn[d].gone
               /\ conn'[d].backlog = conn[d].backlog
               /\ \/ conn'[d].handler = conn[d].handler
                  \/ conn'[d].handler = "leave" /\ conn[d].handler = "wait"
      PROVE  ResumeInv'
  BY <1>0, <1>2 DEF ResumeInv, Once, HandedOver, Reaches
<1>3. CASE CloseReturns
  <2>1. PICK t : conn' = [conn EXCEPT ![t].hasClosed = FALSE]
    BY <1>3 DEF CloseReturns
  <2>2. \A d \in Conns :
               /\ conn'[d].got = conn[d].got /\ conn'[d].sn = conn[d].sn
               /\ conn'[d].closed = conn[d].closed /\ conn'[d].gone = conn[d].gone
               /\ conn'[d].backlog = conn[d].backlog
               /\ conn'[d].handler = conn[d].handler
    BY <1>0, <2>1 DEF ConnState
  <2> QED BY <1>2, <1>3, <2>2 DEF CloseReturns, server, sends
<1>4. ASSUME NEW c \in Conns, CloseSignals(c) PROVE ResumeInv'
  <2>1. conn[c].handler = "wait" /\ conn' = [conn EXCEPT ![c].handler = "leave"]
    BY <1>4 DEF CloseSignals, Signalled
  <2>2. \A d \in Conns :
               /\ conn'[d].got = conn[d].got /\ conn'[d].sn = conn[d].sn
               /\ conn'[d].closed = conn[d].closed /\ conn'[d].gone = conn[d].gone
               /\ conn'[d].backlog = conn[d].backlog
               /\ \/ conn'[d].handler = conn[d].handler
                  \/ conn'[d].handler = "leave" /\ conn[d].handler = "wait"
    BY <1>0, <2>1 DEF ConnState
  <2> QED BY <1>2, <1>4, <2>2 DEF CloseSignals, server, sends
<1>5. CASE CloseStore
  <2>1. /\ UNCHANGED <<conn, overwritten, Events, pushed, post>>
        /\ close'.pc = "done"
    BY <1>5 DEF CloseStore, sends, ServerInv, TypeOK, CloseState
  <2> QED BY <2>1 DEF ResumeInv, Once, HandedOver, Reaches
<1> QED
  BY <1>1, <1>3, <1>4, <1>5 DEF CloseWork
-----------------------------------------------------------------------------
LEMMA ResumeStep == ServerInv /\ ResumeInv /\ [Next]_vars => ResumeInv'
<1> SUFFICES ASSUME ServerInv, ResumeInv, [Next]_vars PROVE ResumeInv'
  OBVIOUS
<1>1. ASSUME NEW u \in Hooks,
             ApiWork(u) \/ \E op \in {"create", "delete"} : ApiLock(u, op)
      PROVE  ResumeInv'
  <2>1. UNCHANGED <<conn, overwritten, websockets, Events, pushed, post, close>>
    BY <1>1 DEF ApiWork, CreateWebHook, DeleteWebHook, ApiReturns, ApiLock, server, sends
  <2> QED BY <2>1 DEF ResumeInv, Once, HandedOver, Reaches
<1>2. CASE UNCHANGED vars
  BY <1>2 DEF vars, server, sends, others, ResumeInv, Once, HandedOver, Reaches
<1> QED
  BY <1>1, <1>2, ResumeHandler, ResumePost, ResumeSend, ResumeClose DEF Next

LEMMA ResumeInvariant == Spec => []ResumeInv
<1>1. Init => ResumeInv
  <2> SUFFICES ASSUME Init, NEW c \in Conns
               PROVE  Once(c, conn[c]) /\ HandedOver(c, conn[c])
    BY DEF ResumeInv
  <2>1. conn[c] = NewConn
    BY DEF Init
  <2> QED BY <2>1, EmptyOnce DEF NewConn, Once, HandedOver
<1> QED BY <1>1, ServerInvariant, ResumeStep, PTL DEF Spec

(* A client that does not resume is sent no event twice: it has each from    *)
(* the one goroutine of the one Send that posts it.                          *)
THEOREM NoDuplicatesCorrect == Spec => []NoDuplicates
<1>1. ResumeInv => NoDuplicates
  BY DEF ResumeInv, Once, NoDuplicates
<1> QED BY <1>1, ResumeInvariant, PTL

(* A client that resumes misses nothing between the replay and the live      *)
(* events: webSocketHandler registers before it calls ResumeEvents.          *)
THEOREM NoGapOnResumeCorrect == Spec => []NoGapOnResume
<1>1. TypeOK /\ ResumeInv => NoGapOnResume
  <2> SUFFICES ASSUME TypeOK, ResumeInv, NEW c \in Conns, Resumed(c),
                      NEW i \in DOMAIN pushed, NEW j \in DOMAIN pushed,
                      i < j, pushed[i] = conn[c].sn
               PROVE  pushed[j] \in ToSet(conn[c].got) \/ post[pushed[j]][c] = "post"
    BY DEF NoGapOnResume
  <2>1. conn[c].sn \in Nat
    BY DEF TypeOK, ConnState
  <2>2. conn[c].handler = "wait" /\ Reaches(c, conn[c], pushed[j])
    BY <2>1 DEF Resumed, ResumeInv, HandedOver
  <2> QED BY <2>2 DEF Reaches
<1> QED BY <1>1, TypeCorrect, ResumeInvariant, PTL
-----------------------------------------------------------------------------
(***************************************************************************)
(* Refinement of module Subscription                                       *)
(***************************************************************************)
(* The queue holds the latest Capacity events, or all: only Send touches it. *)
Newest ==
  /\ Len(Events) <= Capacity /\ Len(Events) <= Len(pushed)
  /\ Len(Events) = Len(pushed) \/ Len(Events) = Capacity
  /\ \A k \in 1 .. Len(Events) : Events[k] = pushed[Len(pushed) - Len(Events) + k]

(* Nobody has an event, or is about to be replayed it, before its Send.      *)
Fresh ==
  \A e \in Sns, c \in Conns :
    send[e].pc = "idle" => e \notin ToSet(conn[c].got) \cup Unsent(conn[c])

LEMMA QueueKept ==
  [Next]_vars => UNCHANGED <<Events, pushed>> \/ \E e \in Sns : StartSend(e)
<1> SUFFICES ASSUME [Next]_vars, ~\E e \in Sns : StartSend(e)
             PROVE  UNCHANGED <<Events, pushed>>
  OBVIOUS
<1>1. ASSUME NEW e \in Sns, SendWork(e) \/ SendLock(e) \/ \E c \in Conns : PostWork(e, c)
      PROVE  UNCHANGED <<Events, pushed>>
  BY <1>1 DEF SendWork, EndPosting, PostHook, SendStore, SendLock, PostWork, PostSucceeds,
              PostFails, PostSignals, PostCloseReturns, server
<1>2. ASSUME NEW c \in Conns,
             \/ HandlerWork(c) \/ HandlerLock(c) \/ AuthTimeout(c)
             \/ ReaderWork(c) \/ HeartWork(c) \/ Environment(c)
      PROVE  UNCHANGED <<Events, pushed>>
  BY <1>2
  DEF HandlerWork, Refuse, SkipIdentify, Identify, Register, Resume, Replay,
      EndReplay, Unregister, CloseConn, SignalClosed, HandlerLock,
      RegisterLock, LeaveLock, AuthTimeout, ReaderWork, HandshakeReadFails,
      ReceiveFails, ReaderSignals, ReaderCloseReturns, HeartWork,
      ReadErrorArrives, HeartSignals, Environment, Connect, PeerGone,
      HeartbeatTimeout, ReadyFails, ReceiveAtOnce, ConnStep, server
<1>3. ASSUME NEW u \in Hooks,
             ApiWork(u) \/ \E op \in {"create", "delete"} : ApiLock(u, op)
      PROVE  UNCHANGED <<Events, pushed>>
  BY <1>3 DEF ApiWork, CreateWebHook, DeleteWebHook, ApiReturns, ApiLock, server
<1>4. CASE CloseServer \/ CloseWork \/ CloseLock
  BY <1>4 DEF CloseServer, CloseWork, CloseNext, CloseReturns, CloseSignals, CloseStore,
              CloseLock, server
<1>5. CASE UNCHANGED vars
  BY <1>5 DEF vars, server
<1> QED
  BY <1>1, <1>2, <1>3, <1>4, <1>5 DEF Next

LEMMA NewestStep == TypeOK /\ Newest /\ [Next]_vars => Newest'
<1> SUFFICES ASSUME TypeOK, Newest, [Next]_vars PROVE Newest'
  OBVIOUS
<1>1. CASE UNCHANGED <<Events, pushed>>
  BY <1>1 DEF Newest
<1>2. ASSUME NEW e \in Sns, StartSend(e) PROVE Newest'
  <2>1. /\ pushed' = Append(pushed, e) /\ Events' = QueueProofs!Pushed(Events, e)
        /\ Events \in Seq(Sns) /\ pushed \in Seq(Sns)
    BY <1>2 DEF StartSend, EventsAfter, Queue!Pushed, QueueProofs!Pushed, TypeOK
  <2>2. /\ Len(Events') \in 1 .. Len(Events) + 1
        /\ Len(Events') = IF Len(Events) < Capacity THEN Len(Events) + 1 ELSE Capacity
        /\ Events'[Len(Events')] = e
        /\ \A i \in 1 .. Len(Events') - 1 :
             Events'[i] = Events[Len(Events) - Len(Events') + 1 + i]
    <3>1. \A x \in Sns :
            /\ Len(QueueProofs!Pushed(Events, x)) \in 1 .. Len(Events) + 1
            /\ Len(Events) <= Capacity =>
                 Len(QueueProofs!Pushed(Events, x))
                   = IF Len(Events) < Capacity THEN Len(Events) + 1 ELSE Capacity
            /\ QueueProofs!Pushed(Events, x)[Len(QueueProofs!Pushed(Events, x))] = x
            /\ \A i \in 1 .. Len(QueueProofs!Pushed(Events, x)) - 1 :
                 QueueProofs!Pushed(Events, x)[i]
                   = Events[Len(Events) - Len(QueueProofs!Pushed(Events, x)) + 1 + i]
      BY <2>1, QueueProofs!PushedProperties, ServerAssumption
    <3> QED BY <2>1, <3>1 DEF Newest
  <2>3. /\ Len(pushed) \in Nat /\ Len(Events) \in Nat /\ Capacity \in Nat \ {0}
        /\ Len(pushed') = Len(pushed) + 1
        /\ \A i \in 1 .. Len(pushed) : pushed'[i] = pushed[i]
        /\ pushed'[Len(pushed) + 1] = e
    BY <2>1, AppendProperties, LenProperties, ServerAssumption
  <2>4. ASSUME NEW k \in 1 .. Len(Events')
        PROVE  Events'[k] = pushed'[Len(pushed') - Len(Events') + k]
    <3>1. CASE k = Len(Events')
      BY <2>2, <2>3, <3>1
    <3>2. CASE k # Len(Events')
      <4> DEFINE m == Len(Events) - Len(Events') + 1 + k
      <4>1. m \in 1 .. Len(Events) /\ k \in 1 .. Len(Events') - 1
        BY <2>2, <2>3, <3>2
      <4>2. /\ Len(pushed) - Len(Events) + m = Len(pushed') - Len(Events') + k
            /\ Len(pushed) - Len(Events) + m \in 1 .. Len(pushed)
        BY <2>2, <2>3, <4>1 DEF Newest
      <4> HIDE DEF m
      <4>3. Events'[k] = Events[m]
        BY <2>2, <4>1 DEF m
      <4> QED BY <2>3, <4>1, <4>2, <4>3 DEF Newest
    <3> QED BY <3>1, <3>2
  <2>5. /\ Len(Events') <= Capacity /\ Len(Events') <= Len(pushed')
        /\ Len(Events') = Len(pushed') \/ Len(Events') = Capacity
    <3>1. /\ Len(Events) <= Capacity /\ Len(Events) <= Len(pushed)
          /\ Len(Events) = Len(pushed) \/ Len(Events) = Capacity
      BY DEF Newest
    <3> QED BY <2>2, <2>3, <3>1
  <2> QED BY <2>4, <2>5 DEF Newest
<1> QED BY <1>1, <1>2, QueueKept

(* The end of a sequence behind place m, as a set.                           *)
LEMMA TailOfLog ==
  ASSUME NEW S, NEW s \in Seq(S), NEW m \in 1 .. Len(s)
  PROVE  ToSet(SubSeq(s, m + 1, Len(s))) = {s[j] : j \in (m + 1) .. Len(s)}
<1> DEFINE t == SubSeq(s, m + 1, Len(s))
<1>1. /\ Len(s) \in Nat /\ \A j \in (m + 1) .. Len(s) : s[j] \in S
  BY LenProperties, ElementOfSeq
<1>2. /\ t \in Seq(S)
      /\ Len(t) = IF m + 1 <= Len(s) THEN Len(s) - (m + 1) + 1 ELSE 0
      /\ \A k \in 1 .. Len(s) - (m + 1) + 1 : t[k] = s[(m + 1) + k - 1]
  BY <1>1, SubSeqProperties
<1> HIDE DEF t
<1>3. DOMAIN t = 1 .. Len(s) - m /\ \A k \in 1 .. Len(s) - m : t[k] = s[m + k]
  <2>1. Len(t) = Len(s) - m
    BY <1>1, <1>2
  <2>2. DOMAIN t = 1 .. Len(t)
    BY <1>2, LenProperties
  <2>3. ASSUME NEW k \in 1 .. Len(s) - m PROVE t[k] = s[m + k]
    <3>1. k \in 1 .. Len(s) - (m + 1) + 1 /\ (m + 1) + k - 1 = m + k
      BY <1>1
    <3> QED BY <1>2, <3>1
  <2> QED BY <2>1, <2>2, <2>3
<1>4. ASSUME NEW j \in (m + 1) .. Len(s) PROVE s[j] \in ToSet(t)
  <2>1. j - m \in 1 .. Len(s) - m /\ m + (j - m) = j
    BY <1>1
  <2>2. t[j - m] = s[j]
    BY <1>3, <2>1
  <2> QED BY <1>3, <2>1, <2>2 DEF ToSet
<1>5. ASSUME NEW k \in 1 .. Len(s) - m PROVE m + k \in (m + 1) .. Len(s)
  BY <1>1
<1>6. ToSet(t) = {t[k] : k \in 1 .. Len(s) - m}
  BY <1>3 DEF ToSet
<1>7. ToSet(t) \subseteq {s[j] : j \in (m + 1) .. Len(s)}
  BY <1>3, <1>5, <1>6
<1> QED BY <1>4, <1>7 DEF t

(* Places in a history of p events, the last q of which are in a queue.      *)
LEMMA Places ==
  ASSUME NEW p \in Nat, NEW q \in Nat, NEW room \in Nat,
         q <= room, q <= p, q = p \/ q = room
  PROVE  /\ \A i \in 1 .. p : i > p - room =>
              i - (p - q) \in 1 .. q /\ p - q + (i - (p - q)) = i
         /\ \A k \in 1 .. q : p - q + k \in 1 .. p /\ p - q + k > p - room
OBVIOUS

(* ResumeEvents finds exactly what was published after one of the latest     *)
(* Capacity events.                                                          *)
LEMMA MissedIsReplayed ==
  ASSUME ServerInv, Newest, NEW n \in Nat, n # 0
  PROVE  Promise!Missed(n) = ToSet(Queue!Resumed(Events, n))
<1>0. /\ pushed \in Seq(Sns) /\ Len(pushed) \in Nat /\ DOMAIN pushed = 1 .. Len(pushed)
      /\ Events \in Seq(Sns) /\ Len(Events) \in Nat /\ DOMAIN Events = 1 .. Len(Events)
      /\ Capacity \in Nat
  BY LenProperties, ServerAssumption DEF ServerInv, TypeOK
<1>3. /\ Len(Events) <= Capacity /\ Len(Events) <= Len(pushed)
      /\ Len(Events) = Len(pushed) \/ Len(Events) = Capacity
  BY DEF Newest
<1>4. /\ \A i \in 1 .. Len(pushed) : i > Len(pushed) - Capacity =>
           /\ i - (Len(pushed) - Len(Events)) \in 1 .. Len(Events)
           /\ Len(pushed) - Len(Events) + (i - (Len(pushed) - Len(Events))) = i
      /\ \A k \in 1 .. Len(Events) :
           /\ Len(pushed) - Len(Events) + k \in 1 .. Len(pushed)
           /\ Len(pushed) - Len(Events) + k > Len(pushed) - Capacity
  BY <1>0, <1>3, Places
<1>1. CASE n \notin ToSet(Events)
  <2>1. Queue!Resumed(Events, n) = << >>
    BY <1>1 DEF Queue!Resumed, ToSet
  <2>2. ASSUME NEW i \in DOMAIN pushed, pushed[i] = n, i > Len(pushed) - Capacity
        PROVE  FALSE
    <3> DEFINE k == i - (Len(pushed) - Len(Events))
    <3>1. k \in 1 .. Len(Events) /\ Len(pushed) - Len(Events) + k = i
      BY <1>0, <1>4, <2>2
    <3> HIDE DEF k
    <3>2. Events[k] = pushed[i]
      BY <3>1 DEF Newest
    <3> QED BY <1>0, <1>1, <2>2, <3>1, <3>2 DEF ToSet
  <2>3. Promise!Missed(n) = {}
    BY <2>2 DEF Promise!Missed
  <2> QED BY <2>1, <2>3, EmptyOnce
<1>2. CASE n \in ToSet(Events)
  <2>1. PICK k \in 1 .. Len(Events) : Events[k] = n
    BY <1>0, <1>2 DEF ToSet
  <2> DEFINE i == Len(pushed) - Len(Events) + k
  <2>2. i \in 1 .. Len(pushed) /\ pushed[i] = n /\ i > Len(pushed) - Capacity
    <3>1. i \in 1 .. Len(pushed) /\ i > Len(pushed) - Capacity
      BY <1>4, <2>1
    <3>2. pushed[i] = n
      BY <2>1 DEF Newest
    <3> QED BY <3>1, <3>2
  <2> HIDE DEF i
  <2>3. ASSUME NEW m \in DOMAIN pushed, pushed[m] = n
        PROVE  ToSet(Queue!Resumed(Events, n)) = {pushed[j] : j \in (m + 1) .. Len(pushed)}
    <3>1. Queue!Resumed(Events, n) = SubSeq(pushed, m + 1, Len(pushed))
      BY <1>2, <2>3 DEF ServerInv, Queue!ResumeExact, Queue!Elements, ToSet
    <3>2. m \in 1 .. Len(pushed)
      BY <1>0
    <3> QED BY <1>0, <3>1, <3>2, TailOfLog
  <2>4. Promise!Missed(n) = {pushed[j] : j \in (i + 1) .. Len(pushed)}
    <3>1. ASSUME NEW m \in DOMAIN pushed, pushed[m] = n, NEW j \in DOMAIN pushed, m < j
          PROVE  pushed[j] \in {pushed[l] : l \in (i + 1) .. Len(pushed)}
      <4>1. {pushed[l] : l \in (m + 1) .. Len(pushed)} = {pushed[l] : l \in (i + 1) .. Len(pushed)}
        BY <1>0, <2>2, <2>3, <3>1
      <4>2. j \in (m + 1) .. Len(pushed)
        BY <1>0, <3>1
      <4> QED BY <4>1, <4>2
    <3>2. \A j \in (i + 1) .. Len(pushed) : j \in DOMAIN pushed /\ i < j
      BY <1>0, <2>2
    <3>3. Promise!Missed(n) = {pushed[j] : j \in {l \in DOMAIN pushed :
             n # 0 /\ \E m \in DOMAIN pushed : /\ pushed[m] = n /\ m < l
                                              /\ m > Len(pushed) - Capacity}}
      BY DEF Promise!Missed
    <3> QED BY <1>0, <2>2, <3>1, <3>2, <3>3
  <2> QED BY <1>0, <2>2, <2>3, <2>4
<1> QED BY <1>1, <1>2
-----------------------------------------------------------------------------
(* What a step leaves alone that is not a Send's.                            *)
Aside == /\ UNCHANGED <<pushed, post, overwritten>>
         /\ \A e \in Sns : send'[e].pc = "idle" => send[e].pc = "idle"

(* What the refinement sees of a connection.                                 *)
SameView(s, t) ==
  /\ t.sn = s.sn /\ t.got = s.got /\ t.gone = s.gone /\ t.closed = s.closed
  /\ t.handler \in {"replay", "wait"} <=> s.handler \in {"replay", "wait"}
  /\ Unsent(t) = Unsent(s)

PromiseKept == Fresh' /\ [Promise!Next]_Promise!vars

LEMMA ViewKept ==
  ASSUME Fresh, Aside, \A d \in Conns : SameView(conn[d], conn'[d])
  PROVE  PromiseKept
<1>1. Fresh'
  BY DEF Fresh, Aside, SameView
<1>2. \A d \in Conns : /\ Subscribed(d)' = Subscribed(d) /\ Seen(d)' = Seen(d)
                       /\ Owed(d)' = Owed(d) /\ conn'[d].sn = conn[d].sn
  BY DEF Aside, SameView, Subscribed, Seen, Owed
<1>3. UNCHANGED Promise!vars
  BY <1>2 DEF Promise!vars, Aside
<1> QED BY <1>1, <1>3 DEF PromiseKept

LEMMA ViewOfConn ==
  ASSUME TypeOK, Fresh, NEW c \in Conns, NEW state, ConnStep(c, state),
         SameView(conn[c], state)
  PROVE  PromiseKept
<1>1. Aside
  BY DEF ConnStep, Aside, server, sends
<1>2. \A d \in Conns : conn'[d] = IF d = c THEN state ELSE conn[d]
  BY DEF ConnStep, TypeOK
<1>3. \A d \in Conns : SameView(conn[d], conn'[d])
  BY <1>2 DEF SameView
<1> QED BY <1>1, <1>3, ViewKept

(* A client that has gone, or a handler that leaves: the subscription ends.  *)
LEMMA Leaves ==
  ASSUME TypeOK, Fresh, Aside, NEW c \in Conns,
         \A d \in Conns \ {c} : conn'[d] = conn[d],
         conn'[c].sn = conn[c].sn, conn'[c].got = conn[c].got,
         \/ conn'[c].handler \notin {"replay", "wait"}
         \/ conn'[c].gone,
         Unsent(conn'[c]) = Unsent(conn[c]),
         \/ conn'[c].gone = conn[c].gone /\ conn'[c].closed = conn[c].closed
         \/ conn'[c].gone \/ conn'[c].closed
  PROVE  PromiseKept
<1>1. Fresh'
  BY DEF Fresh, Aside
<1>2. \A d \in Conns : /\ Seen(d)' = Seen(d) /\ conn'[d].sn = conn[d].sn
  BY DEF Seen
<1>3. \A d \in Conns \ {c} : (Subscribed(d)' <=> Subscribed(d)) /\ Owed(d)' = Owed(d)
  BY DEF Subscribed, Owed, Seen, Aside
<1>4. ~Subscribed(c)'
  BY DEF Subscribed
<1>5. {d \in Conns : Subscribed(d)}' = {d \in Conns : Subscribed(d)} \ {c}
  BY <1>3, <1>4
<1>6. [d \in Conns |-> Seen(d)]' = [d \in Conns |-> Seen(d)]
  BY <1>2
<1>7. [d \in Conns |-> conn[d].sn]' = [d \in Conns |-> conn[d].sn]
  BY <1>2
<1>8. Owed(c)' = Owed(c) \/ Owed(c)' = {}
  BY <1>2 DEF Owed, Aside, Seen
<1>9. CASE Owed(c)' = Owed(c)
  <2>1. [d \in Conns |-> Owed(d)]' = [d \in Conns |-> Owed(d)]
    BY <1>3, <1>9
  <2>2. Promise!Unsubscribe({c})
    BY <1>5, <1>6, <1>7, <2>1 DEF Promise!Unsubscribe, Aside
  <2> QED BY <1>1, <2>2 DEF PromiseKept, Promise!Next
<1>10. CASE Owed(c)' = {}
  <2>1. [d \in Conns |-> Owed(d)]' = [[d \in Conns |-> Owed(d)] EXCEPT ![c] = {}]
    BY <1>3, <1>10
  <2>2. Promise!Lose(c)
    BY <1>5, <1>6, <1>7, <2>1 DEF Promise!Lose, Aside
  <2> QED BY <1>1, <2>2 DEF PromiseKept, Promise!Next
<1> QED BY <1>8, <1>9, <1>10

LEMMA LeavesByConn ==
  ASSUME TypeOK, Fresh, NEW c \in Conns, NEW state, ConnStep(c, state),
         state.sn = conn[c].sn, state.got = conn[c].got,
         state.handler \notin {"replay", "wait"} \/ state.gone,
         Unsent(state) = Unsent(conn[c]),
         \/ state.gone = conn[c].gone /\ state.closed = conn[c].closed
         \/ state.gone \/ state.closed
  PROVE  PromiseKept
<1>1. Aside
  BY DEF ConnStep, Aside, server, sends
<1>2. conn'[c] = state /\ \A d \in Conns \ {c} : conn'[d] = conn[d]
  BY DEF ConnStep, TypeOK
<1> QED BY <1>1, <1>2, Leaves

(* A message reaches a client that is owed it, or one that has it or is lost *)
(* gets it off the list.                                                     *)
LEMMA Delivered ==
  ASSUME TypeOK, Fresh, NEW c \in Conns, NEW e \in Sns, send[e].pc # "idle",
         UNCHANGED <<pushed, overwritten>>,
         \A f \in Sns : send'[f].pc = "idle" => send[f].pc = "idle",
         \A d \in Conns \ {c} : conn'[d] = conn[d],
         \A f \in Sns, d \in Conns : d # c => post'[f][d] = post[f][d],
         conn'[c].sn = conn[c].sn, conn'[c].gone = conn[c].gone,
         conn'[c].closed = conn[c].closed, conn'[c].handler = conn[c].handler,
         e \in {f \in Sns : post[f][c] = "post"} \cup Unsent(conn[c]),
         \A f \in Sns \ {e} : post'[f][c] = "post" <=> post[f][c] = "post",
         Unsent(conn'[c]) \cup {e} = Unsent(conn[c]) \cup {e},
         \/ conn[c].gone \/ conn[c].closed
         \/ ToSet(conn'[c].got) = ToSet(conn[c].got) \cup {e},
         conn[c].gone \/ conn[c].closed => conn'[c].got = conn[c].got
  PROVE  PromiseKept
<1>0. e # READY
  BY ServerAssumption DEF READY
<1>1. Fresh'
  BY DEF Fresh
<1>2. \A d \in Conns : (Subscribed(d)' <=> Subscribed(d)) /\ conn'[d].sn = conn[d].sn
  BY DEF Subscribed
<1>3. ASSUME NEW d \in Conns \ {c} PROVE Seen(d)' = Seen(d) /\ Owed(d)' = Owed(d)
  <2>1. {f \in Sns : post'[f][d] = "post"} = {f \in Sns : post[f][d] = "post"}
    OBVIOUS
  <2> QED BY <2>1 DEF Seen, Owed
<1>4. {d \in Conns : Subscribed(d)}' = {d \in Conns : Subscribed(d)}
  BY <1>2
<1>5. [d \in Conns |-> conn[d].sn]' = [d \in Conns |-> conn[d].sn]
  BY <1>2
<1>6. CASE conn[c].gone \/ conn[c].closed
  <2>1. Seen(c)' = Seen(c) /\ Owed(c)' = Owed(c)
    BY <1>6 DEF Seen, Owed
  <2> QED BY <1>1, <1>3, <1>4, <1>5, <2>1 DEF PromiseKept, Promise!vars
<1>7. CASE ~conn[c].gone /\ ~conn[c].closed
  <2>1. Seen(c)' = Seen(c) \cup {e}
    BY <1>0, <1>7 DEF Seen
  <2>2. Owed(c)' = Owed(c) \ {e}
    <3>1. {f \in Sns : post'[f][c] = "post"} \cup {e}
            = {f \in Sns : post[f][c] = "post"} \cup {e}
      OBVIOUS
    <3>2. /\ Owed(c)' = ({f \in Sns : post'[f][c] = "post"} \cup Unsent(conn'[c])) \ (Seen(c) \cup {e})
          /\ Owed(c) = ({f \in Sns : post[f][c] = "post"} \cup Unsent(conn[c])) \ Seen(c)
      BY <1>7, <2>1 DEF Owed
    <3> HIDE DEF Unsent, Seen
    <3> QED BY <3>1, <3>2
  <2>3. CASE e \in Seen(c)
    <3>1. e \notin Owed(c)
      BY <2>3 DEF Owed
    <3>2. Seen(c)' = Seen(c) /\ Owed(c)' = Owed(c)
      BY <2>1, <2>2, <2>3, <3>1
    <3> QED BY <1>1, <1>3, <1>4, <1>5, <3>2 DEF PromiseKept, Promise!vars
  <2>4. CASE e \notin Seen(c)
    <3>1. e \in Owed(c)
      BY <1>7, <2>4 DEF Owed
    <3>2. [d \in Conns |-> Owed(d)]' = [[d \in Conns |-> Owed(d)] EXCEPT ![c] = @ \ {e}]
      BY <1>3, <2>2
    <3>3. [d \in Conns |-> Seen(d)]' = [[d \in Conns |-> Seen(d)] EXCEPT ![c] = @ \cup {e}]
      BY <1>3, <2>1
    <3>4. Promise!Deliver(c, e)
      BY <1>4, <1>5, <3>1, <3>2, <3>3 DEF Promise!Deliver
    <3> QED BY <1>1, <3>4 DEF PromiseKept, Promise!Next
  <2> QED BY <2>3, <2>4
<1> QED BY <1>6, <1>7
-----------------------------------------------------------------------------
LEMMA PartsOfBacklog ==
  ASSUME NEW S, NEW s \in Seq(S), s # << >>
  PROVE  /\ Tail(s) \in Seq(S) /\ Head(s) \in S /\ Head(s) \in ToSet(s)
         /\ ToSet(Tail(s)) \subseteq ToSet(s)
<1>1. /\ Len(s) \in Nat \ {0} /\ DOMAIN s = 1 .. Len(s)
      /\ Head(s) = s[1] /\ Head(s) \in S
      /\ Tail(s) \in Seq(S) /\ Len(Tail(s)) = Len(s) - 1
      /\ \A i \in 1 .. Len(Tail(s)) : Tail(s)[i] = s[i + 1]
  BY HeadTailProperties, LenProperties, EmptySeq
<1>2. DOMAIN Tail(s) = 1 .. Len(s) - 1
  BY <1>1, LenProperties
<1>3. \A i \in 1 .. Len(s) - 1 : i + 1 \in 1 .. Len(s)
  BY <1>1
<1> QED BY <1>1, <1>2, <1>3 DEF ToSet

LEMMA PromiseHandler ==
  ASSUME ServerInv, ResumeInv, Newest, Fresh, NEW c \in Conns,
         \/ HandlerWork(c) \/ HandlerLock(c) \/ AuthTimeout(c)
         \/ ReaderWork(c) \/ HeartWork(c) \/ Environment(c)
  PROVE  PromiseKept
<1> DEFINE s == conn[c]
<1>0. /\ TypeOK /\ conn \in [Conns -> ConnState] /\ s \in ConnState
      /\ Once(c, s) /\ HandedOver(c, s) /\ pushed \in Seq(Sns) /\ Events \in Seq(Sns)
  BY DEF ServerInv, TypeOK, ResumeInv
<1>1. CASE Refuse(c) \/ SkipIdentify(c) \/ RegisterLock(c) \/ LeaveLock(c)
           \/ AuthTimeout(c) \/ SignalClosed(c)
  BY <1>0, <1>1, ViewOfConn
  DEF Refuse, SkipIdentify, Takes, RegisterLock, LeaveLock, Leaving, AuthTimeout,
      SignalClosed, Exited, ConnState, SameView, Unsent
<1>2. ASSUME NEW n \in {0} \cup Sns, Identify(c, n) PROVE PromiseKept
  <2>1. PICK state : /\ ConnStep(c, state)
                     /\ state = [s EXCEPT !.sn = n, !.got = Received(c, READY),
                                   !.handler = "enter", !.heart = "run", !.reader = "recv"]
    BY <1>2 DEF Identify
  <2>2. /\ state.sn = n /\ state.handler = "enter" /\ state.got = Received(c, READY)
        /\ state.closed = s.closed /\ state.gone = s.gone
        /\ s.handler = "auth" /\ s.got = << >> /\ s.got \in Seq(Sns \cup {READY})
    BY <1>0, <1>2, <2>1 DEF Identify, Takes, Once, ConnState
  <2>3. Unsent(state) = {} /\ Unsent(s) = {}
    BY <2>2 DEF Unsent
  <2>4. ToSet(state.got) \subseteq {READY} /\ ToSet(s.got) = {}
    <3>1. << >> \in Seq({READY})
      BY EmptySeq
    <3>2. ToSet(Append(<< >>, READY)) = ToSet(<< >>) \cup {READY}
      BY <3>1, AppendHas
    <3> QED BY <2>2, <3>2, EmptyOnce DEF Received
  <2>5. /\ conn'[c] = state /\ \A d \in Conns \ {c} : conn'[d] = conn[d]
        /\ UNCHANGED <<pushed, post, overwritten, send>>
    BY <1>0, <2>1 DEF ConnStep, server, sends
  <2>6. Fresh'
    <3>1. \A e \in Sns : e # READY
      BY ServerAssumption DEF READY
    <3> QED BY <2>3, <2>4, <2>5, <3>1 DEF Fresh
  <2>7. \A d \in Conns : Seen(d)' = Seen(d)
    BY <2>4, <2>5 DEF Seen
  <2>8. \A d \in Conns : (Subscribed(d)' <=> Subscribed(d)) /\ Owed(d)' = Owed(d)
    <3>1. ~Subscribed(c) /\ ~Subscribed(c)'
      BY <2>2, <2>5 DEF Subscribed
    <3>2. Owed(c)' = Owed(c)
      BY <2>2, <2>3, <2>5, <2>7 DEF Owed
    <3>3. \A d \in Conns \ {c} : (Subscribed(d)' <=> Subscribed(d)) /\ Owed(d)' = Owed(d)
      BY <2>5, <2>7 DEF Subscribed, Owed
    <3> QED BY <3>1, <3>2, <3>3
  <2>9. [d \in Conns |-> conn[d].sn]' = [[d \in Conns |-> conn[d].sn] EXCEPT ![c] = n]
    BY <2>2, <2>5
  <2>10. /\ {d \in Conns : Subscribed(d)}' = {d \in Conns : Subscribed(d)}
         /\ [d \in Conns |-> Seen(d)]' = [d \in Conns |-> Seen(d)]
         /\ [d \in Conns |-> Owed(d)]' = [d \in Conns |-> Owed(d)]
         /\ c \notin {d \in Conns : Subscribed(d)}
    BY <2>2, <2>7, <2>8 DEF Subscribed
  <2>11. Promise!Ask(c, n)
    BY <2>5, <2>9, <2>10 DEF Promise!Ask
  <2> QED BY <2>6, <2>11 DEF PromiseKept, Promise!Next
<1>3. CASE Register(c) \/ Unregister(c)
  <2>1. Aside
    BY <1>3 DEF Register, Unregister, Aside, sends
  <2>2. PICK pc \in {"resume", "wait", "close"} :
          /\ conn' = [conn EXCEPT ![c].handler = pc]
          /\ \/ s.handler = "entering" /\ pc # "close" /\ (pc = "resume" <=> s.sn > 0)
             \/ s.handler = "leaving" /\ pc = "close"
    BY <1>3 DEF Register, Unregister, Resumes
  <2>3. /\ conn'[c] = [s EXCEPT !.handler = pc]
        /\ \A d \in Conns \ {c} : conn'[d] = conn[d]
    BY <1>0, <2>2
  <2>4. /\ conn'[c].handler = pc /\ conn'[c].got = s.got /\ conn'[c].sn = s.sn
        /\ conn'[c].closed = s.closed /\ conn'[c].gone = s.gone /\ s.sn \in Nat
        /\ Unsent(conn'[c]) = {} /\ Unsent(s) = {}
    BY <1>0, <2>2, <2>3 DEF ConnState, Unsent
  <2>5. CASE pc # "wait"
    <3>1. \A d \in Conns : SameView(conn[d], conn'[d])
      BY <2>2, <2>3, <2>4, <2>5 DEF SameView
    <3> QED BY <2>1, <3>1, ViewKept
  <2>6. CASE pc = "wait"
    <3>1. s.sn = 0
      BY <2>2, <2>4, <2>6
    <3>2. Fresh'
      BY <2>1, <2>3, <2>4 DEF Fresh, Aside
    <3>3. \A d \in Conns : Seen(d)' = Seen(d) /\ conn'[d].sn = conn[d].sn
      BY <2>3, <2>4 DEF Seen
    <3>4. \A d \in Conns : Owed(d)' = Owed(d)
      BY <2>1, <2>3, <2>4, <3>3 DEF Owed, Aside
    <3>5. \A d \in Conns \ {c} : Subscribed(d)' <=> Subscribed(d)
      BY <2>1, <2>3 DEF Subscribed, Aside
    <3>6. ~Subscribed(c)
      BY <2>2, <2>6 DEF Subscribed
    <3>7. {d \in Conns : Subscribed(d)}'
            \in {{d \in Conns : Subscribed(d)}, {d \in Conns : Subscribed(d)} \cup {c}}
      BY <3>5, <3>6
    <3>8. Promise!Missed(0) = {}
      BY DEF Promise!Missed
    <3>9. [d \in Conns |-> Owed(d)]'
            = [[d \in Conns |-> Owed(d)] EXCEPT ![c] = @ \cup (Promise!Missed(s.sn) \ Seen(c))]
      BY <3>1, <3>4, <3>8
    <3>10. Promise!Subscribe(c)
      BY <2>1, <3>3, <3>7, <3>9 DEF Promise!Subscribe, Aside
    <3> QED BY <3>2, <3>10 DEF PromiseKept, Promise!Next
  <2> QED BY <2>5, <2>6
<1>4. CASE Resume(c)
  <2> DEFINE b == Queue!Resumed(Events, s.sn)
  <2>1. PICK state : ConnStep(c, state) /\ state = [s EXCEPT !.handler = "replay", !.backlog = b]
    BY <1>4 DEF Resume
  <2>2. /\ state.handler = "replay" /\ state.backlog = b /\ s.handler = "resume"
        /\ state.got = s.got /\ state.sn = s.sn /\ state.closed = s.closed
        /\ state.gone = s.gone /\ s.sn \in Nat
    BY <1>0, <1>4, <2>1 DEF Resume, ConnState
  <2>3. s.sn # 0 /\ ~s.closed
    BY <1>0, <2>2 DEF Once, HandedOver
  <2>4. Promise!Missed(s.sn) = ToSet(b)
    BY <2>2, <2>3, MissedIsReplayed
  <2>5. ToSet(b) \subseteq ToSet(pushed)
    BY <2>4 DEF Promise!Missed, ToSet
  <2>6. /\ conn'[c] = state /\ \A d \in Conns \ {c} : conn'[d] = conn[d]
        /\ UNCHANGED <<pushed, post, overwritten, send>>
    BY <1>0, <2>1 DEF ConnStep, server, sends
  <2>7. Unsent(state) = ToSet(b) /\ Unsent(s) = {}
    BY <2>2 DEF Unsent
  <2> HIDE DEF b
  <2>8. Fresh'
    <3>1. \A e \in Sns : send[e].pc = "idle" => e \notin ToSet(b)
      BY <2>5 DEF ServerInv, PushedOnce
    <3> QED BY <2>2, <2>6, <2>7, <3>1 DEF Fresh
  <2>9. \A d \in Conns : Seen(d)' = Seen(d) /\ conn'[d].sn = conn[d].sn
    BY <2>2, <2>6 DEF Seen
  <2>10. \A d \in Conns \ {c} : (Subscribed(d)' <=> Subscribed(d)) /\ Owed(d)' = Owed(d)
    BY <2>6, <2>9 DEF Subscribed, Owed
  <2>11. CASE s.gone
    <3>1. ~Subscribed(c) /\ ~Subscribed(c)' /\ Owed(c)' = Owed(c)
      BY <2>2, <2>6, <2>11 DEF Subscribed, Owed
    <3>2. UNCHANGED Promise!vars
      BY <2>6, <2>9, <2>10, <3>1 DEF Promise!vars
    <3> QED BY <2>8, <3>2 DEF PromiseKept
  <2>12. CASE ~s.gone
    <3>1. Owed(c)' = Owed(c) \cup (Promise!Missed(s.sn) \ Seen(c))
      BY <2>2, <2>3, <2>4, <2>6, <2>7, <2>9, <2>12 DEF Owed
    <3>2. ~Subscribed(c)
      BY <2>2 DEF Subscribed
    <3>3. {d \in Conns : Subscribed(d)}'
            \in {{d \in Conns : Subscribed(d)}, {d \in Conns : Subscribed(d)} \cup {c}}
      BY <2>10, <3>2
    <3>4. [d \in Conns |-> Owed(d)]'
            = [[d \in Conns |-> Owed(d)] EXCEPT ![c] = @ \cup (Promise!Missed(s.sn) \ Seen(c))]
      BY <2>10, <3>1
    <3>5. Promise!Subscribe(c)
      BY <2>6, <2>9, <3>3, <3>4 DEF Promise!Subscribe
    <3> QED BY <2>8, <3>5 DEF PromiseKept, Promise!Next
  <2> QED BY <2>11, <2>12
<1>5. CASE Replay(c)
  <2> DEFINE e == Head(s.backlog)
  <2>1. /\ s.handler = "replay" /\ s.backlog # << >> /\ s.backlog \in Seq(Sns)
        /\ s.got \in Seq(Sns \cup {READY})
    BY <1>0, <1>5 DEF Replay, ConnState
  <2>2. /\ Tail(s.backlog) \in Seq(Sns) /\ e \in Sns
        /\ ToSet(s.backlog) = ToSet(Tail(s.backlog)) \cup {e}
    <3>1. /\ Tail(s.backlog) \in Seq(Sns) /\ e \in Sns /\ e \in ToSet(s.backlog)
          /\ ToSet(Tail(s.backlog)) \subseteq ToSet(s.backlog)
      BY <2>1, PartsOfBacklog
    <3> QED BY <2>1, <3>1, HeadOrTail
  <2>3. ~s.closed
    BY <1>0, <2>1 DEF HandedOver
  <2>4. PICK g : /\ ConnStep(c, [s EXCEPT !.backlog = Tail(s.backlog), !.got = g])
                 /\ \/ g = Received(c, e)
                    \/ g = s.got /\ s.gone
    <3>1. CASE ConnStep(c, [s EXCEPT !.backlog = Tail(@)]) /\ WriteFails(c)
      <4>1. [s EXCEPT !.backlog = Tail(s.backlog), !.got = s.got] = [s EXCEPT !.backlog = Tail(@)]
        BY <1>0 DEF ConnState
      <4> QED BY <2>3, <3>1, <4>1 DEF WriteFails
    <3>2. CASE ConnStep(c, [s EXCEPT !.backlog = Tail(@), !.got = Received(c, Head(s.backlog))])
      BY <3>2
    <3> QED BY <1>5, <3>1, <3>2 DEF Replay
  <2>5. PICK state : state = [s EXCEPT !.backlog = Tail(s.backlog), !.got = g]
    OBVIOUS
  <2>6. /\ state.handler = "replay" /\ state.backlog = Tail(s.backlog) /\ state.got = g
        /\ state.sn = s.sn /\ state.closed = s.closed /\ state.gone = s.gone
    BY <1>0, <2>1, <2>5 DEF ConnState
  <2>7. /\ s.gone => g = s.got
        /\ s.gone \/ ToSet(g) = ToSet(s.got) \cup {e}
    <3>1. ToSet(Append(s.got, e)) = ToSet(s.got) \cup {e}
      BY <2>1, <2>2, AppendHas
    <3> QED BY <2>4, <3>1 DEF Received
  <2>8. Unsent(state) \cup {e} = Unsent(s) \cup {e} /\ e \in Unsent(s)
    BY <2>1, <2>2, <2>6 DEF Unsent
  <2>9. /\ conn'[c] = state /\ \A d \in Conns \ {c} : conn'[d] = conn[d]
        /\ UNCHANGED <<pushed, post, overwritten, send>>
    BY <1>0, <2>4, <2>5 DEF ConnStep, server, sends
  <2>10. send[e].pc # "idle"
    BY <2>2, <2>8 DEF Fresh
  <2> HIDE DEF e
  <2> QED BY <1>0, <2>1, <2>2, <2>3, <2>6, <2>7, <2>8, <2>9, <2>10, Delivered
<1>6. CASE EndReplay(c)
  <2>1. PICK state : ConnStep(c, state) /\ state = [s EXCEPT !.handler = "wait"]
    BY <1>6 DEF EndReplay
  <2>2. /\ state.handler = "wait" /\ state.got = s.got /\ state.sn = s.sn
        /\ state.closed = s.closed /\ state.gone = s.gone
        /\ s.handler = "replay" /\ s.backlog = << >>
    BY <1>0, <1>6, <2>1 DEF EndReplay, ConnState
  <2>3. SameView(s, state)
    BY <2>2, EmptyOnce DEF SameView, Unsent
  <2> QED BY <1>0, <2>1, <2>3, ViewOfConn
<1>7. CASE CloseConn(c) \/ HeartSignals(c) \/ ReaderSignals(c)
  BY <1>0, <1>7, LeavesByConn
  DEF CloseConn, HeartSignals, ReaderSignals, Exited, ConnState, Unsent
<1>8. CASE \/ HandshakeReadFails(c) \/ ReceiveFails(c) \/ ReaderCloseReturns(c)
           \/ ReadErrorArrives(c) \/ Connect(c) \/ HeartbeatTimeout(c)
           \/ \E op \in ClientOps : ReceiveAtOnce(c, op)
  BY <1>0, <1>8, ViewOfConn
  DEF HandshakeReadFails, ReceiveFails, ReadError, ReaderCloseReturns, ReadErrorArrives,
      Connect, HeartbeatTimeout, ReceiveAtOnce, ConnState, SameView, Unsent
<1>9. CASE PeerGone(c)
  BY <1>0, <1>9, LeavesByConn DEF PeerGone, ConnState, Unsent
<1>10. CASE ReadyFails(c)
  <2>1. Aside /\ \A d \in Conns : SameView(conn[d], conn'[d])
    BY <1>10 DEF ReadyFails, Aside, SameView, server, sends
  <2> QED BY <2>1, ViewKept
<1> QED
  BY <1>1, <1>2, <1>3, <1>4, <1>5, <1>6, <1>7, <1>8, <1>9, <1>10
  DEF HandlerWork, HandlerLock, ReaderWork, HeartWork, Environment

LEMMA PromisePost ==
  ASSUME ServerInv, ResumeInv, Fresh, NEW e \in Sns, NEW c \in Conns, PostWork(e, c)
  PROVE  PromiseKept
<1> DEFINE s == conn[c]
<1>0. /\ TypeOK /\ conn \in [Conns -> ConnState] /\ s \in ConnState
      /\ post \in [Sns -> [Conns -> PostPcs]] /\ send \in [Sns -> SendState]
      /\ HandedOver(c, s)
  BY DEF ServerInv, TypeOK, ResumeInv
<1>1. /\ UNCHANGED <<overwritten, pushed>>
      /\ \A f \in Sns, d \in Conns : <<f, d>> # <<e, c>> => post'[f][d] = post[f][d]
      /\ \A d \in Conns \ {c} : conn'[d] = conn[d]
  BY <1>0 DEF PostWork, PostSucceeds, PostFails, PostSignals, Signalled, PostCloseReturns,
              server, others
<1>2. \A f \in Sns : send'[f].pc = send[f].pc
  <2>1. CASE \E ws : send' = [send EXCEPT ![e].ws = ws]
    BY <1>0, <2>1 DEF SendState
  <2>2. CASE UNCHANGED send
    BY <2>2
  <2> QED
    BY <2>1, <2>2 DEF PostWork, PostSucceeds, PostFails, PostSignals, PostCloseReturns
<1>3. post[e][c] = "post" => send[e].pc # "idle"
  BY DEF ServerInv, RegInv, ResultsOnce
<1>4. CASE PostSucceeds(e, c)
  <2>1. /\ conn'[c] = [s EXCEPT !.got = Received(c, e)]
        /\ post[e][c] = "post" /\ ~s.closed
    BY <1>0, <1>4 DEF PostSucceeds, WriteSucceeds
  <2>2. /\ conn'[c].got = Received(c, e) /\ conn'[c].handler = s.handler
        /\ conn'[c].sn = s.sn /\ conn'[c].closed = s.closed /\ conn'[c].gone = s.gone
        /\ Unsent(conn'[c]) = Unsent(s)
    BY <1>0, <2>1 DEF ConnState, Unsent
  <2>3. ToSet(Append(s.got, e)) = ToSet(s.got) \cup {e}
    <3>1. s.got \in Seq(Sns \cup {READY}) /\ e \in Sns \cup {READY}
      BY <1>0 DEF ConnState
    <3> QED BY <3>1, AppendHas
  <2>4. /\ s.gone \/ ToSet(conn'[c].got) = ToSet(s.got) \cup {e}
        /\ s.gone => conn'[c].got = s.got
    BY <2>2, <2>3 DEF Received
  <2>5. /\ e \in {f \in Sns : post[f][c] = "post"} \cup Unsent(s)
        /\ send[e].pc # "idle"
    BY <1>3, <2>1
  <2>6. /\ \A f \in Sns, d \in Conns : d # c => post'[f][d] = post[f][d]
        /\ \A f \in Sns \ {e} : post'[f][c] = "post" <=> post[f][c] = "post"
        /\ \A f \in Sns : send'[f].pc = "idle" => send[f].pc = "idle"
        /\ UNCHANGED <<pushed, overwritten>>
    BY <1>1, <1>2
  <2>7. /\ Unsent(conn'[c]) \cup {e} = Unsent(conn[c]) \cup {e}
        /\ conn[c].gone \/ conn[c].closed => conn'[c].got = conn[c].got
        /\ conn[c].gone \/ conn[c].closed \/ ToSet(conn'[c].got) = ToSet(conn[c].got) \cup {e}
    BY <2>1, <2>2, <2>4
  <2>8. /\ conn'[c].sn = conn[c].sn /\ conn'[c].gone = conn[c].gone
        /\ conn'[c].closed = conn[c].closed /\ conn'[c].handler = conn[c].handler
        /\ \A d \in Conns \ {c} : conn'[d] = conn[d]
    BY <1>1, <2>2
  <2>9. e \in {f \in Sns : post[f][c] = "post"} \cup Unsent(conn[c])
    BY <2>5
  <2> HIDE DEF Unsent
  <2> QED BY <1>0, <2>5, <2>6, <2>7, <2>8, <2>9, Delivered
<1>5. CASE PostFails(e, c)
  <2>1. /\ post[e][c] = "post" /\ (s.closed \/ s.gone) /\ UNCHANGED conn
    BY <1>5 DEF PostFails, WriteFails
  <2>2. /\ send[e].pc # "idle" /\ UNCHANGED conn
        /\ s.closed \/ s.gone
        /\ e \in {f \in Sns : post[f][c] = "post"} \cup Unsent(s)
    BY <1>3, <1>5 DEF PostFails, WriteFails
  <2> QED BY <1>0, <1>1, <1>2, <2>2, Delivered
<1>6. CASE PostSignals(e, c) \/ PostCloseReturns(e, c)
  <2>1. \A f \in Sns, d \in Conns : post'[f][d] = "post" <=> post[f][d] = "post"
    BY <1>0, <1>6 DEF PostSignals, PostCloseReturns
  <2>2. /\ conn'[c].got = s.got /\ conn'[c].sn = s.sn /\ conn'[c].closed = s.closed
        /\ conn'[c].gone = s.gone /\ conn'[c].backlog = s.backlog
        /\ \/ conn'[c].handler = s.handler
           \/ conn'[c].handler = "leave" /\ s.handler = "wait"
    BY <1>0, <1>6 DEF PostSignals, PostCloseReturns, Signalled, ConnState
  <2>3. Unsent(conn'[c]) = Unsent(s)
    BY <2>2 DEF Unsent
  <2>4. /\ Fresh'
        /\ \A d \in Conns : /\ Seen(d)' = Seen(d) /\ conn'[d].sn = conn[d].sn
    BY <1>1, <1>2, <2>2, <2>3 DEF Fresh, Seen
  <2>5. \A d \in Conns : Owed(d)' = Owed(d)
    <3>1. \A d \in Conns : {f \in Sns : post'[f][d] = "post"} = {f \in Sns : post[f][d] = "post"}
      BY <2>1
    <3> QED BY <1>1, <2>2, <2>3, <2>4, <3>1 DEF Owed
  <2>6. \A d \in Conns : d # c => (Subscribed(d)' <=> Subscribed(d))
    BY <1>1 DEF Subscribed
  <2>7. Subscribed(c)' => Subscribed(c)
    BY <1>1, <2>2 DEF Subscribed
  <2>8. \/ {d \in Conns : Subscribed(d)}' = {d \in Conns : Subscribed(d)}
        \/ {d \in Conns : Subscribed(d)}' = {d \in Conns : Subscribed(d)} \ {c}
    BY <2>6, <2>7
  <2>9. \/ UNCHANGED Promise!vars
        \/ Promise!Unsubscribe({c})
    BY <1>1, <2>4, <2>5, <2>8 DEF Promise!vars, Promise!Unsubscribe
  <2> QED BY <2>4, <2>9 DEF PromiseKept, Promise!Next
<1> QED BY <1>4, <1>5, <1>6 DEF PostWork

LEMMA PromiseSend ==
  ASSUME ServerInv, Running, ResumeInv, Fresh, NEW e \in Sns,
         StartSend(e) \/ SendWork(e) \/ SendLock(e)
  PROVE  PromiseKept
<1>0. /\ conn \in [Conns -> ConnState] /\ pushed \in Seq(Sns) /\ send \in [Sns -> SendState]
      /\ post \in [Sns -> [Conns -> PostPcs]]
      /\ \A c \in Conns : HandedOver(c, conn[c])
  BY DEF ServerInv, TypeOK, ResumeInv
<1>1. CASE StartSend(e)
  <2> DEFINE posted == ToSet(websockets) \cap Conns
  <2>1. /\ UNCHANGED <<conn, overwritten>>
        /\ pushed' = Append(pushed, e)
        /\ send[e].pc = "idle"
        /\ \A f \in Sns \ {e} : post'[f] = post[f]
        /\ \A c \in Conns : post'[e][c] = IF c \in posted THEN "post" ELSE "none"
    BY <1>0, <1>1 DEF StartSend
  <2>2. /\ e \notin ToSet(pushed)
        /\ \A c \in Conns : post[e][c] = "none"
    BY <2>1 DEF ServerInv, PushedOnce, RegInv, ResultsOnce
  <2>3. \A f \in Sns : send'[f].pc = "idle" => send[f].pc = "idle"
    BY <1>0, <1>1 DEF StartSend, SendState
  <2>4. Fresh'
    BY <2>1, <2>3 DEF Fresh
  <2>5. \A c \in Conns : /\ Seen(c)' = Seen(c) /\ (Subscribed(c)' <=> Subscribed(c))
    BY <2>1 DEF Seen, Subscribed
  <2>6. \A c \in Conns : Subscribed(c) => c \in posted
    BY <1>0 DEF HandedOver, Subscribed, Running
  <2> DEFINE some == {c \in posted : ~conn[c].gone /\ ~conn[c].closed}
  <2>7. ASSUME NEW c \in Conns
        PROVE  Owed(c)' = IF Subscribed(c) \/ c \in some THEN Owed(c) \cup {e} ELSE Owed(c)
    <3>1. {f \in Sns : post'[f][c] = "post"}
            = IF c \in posted THEN {f \in Sns : post[f][c] = "post"} \cup {e}
              ELSE {f \in Sns : post[f][c] = "post"}
      BY <2>1, <2>2
    <3>2. Subscribed(c) => c \in some
      BY <1>0, <2>6 DEF Subscribed, HandedOver
    <3>3. e \notin Seen(c)
      BY <2>1 DEF Fresh, Seen
    <3>4. conn'[c] = conn[c]
      BY <2>1
    <3> HIDE DEF posted
    <3>5. CASE conn[c].gone \/ conn[c].closed
      BY <3>2, <3>4, <3>5 DEF Owed
    <3>6. CASE ~conn[c].gone /\ ~conn[c].closed
      <4>1. /\ Owed(c) = ({f \in Sns : post[f][c] = "post"} \cup Unsent(conn[c])) \ Seen(c)
            /\ Owed(c)' = ({f \in Sns : post'[f][c] = "post"} \cup Unsent(conn[c])) \ Seen(c)
        BY <2>5, <3>4, <3>6 DEF Owed
      <4> HIDE DEF Owed, Seen, Unsent, Subscribed
      <4>2. CASE c \in posted
        BY <3>1, <3>3, <3>6, <4>1, <4>2
      <4>3. CASE c \notin posted
        BY <3>1, <3>2, <4>1, <4>3
      <4> QED BY <4>2, <4>3
    <3> QED BY <3>5, <3>6
  <2>8. /\ e \notin Promise!Published
        /\ some \in SUBSET Conns
    BY <2>2 DEF Promise!Published, ToSet
  <2>9. /\ [c \in Conns |-> Seen(c)]' = [c \in Conns |-> Seen(c)]
        /\ {c \in Conns : Subscribed(c)}' = {c \in Conns : Subscribed(c)}
        /\ [c \in Conns |-> conn[c].sn]' = [c \in Conns |-> conn[c].sn]
    BY <2>1, <2>5
  <2> HIDE DEF some, posted
  <2>10. [c \in Conns |-> Owed(c)]'
           = [c \in Conns |-> IF c \in {d \in Conns : Subscribed(d)} \cup some
                              THEN [d \in Conns |-> Owed(d)][c] \cup {e}
                              ELSE [d \in Conns |-> Owed(d)][c]]
    BY <2>7
  <2>11. Promise!Publish(e, some)
    BY <2>1, <2>8, <2>9, <2>10 DEF Promise!Publish
  <2> QED BY <2>4, <2>8, <2>11 DEF PromiseKept, Promise!Next
<1>2. ASSUME UNCHANGED <<conn, pushed, post>>,
             \A f \in Sns : send'[f].pc = "idle" => send[f].pc = "idle",
             overwritten \subseteq overwritten'
      PROVE  PromiseKept
  <2>1. Fresh'
    BY <1>2 DEF Fresh
  <2>2. \A c \in Conns : Owed(c)' = Owed(c) /\ Seen(c)' = Seen(c)
    BY <1>2 DEF Owed, Seen
  <2>3. \A c \in Conns : Subscribed(c)' <=> Subscribed(c) /\ c \notin overwritten'
    BY <1>2 DEF Subscribed
  <2>4. {c \in Conns : Subscribed(c)}' = {c \in Conns : Subscribed(c)} \ (overwritten' \cap Conns)
    BY <2>3
  <2>5. Promise!Unsubscribe(overwritten' \cap Conns)
    BY <1>2, <2>2, <2>4 DEF Promise!Unsubscribe
  <2> QED BY <2>1, <2>5 DEF PromiseKept, Promise!Next
<1>3. CASE EndPosting(e) \/ SendLock(e)
  <2>1. PICK pc \in {"collected", "storing"} : send' = [send EXCEPT ![e].pc = pc]
    BY <1>3 DEF EndPosting, SendLock
  <2>2. \A f \in Sns : send'[f].pc = "idle" => send[f].pc = "idle"
    BY <1>0, <2>1 DEF SendState
  <2> QED BY <1>2, <1>3, <2>2 DEF EndPosting, SendLock, server
<1>4. ASSUME NEW u \in Hooks, PostHook(e, u) PROVE PromiseKept
  <2>1. \A f \in Sns : send'[f].pc = "idle" => send[f].pc = "idle"
    <3>1. CASE UNCHANGED send
      BY <3>1
    <3>2. CASE \E wh : send' = [send EXCEPT ![e].wh = wh]
      BY <1>0, <3>2 DEF SendState
    <3> QED BY <1>4, <3>1, <3>2 DEF PostHook
  <2> QED BY <1>2, <1>4, <2>1 DEF PostHook, server
<1>5. CASE SendStore(e)
  <2>1. \A f \in Sns : send'[f].pc = "idle" => send[f].pc = "idle"
    BY <1>0, <1>5 DEF SendStore, SendState
  <2> QED BY <1>2, <1>5, <2>1 DEF SendStore
<1> QED BY <1>1, <1>3, <1>4, <1>5 DEF SendWork

LEMMA PromiseClose ==
  ASSUME ServerInv, Fresh, CloseServer \/ CloseWork \/ CloseLock
  PROVE  PromiseKept
<1>0. TypeOK /\ conn \in [Conns -> ConnState]
  BY DEF ServerInv, TypeOK
<1>1. Aside
  BY DEF CloseServer, CloseWork, CloseNext, CloseReturns, CloseSignals, CloseStore, CloseLock,
         Aside, server, sends
<1>2. CASE CloseServer \/ CloseNext \/ CloseLock \/ CloseStore
  <2>1. \A d \in Conns : SameView(conn[d], conn'[d])
    BY <1>2 DEF CloseServer, CloseNext, CloseLock, CloseStore, SameView
  <2> QED BY <1>1, <2>1, ViewKept
<1>3. CASE CloseReturns
  <2>1. PICK t : conn' = [conn EXCEPT ![t].hasClosed = FALSE]
    BY <1>3 DEF CloseReturns
  <2>2. \A d \in Conns : SameView(conn[d], conn'[d])
    BY <1>0, <2>1 DEF ConnState, SameView, Unsent
  <2> QED BY <1>1, <2>2, ViewKept
<1>4. ASSUME NEW c \in Conns, CloseSignals(c) PROVE PromiseKept
  <2>1. conn[c].handler = "wait" /\ conn' = [conn EXCEPT ![c].handler = "leave"]
    BY <1>4 DEF CloseSignals, Signalled
  <2>2. /\ \A d \in Conns \ {c} : conn'[d] = conn[d]
        /\ conn'[c].sn = conn[c].sn /\ conn'[c].got = conn[c].got
        /\ conn'[c].handler = "leave" /\ Unsent(conn'[c]) = Unsent(conn[c])
        /\ conn'[c].gone = conn[c].gone /\ conn'[c].closed = conn[c].closed
    BY <1>0, <2>1 DEF ConnState, Unsent
  <2> QED BY <1>0, <1>1, <2>2, Leaves
<1> QED BY <1>2, <1>3, <1>4 DEF CloseWork

LEMMA PromiseStep ==
  ServerInv /\ ResumeInv /\ Newest /\ Fresh /\ [Next]_vars => PromiseKept
<1> SUFFICES ASSUME ServerInv, ResumeInv, Newest, Fresh, [Next]_vars PROVE PromiseKept
  OBVIOUS
<1>1. ASSUME Aside, UNCHANGED conn PROVE PromiseKept
  <2>1. \A d \in Conns : SameView(conn[d], conn'[d])
    BY <1>1 DEF SameView
  <2> QED BY <1>1, <2>1, ViewKept
<1>2. ASSUME NEW u \in Hooks,
             ApiWork(u) \/ \E op \in {"create", "delete"} : ApiLock(u, op)
      PROVE  PromiseKept
  BY <1>1, <1>2 DEF ApiWork, CreateWebHook, DeleteWebHook, ApiReturns, ApiLock, Aside,
                    server, sends
<1>3. CASE UNCHANGED vars
  BY <1>1, <1>3 DEF vars, server, sends, Aside
<1> QED
  BY <1>2, <1>3, PromiseHandler, PromisePost, PromiseSend, PromiseClose DEF Next

(* The server does for its clients what module Subscription promises:        *)
(* registration, replay and live push, whatever Sends and clean-ups          *)
(* interleave with them, are one step to a subscriber, who is owed all that  *)
(* was published after the event it named and from then on.                  *)
THEOREM ImplementsSubscriptionCorrect == Spec => ImplementsSubscription
<1>1. Init => Newest /\ Fresh /\ Promise!Init
  <2> SUFFICES ASSUME Init PROVE Newest /\ Fresh /\ Promise!Init
    OBVIOUS
  <2>1. Newest
    BY EmptySeq, ServerAssumption DEF Init, Newest
  <2>2. \A c \in Conns : conn[c] = NewConn
    BY DEF Init
  <2>3. \A c \in Conns : /\ ~Subscribed(c) /\ Seen(c) = {} /\ Owed(c) = {}
                        /\ conn[c].sn = 0 /\ ToSet(conn[c].got) = {}
                        /\ Unsent(conn[c]) = {}
    <3>1. \A c \in Conns : ToSet(conn[c].got) = {} /\ Unsent(conn[c]) = {}
      BY <2>2, EmptyOnce DEF NewConn, Unsent
    <3>2. \A c \in Conns : {e \in Sns : post[e][c] = "post"} = {}
      BY DEF Init
    <3>3. \A c \in Conns : conn[c].handler = "idle" /\ conn[c].sn = 0
      BY <2>2 DEF NewConn
    <3>4. \A c \in Conns : ~Subscribed(c) /\ Seen(c) = {}
      BY <3>1, <3>3 DEF Subscribed, Seen
    <3>5. \A c \in Conns : Owed(c) = {}
      BY <3>1, <3>2 DEF Owed
    <3> QED BY <3>1, <3>3, <3>4, <3>5
  <2>4. Fresh
    BY <2>3 DEF Fresh
  <2>5. Promise!Init
    BY <2>3 DEF Init, Promise!Init
  <2> QED BY <2>1, <2>4, <2>5
<1>2. ServerInv /\ Newest /\ [Next]_vars => Newest'
  BY NewestStep DEF ServerInv
<1>3. ServerInv /\ ResumeInv /\ Newest /\ Fresh /\ [Next]_vars =>
        Fresh' /\ [Promise!Next]_Promise!vars
  BY PromiseStep DEF PromiseKept
<1> QED
  BY <1>1, <1>2, <1>3, ServerInvariant, ResumeInvariant, PTL
  DEF Spec, ImplementsSubscription, Promise!Spec
=============================================================================
