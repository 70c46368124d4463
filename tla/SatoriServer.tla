---------------------------- MODULE SatoriServer ----------------------------
(***************************************************************************)
(* The push side of the Satori server: server/server.go (Server.Send,      *)
(* Server.Close), server/websocket.go (a connection: its handler, its      *)
(* reader and its heartbeat goroutine) and server/webhook.go.  Goroutines  *)
(* meet at server.rwMutex, and for each connection at the unbuffered       *)
(* channel isClosed and at the channel hasClosed, of capacity 1.           *)
(***************************************************************************)
EXTENDS Integers, Sequences, FiniteSets, SequencesExt

CONSTANTS
  Conns,         \* the WebSocket connections of a run
  Sns,           \* the events of a run, by sequence number
  Hooks,         \* the webhook URLs of a run
  Capacity,      \* capacity of the event queue
  ClientOps,     \* what clients send first: subset of AllClientOps
  Faulty,        \* connections whose client may vanish or fall silent
  MayShutdown    \* whether the process may be told to stop

AllClientOps == {"identify", "badIdentify", "other", "garbage"}

ASSUME ServerAssumption ==
  /\ Capacity \in Nat \ {0}
  /\ Sns \subseteq Nat
  /\ 0 \notin Conns
  /\ ClientOps \subseteq AllClientOps
  /\ Faulty \subseteq Conns
  /\ MayShutdown \in BOOLEAN

VARIABLES
  websockets,    \* server.websockets: a sequence of connections
  webhooks,      \* server.webhooks: a sequence of URLs
  overwritten,   \* history: registered connections a Send wrote out of the list
  Events,        \* server.events: the queue
  pushed,        \* history: every event pushed to the queue, in order
  writer,        \* rwMutex: a writer has announced itself (and may hold it)
  send,          \* the call Server.Send(e): its pc and its surviving results
  post,          \* its goroutine that posts event e to connection c
  hook,          \* its goroutine that posts event e to webhook u
  conn,          \* a connection: the goroutines and the fields of WebSocket
  api,           \* a CreateWebHook or DeleteWebHook call for a URL
  close,         \* Server.Close, called by main on a signal
  crashed        \* log.Fatalf has ended the process

server == <<websockets, webhooks, overwritten, Events, pushed>>
sends  == <<send, post, hook>>
others == <<api, close, crashed>>
vars   == <<server, writer, sends, conn, others>>

Queue == INSTANCE EventQueue WITH
           Sns <- Sns, Capacity <- Capacity, Events <- Events, pushed <- pushed

READY == -1               \* a READY operation among the messages of a client
NoConn == 0               \* nil

SendState == [pc : {"idle", "posting", "collected", "storing", "done"},
              ws : Seq(Conns), wh : Seq(Hooks)]
PostPcs == {"none", "post", "closeSend", "closeWait", "ok", "nil"}
HookPcs == {"none", "post", "done"}
ConnState ==
  [handler : {"idle", "auth", "enter", "entering", "resume", "replay", "wait",
              "leave", "leaving", "close", "signal", "exit"},
   reader : {"none", "auth", "offer", "recv", "closeSend", "closeWait",
             "closed", "done"},   \* receiveAtOnce, then receive
   heart : {"none", "run", "closeSend", "done"},   \* listenHeartbeat
   offered : AllClientOps,        \* the operation receiveAtOnce hands over
   errChan : BOOLEAN,             \* receive has left its error there
   hasClosed : BOOLEAN,           \* the channel holds its one value
   closed : BOOLEAN,              \* conn.Close was called
   gone : BOOLEAN,                \* the client has disconnected
   sn : Nat,                      \* the sequence number of its IDENTIFY
   backlog : Seq(Sns),            \* what ResumeEvents returned and is unsent
   got : Seq(Sns \cup {READY})]   \* what was written to a client still there
CloseState ==
  [pc : {"run", "range", "closeSend", "closeWait", "locking", "done"},
   view : Seq(Conns),             \* the slice it ranges over
   index : Nat \ {0},             \* the slot it reads next
   target : Conns \cup {NoConn},  \* the connection it is closing
   aliased : BOOLEAN]             \* server.websockets shares its array

TypeOK ==
  /\ websockets \in Seq(Conns) /\ webhooks \in Seq(Hooks)
  /\ overwritten \in SUBSET Conns
  /\ Events \in Seq(Sns) /\ pushed \in Seq(Sns)
  /\ writer \in BOOLEAN /\ crashed \in BOOLEAN
  /\ send \in [Sns -> SendState]
  /\ post \in [Sns -> [Conns -> PostPcs]]
  /\ hook \in [Sns -> [Hooks -> HookPcs]]
  /\ conn \in [Conns -> ConnState]
  /\ api \in [Hooks -> {"idle", "create", "delete"}]
  /\ close \in CloseState

NewConn ==
  [handler |-> "idle", reader |-> "none", heart |-> "none",
   offered |-> "garbage", errChan |-> FALSE, hasClosed |-> FALSE,
   closed |-> FALSE, gone |-> FALSE, sn |-> 0, backlog |-> << >>, got |-> << >>]

Init ==
  /\ websockets = << >> /\ webhooks = << >> /\ overwritten = {}
  /\ Events = << >> /\ pushed = << >>
  /\ writer = FALSE /\ crashed = FALSE
  /\ send = [e \in Sns |-> [pc |-> "idle", ws |-> << >>, wh |-> << >>]]
  /\ post = [e \in Sns |-> [c \in Conns |-> "none"]]
  /\ hook = [e \in Sns |-> [u \in Hooks |-> "none"]]
  /\ conn = [c \in Conns |-> NewConn]
  /\ api = [u \in Hooks |-> "idle"]
  /\ close = [pc |-> "run", view |-> << >>, index |-> 1, target |-> NoConn,
              aliased |-> FALSE]
-----------------------------------------------------------------------------
(* rwMutex.  A Send holds the read lock while it is posting.  Lock() first   *)
(* announces the writer, which keeps new readers and other writers out, and  *)
(* then waits until the readers it found have left.                          *)
ReadLocked == \E e \in Sns : send[e].pc = "posting"

AnnounceUnguarded == writer' = TRUE

Announce == ~writer /\ writer' = TRUE

Acquired == writer /\ ~ReadLocked

Unlock == writer' = FALSE

(* A write to c fails once the connection is closed on this side and may     *)
(* fail once the client is gone; what a vanished client is sent is lost.     *)
WriteSucceeds(c) == ~conn[c].closed
WriteFails(c) == conn[c].closed \/ conn[c].gone
Received(c, m) == IF conn[c].gone THEN conn[c].got ELSE Append(conn[c].got, m)
-----------------------------------------------------------------------------
(***************************************************************************)
(* Server.Send                                                             *)
(***************************************************************************)
EventsIfConnected(e) ==
  IF websockets = << >> THEN Events ELSE Queue!Pushed(Events, e)

EventsAfter(e) == Queue!Pushed(Events, e)

(* RLock, PushEvent, and one goroutine per connection and webhook.           *)
StartSend(e) ==
  /\ send[e].pc = "idle"
  /\ ~writer
  /\ send' = [send EXCEPT ![e].pc = "posting"]
  /\ Events' = EventsAfter(e)
  /\ pushed' = Append(pushed, e)
  /\ post' = [post EXCEPT ![e] = [c \in Conns |->
                IF c \in ToSet(websockets) THEN "post" ELSE "none"]]
  /\ hook' = [hook EXCEPT ![e] = [u \in Hooks |->
                IF u \in ToSet(webhooks) THEN "post" ELSE "none"]]
  /\ UNCHANGED <<websockets, webhooks, overwritten, writer, conn, others>>

PostSucceeds(e, c) ==
  /\ post[e][c] = "post"
  /\ WriteSucceeds(c)
  /\ conn' = [conn EXCEPT ![c].got = Received(c, e)]
  /\ post' = [post EXCEPT ![e][c] = "ok"]
  /\ send' = [send EXCEPT ![e].ws = Append(@, c)]
  /\ UNCHANGED <<server, writer, hook, others>>

(* PostEvent returned an error: the goroutine calls ws.Close() and blocks on *)
(* isClosed.  The read lock of Send stays held.                              *)
PostFails(e, c) ==
  /\ post[e][c] = "post"
  /\ WriteFails(c)
  /\ post' = [post EXCEPT ![e][c] = "closeSend"]
  /\ UNCHANGED <<server, writer, send, hook, conn, others>>

(* ws.Close() would return when it receives from hasClosed; the result is    *)
(* nil, which the loop over the results drops.  It never does: the handler   *)
(* needs the lock to get that far (see PostingEnds).                         *)
PostCloseReturns(e, c) ==
  /\ post[e][c] = "closeWait"
  /\ conn[c].hasClosed
  /\ conn' = [conn EXCEPT ![c].hasClosed = FALSE]
  /\ post' = [post EXCEPT ![e][c] = "nil"]
  /\ UNCHANGED <<server, writer, send, hook, others>>

(* A webhook answers 2xx or 5xx and is kept, or answers 4xx or cannot be     *)
(* reached and is not.                                                       *)
PostHook(e, u) ==
  /\ hook[e][u] = "post"
  /\ hook' = [hook EXCEPT ![e][u] = "done"]
  /\ \/ send' = [send EXCEPT ![e].wh = Append(@, u)]
     \/ UNCHANGED send
  /\ UNCHANGED <<server, writer, post, conn, others>>

(* waitGroup.Wait() returns and the read lock is released.                   *)
EndPosting(e) ==
  /\ send[e].pc = "posting"
  /\ \A c \in Conns : post[e][c] \in {"none", "ok", "nil"}
  /\ \A u \in Hooks : hook[e][u] \in {"none", "done"}
  /\ send' = [send EXCEPT ![e].pc = "collected"]
  /\ UNCHANGED <<server, writer, post, hook, conn, others>>

SendLock(e) ==
  /\ send[e].pc = "collected"
  /\ Announce
  /\ send' = [send EXCEPT ![e].pc = "storing"]
  /\ UNCHANGED <<server, post, hook, conn, others>>

SurvivorsAppended(e) == websockets \o send[e].ws

SurvivorsPrefilled(e) == <<NoConn>> \o send[e].ws

Survivors(e) == send[e].ws

(* Both lists are replaced by the survivors of this Send, whatever was       *)
(* registered or removed since it took its snapshot.                         *)
SendStore(e) ==
  /\ send[e].pc = "storing"
  /\ Acquired
  /\ websockets' = Survivors(e)
  /\ webhooks' = send[e].wh
  /\ overwritten' = overwritten \cup (ToSet(websockets) \ ToSet(send[e].ws))
  /\ close' = [close EXCEPT !.aliased = FALSE]
  /\ Unlock
  /\ send' = [send EXCEPT ![e] = [pc |-> "done", ws |-> << >>, wh |-> << >>]]
  /\ UNCHANGED <<Events, pushed, post, hook, conn, api, crashed>>
-----------------------------------------------------------------------------
(***************************************************************************)
(* webSocketHandler: the handshake                                         *)
(***************************************************************************)
(* A step of connection c alone.                                             *)
ConnStep(c, state) ==
  /\ conn' = [conn EXCEPT ![c] = state]
  /\ UNCHANGED <<server, sends, others>>

(* The upgrade succeeded; the handler and a first receiveAtOnce are running. *)
Connect(c) ==
  /\ conn[c].handler = "idle"
  /\ ConnStep(c, [conn[c] EXCEPT !.handler = "auth", !.reader = "auth"])
  /\ UNCHANGED writer

(* receiveAtOnce has read a message.  One that is not JSON ends it without a *)
(* word to the handler, which starts no other.                               *)
ReceiveAtOnce(c, op) ==
  /\ conn[c].reader = "auth" /\ ~conn[c].gone
  /\ ConnStep(c, [conn[c] EXCEPT !.offered = op,
                    !.reader = IF op = "garbage" THEN "done" ELSE "offer"])
  /\ UNCHANGED writer

(* The handler takes what receiveAtOnce offers.                              *)
Takes(c, op) == /\ conn[c].handler = "auth" /\ conn[c].reader = "offer"
                /\ conn[c].offered = op

(* A refused IDENTIFY: the loop continues with a new receiveAtOnce.          *)
Refuse(c) ==
  /\ Takes(c, "badIdentify")
  /\ ConnStep(c, [conn[c] EXCEPT !.reader = "auth"])
  /\ UNCHANGED writer

(* An accepted IDENTIFY is answered by READY and ends the loop, after which  *)
(* the handler starts listenHeartbeat and goes on to register.  A client     *)
(* resumes from an event it was sent, or from the start (s = 0).             *)
Identify(c, s) ==
  /\ Takes(c, "identify")
  /\ s \in {0} \cup ToSet(pushed)
  /\ WriteSucceeds(c)
  /\ ConnStep(c, [conn[c] EXCEPT !.sn = s, !.got = Received(c, READY),
                    !.handler = "enter", !.heart = "run", !.reader = "recv"])
  /\ UNCHANGED writer

(* Any other operation falls out of the if and of the loop.                  *)
SkipIdentify(c) ==
  /\ Takes(c, "other")
  /\ ConnStep(c, [conn[c] EXCEPT !.handler = "enter", !.heart = "run",
                                 !.reader = "recv"])
  /\ UNCHANGED writer

(* READY cannot be written: log.Fatalf exits the process.                    *)
ReadyFails(c) ==
  /\ Takes(c, "identify")
  /\ WriteFails(c)
  /\ crashed' = TRUE
  /\ UNCHANGED <<server, writer, sends, conn, api, close>>

ExitedSilently(c) == [conn[c] EXCEPT !.handler = "exit"]

Exited(c) == [conn[c] EXCEPT !.handler = "exit", !.hasClosed = TRUE]

(* The 10 s timer: the handler returns, and the only deferred function there *)
(* is sends to hasClosed.                                                    *)
AuthTimeout(c) ==
  /\ conn[c].handler = "auth"
  /\ ConnStep(c, Exited(c))
  /\ UNCHANGED writer
-----------------------------------------------------------------------------
(***************************************************************************)
(* webSocketHandler: registration, replay, waiting, clean-up               *)
(***************************************************************************)
RegisterLock(c) ==
  /\ conn[c].handler = "enter"
  /\ Announce
  /\ ConnStep(c, [conn[c] EXCEPT !.handler = "entering"])

ResumesAlways(c) == conn[c].sn >= 0

ResumesAfterFirst(c) == conn[c].sn > 1

Resumes(c) == conn[c].sn > 0

(* append() writes behind the list, in the array it may share with the slice *)
(* Server.Close ranges over, or moves the list to an array of its own.       *)
AppendedInPlace(c) ==
  IF close.aliased /\ Len(websockets) < Len(close.view)
  THEN {[close EXCEPT !.view[Len(websockets) + 1] = c]}
  ELSE {close, [close EXCEPT !.aliased = FALSE]}

Register(c) ==
  /\ conn[c].handler = "entering"
  /\ Acquired
  /\ websockets' = Append(websockets, c)
  /\ close' \in AppendedInPlace(c)
  /\ Unlock
  /\ conn' = [conn EXCEPT ![c].handler = IF Resumes(c) THEN "resume" ELSE "wait"]
  /\ UNCHANGED <<webhooks, overwritten, Events, pushed, sends, api, crashed>>

Resume(c) ==
  /\ conn[c].handler = "resume"
  /\ ConnStep(c, [conn[c] EXCEPT !.handler = "replay",
                    !.backlog = Queue!Resumed(Events, conn[c].sn)])
  /\ UNCHANGED writer

(* One event of the backlog.  A failed write is logged and the loop goes on. *)
Replay(c) ==
  /\ conn[c].handler = "replay" /\ conn[c].backlog # << >>
  /\ \/ /\ WriteSucceeds(c)
        /\ ConnStep(c, [conn[c] EXCEPT !.backlog = Tail(@),
                          !.got = Received(c, Head(conn[c].backlog))])
     \/ /\ WriteFails(c)
        /\ ConnStep(c, [conn[c] EXCEPT !.backlog = Tail(@)])
  /\ UNCHANGED writer

EndReplay(c) ==
  /\ conn[c].handler = "replay" /\ conn[c].backlog = << >>
  /\ ConnStep(c, [conn[c] EXCEPT !.handler = "wait"])
  /\ UNCHANGED writer

(* The handler receives from isClosed at two places, in the handshake and    *)
(* when all is set up; only the reader closes a connection in its handshake. *)
Signalled(c) ==
  /\ conn[c].handler = "wait"
  /\ conn' = [conn EXCEPT ![c].handler = "leave"]

(* listenHeartbeat sends and is done.                                        *)
HeartSignals(c) ==
  /\ conn[c].handler = "wait" /\ conn[c].heart = "closeSend"
  /\ ConnStep(c, [conn[c] EXCEPT !.handler = "leave", !.heart = "done"])
  /\ UNCHANGED writer

(* The ws.Close() of the reader sends, then waits for hasClosed.             *)
ReaderSignals(c) ==
  /\ conn[c].reader = "closeSend"
  /\ \/ /\ conn[c].handler = "auth"
        /\ ConnStep(c, [Exited(c) EXCEPT !.reader = "closeWait"])
     \/ /\ conn[c].handler = "wait"
        /\ ConnStep(c, [conn[c] EXCEPT !.handler = "leave",
                                       !.reader = "closeWait"])
  /\ UNCHANGED writer

(* The ws.Close() of a posting goroutine.                                    *)
PostSignals(e, c) ==
  /\ post[e][c] = "closeSend"
  /\ Signalled(c)
  /\ post' = [post EXCEPT ![e][c] = "closeWait"]
  /\ UNCHANGED <<server, writer, send, hook, others>>

(* The ws.Close() of Server.Close.                                           *)
CloseSignals(c) ==
  /\ close.pc = "closeSend" /\ close.target = c
  /\ Signalled(c)
  /\ close' = [close EXCEPT !.pc = "closeWait"]
  /\ UNCHANGED <<server, writer, sends, api, crashed>>

LeavingSignalled(c) ==
  [conn[c] EXCEPT !.handler = "leaving", !.hasClosed = TRUE]

Leaving(c) == [conn[c] EXCEPT !.handler = "leaving"]

LeaveLock(c) ==
  /\ conn[c].handler = "leave"
  /\ Announce
  /\ ConnStep(c, Leaving(c))

(* The loops that delete x from a list stop at its first occurrence.         *)
FirstAt(list, x, i) == list[i] = x /\ \A j \in 1 .. (i - 1) : list[j] # x

(* Deleting slot i in place moves the tail one slot down, under the feet of  *)
(* the loop of Server.Close as long as it ranges over the same array.        *)
DeletedInPlace(i) ==
  IF close.aliased
  THEN [j \in DOMAIN close.view |-> IF i <= j /\ j < Len(websockets)
                                    THEN websockets[j + 1] ELSE close.view[j]]
  ELSE close.view

Unregister(c) ==
  /\ conn[c].handler = "leaving"
  /\ Acquired
  /\ \/ \E i \in DOMAIN websockets :
          /\ FirstAt(websockets, c, i)
          /\ websockets' = RemoveAt(websockets, i)
          /\ close' = [close EXCEPT !.view = DeletedInPlace(i)]
     \/ /\ c \notin ToSet(websockets)
        /\ UNCHANGED <<websockets, close>>
  /\ Unlock
  /\ conn' = [conn EXCEPT ![c].handler = "close"]
  /\ UNCHANGED <<webhooks, overwritten, Events, pushed, sends, api, crashed>>

CloseConn(c) ==
  /\ conn[c].handler = "close"
  /\ ConnStep(c, [conn[c] EXCEPT !.handler = "signal", !.closed = TRUE])
  /\ UNCHANGED writer

(* The deferred function registered first runs last.                         *)
SignalClosed(c) ==
  /\ conn[c].handler = "signal"
  /\ ConnStep(c, Exited(c))
  /\ UNCHANGED writer
-----------------------------------------------------------------------------
(***************************************************************************)
(* The reader and the heartbeat goroutine of a connection                  *)
(***************************************************************************)
(* receiveAtOnce cannot read: it calls ws.Close().                           *)
HandshakeReadFails(c) ==
  /\ conn[c].reader = "auth" /\ conn[c].gone
  /\ ConnStep(c, [conn[c] EXCEPT !.reader = "closeSend"])
  /\ UNCHANGED writer

ReadErrorIgnored(c) == [conn[c] EXCEPT !.reader = "done"]

ReadError(c) == [conn[c] EXCEPT !.reader = "closeSend", !.errChan = TRUE]

(* receive cannot read: it leaves the error in errChan and calls ws.Close(). *)
ReceiveFails(c) ==
  /\ conn[c].reader = "recv" /\ (conn[c].gone \/ conn[c].closed)
  /\ ConnStep(c, ReadError(c))
  /\ UNCHANGED writer

ReaderCloseReturns(c) ==
  /\ conn[c].reader = "closeWait" /\ conn[c].hasClosed
  /\ ConnStep(c, [conn[c] EXCEPT !.reader = "closed", !.hasClosed = FALSE])
  /\ UNCHANGED writer

(* listenHeartbeat receives the read error and turns to isClosed.            *)
ReadErrorArrives(c) ==
  /\ conn[c].heart = "run" /\ conn[c].errChan
  /\ ConnStep(c, [conn[c] EXCEPT !.heart = "closeSend", !.errChan = FALSE])
  /\ UNCHANGED writer

(* No PING for the length of the timer.  (Answering a PING changes nothing   *)
(* but that timer.)                                                          *)
HeartbeatTimeout(c) ==
  /\ c \in Faulty
  /\ conn[c].heart = "run"
  /\ ConnStep(c, [conn[c] EXCEPT !.heart = "closeSend"])
  /\ UNCHANGED writer

PeerGone(c) ==
  /\ c \in Faulty
  /\ conn[c].handler # "idle" /\ ~conn[c].gone
  /\ ConnStep(c, [conn[c] EXCEPT !.gone = TRUE])
  /\ UNCHANGED writer
-----------------------------------------------------------------------------
(***************************************************************************)
(* CreateWebHook and DeleteWebHook                                         *)
(***************************************************************************)
ApiLock(u, op) ==
  /\ api[u] = "idle"
  /\ Announce
  /\ api' = [api EXCEPT ![u] = op]
  /\ UNCHANGED <<server, sends, conn, close, crashed>>

ApiReturns(u) ==
  /\ api' = [api EXCEPT ![u] = "idle"]
  /\ UNCHANGED <<websockets, overwritten, Events, pushed, sends, conn, close,
                 crashed>>

CreateKeepsLock(u) ==
  /\ api[u] = "create"
  /\ Acquired
  /\ webhooks' = IF u \in ToSet(webhooks) THEN webhooks ELSE Append(webhooks, u)
  /\ writer' = (u \in ToSet(webhooks))
  /\ ApiReturns(u)

CreateUnchecked(u) ==
  /\ api[u] = "create"
  /\ Acquired
  /\ webhooks' = Append(webhooks, u)
  /\ Unlock
  /\ ApiReturns(u)

CreateWebHook(u) ==
  /\ api[u] = "create"
  /\ Acquired
  /\ webhooks' = IF u \in ToSet(webhooks) THEN webhooks ELSE Append(webhooks, u)
  /\ Unlock
  /\ ApiReturns(u)

DeleteWebHook(u) ==
  /\ api[u] = "delete"
  /\ Acquired
  /\ \/ \E i \in DOMAIN webhooks : /\ FirstAt(webhooks, u, i)
                                  /\ webhooks' = RemoveAt(webhooks, i)
     \/ u \notin ToSet(webhooks) /\ UNCHANGED webhooks
  /\ Unlock
  /\ ApiReturns(u)
-----------------------------------------------------------------------------
(***************************************************************************)
(* Server.Close: closes every connection of the slice it finds, without    *)
(* the lock, then takes the lock for the rest.                             *)
(***************************************************************************)
CloseServer ==
  /\ MayShutdown
  /\ close.pc = "run"
  /\ close' = [close EXCEPT !.pc = "range", !.view = websockets, !.aliased = TRUE]
  /\ UNCHANGED <<server, writer, sends, conn, api, crashed>>

(* The loop reads its slot and calls ws.Close() on the connection in it.     *)
CloseNext ==
  /\ close.pc = "range" /\ close.index <= Len(close.view)
  /\ close' = [close EXCEPT !.pc = "closeSend", !.index = @ + 1,
                            !.target = close.view[close.index]]
  /\ UNCHANGED <<server, writer, sends, conn, api, crashed>>

CloseReturns ==
  /\ close.pc = "closeWait" /\ conn[close.target].hasClosed
  /\ conn' = [conn EXCEPT ![close.target].hasClosed = FALSE]
  /\ close' = [close EXCEPT !.pc = "range"]
  /\ UNCHANGED <<server, writer, sends, api, crashed>>

CloseLock ==
  /\ close.pc = "range" /\ close.index > Len(close.view)
  /\ Announce
  /\ close' = [close EXCEPT !.pc = "locking"]
  /\ UNCHANGED <<server, sends, conn, api, crashed>>

(* Both lists are emptied and the HTTP server is shut down (5 s at most)     *)
(* before the lock is released; then main returns.                           *)
CloseStore ==
  /\ close.pc = "locking"
  /\ Acquired
  /\ websockets' = << >> /\ webhooks' = << >>
  /\ Unlock
  /\ close' = [close EXCEPT !.pc = "done", !.aliased = FALSE]
  /\ UNCHANGED <<overwritten, Events, pushed, sends, conn, api, crashed>>
-----------------------------------------------------------------------------
(* main has not returned and log.Fatalf has not been called.                 *)
Running == ~crashed /\ close.pc # "done"

PostWork(e, c) == \/ PostSucceeds(e, c) \/ PostFails(e, c)
                  \/ PostSignals(e, c) \/ PostCloseReturns(e, c)

SendWork(e) == \/ EndPosting(e) \/ SendStore(e)
               \/ \E u \in Hooks : PostHook(e, u)

HandlerWork(c) ==
  \/ Refuse(c) \/ SkipIdentify(c)
  \/ \E s \in {0} \cup Sns : Identify(c, s)
  \/ Register(c) \/ Resume(c) \/ Replay(c) \/ EndReplay(c)
  \/ Unregister(c) \/ CloseConn(c) \/ SignalClosed(c)

HandlerLock(c) == RegisterLock(c) \/ LeaveLock(c)

ReaderWork(c) == \/ HandshakeReadFails(c) \/ ReceiveFails(c)
                 \/ ReaderSignals(c) \/ ReaderCloseReturns(c)

HeartWork(c) == ReadErrorArrives(c) \/ HeartSignals(c)

Environment(c) ==
  \/ Connect(c) \/ PeerGone(c) \/ HeartbeatTimeout(c) \/ ReadyFails(c)
  \/ \E op \in ClientOps : ReceiveAtOnce(c, op)

ApiWork(u) == CreateWebHook(u) \/ DeleteWebHook(u)

CloseWork == \/ CloseNext \/ CloseReturns \/ CloseStore
             \/ \E c \in Conns : CloseSignals(c)

Next ==
  /\ Running
  /\ \/ \E e \in Sns : \/ StartSend(e) \/ SendWork(e) \/ SendLock(e)
                       \/ \E c \in Conns : PostWork(e, c)
     \/ \E c \in Conns : \/ HandlerWork(c) \/ HandlerLock(c) \/ AuthTimeout(c)
                         \/ ReaderWork(c) \/ HeartWork(c) \/ Environment(c)
     \/ \E u \in Hooks : \/ \E op \in {"create", "delete"} : ApiLock(u, op)
                         \/ ApiWork(u)
     \/ CloseServer \/ CloseWork \/ CloseLock

Spec == Init /\ [][Next]_vars

(***************************************************************************)
(* Fairness: a goroutine that can run does run (the Go scheduler), timers   *)
(* fire, and Lock() is not overtaken for ever (sync.RWMutex).  Events,      *)
(* clients, API calls and the shutdown signal come or do not come.          *)
(***************************************************************************)
Fairness ==
  /\ \A e \in Sns : /\ WF_vars(Running /\ SendWork(e))
                   /\ SF_vars(Running /\ SendLock(e))
                   /\ \A c \in Conns : WF_vars(Running /\ PostWork(e, c))
  /\ \A c \in Conns : /\ WF_vars(Running /\ HandlerWork(c))
                     /\ SF_vars(Running /\ HandlerLock(c))
                     /\ WF_vars(Running /\ AuthTimeout(c))
                     /\ WF_vars(Running /\ ReaderWork(c))
                     /\ WF_vars(Running /\ HeartWork(c))
  /\ \A u \in Hooks : WF_vars(Running /\ ApiWork(u))
  /\ WF_vars(Running /\ CloseWork)
  /\ SF_vars(Running /\ CloseLock)

FairSpec == Spec /\ Fairness
-----------------------------------------------------------------------------
(***************************************************************************)
(* Safety                                                                  *)
(***************************************************************************)
(* rwMutex is taken exactly while one caller is between Lock and Unlock: no *)
(* path leaves without unlocking and none gets in beside another.           *)
Writing ==
  {<<"send", e>> : e \in {x \in Sns : send[x].pc = "storing"}}
    \cup {<<"conn", c>> :
             c \in {x \in Conns : conn[x].handler \in {"entering", "leaving"}}}
    \cup {<<"api", u>> : u \in {x \in Hooks : api[x] # "idle"}}
    \cup {<<"close", 0>> : x \in {y \in {0} : close.pc = "locking"}}

OneWriter == /\ writer <=> Writing # {}
             /\ \A p, q \in Writing : p = q

(* ws.Close() does not return before the handler has ended, and then the    *)
(* connection is closed or the client had left by itself: hasClosed is      *)
(* signalled by the last deferred function, after the clean-up.             *)
CloseReturned(c) ==
  \/ \E e \in Sns : post[e][c] = "nil"
  \/ conn[c].reader = "closed"
  \/ close.target = c /\ close.pc \notin {"closeSend", "closeWait"}

CloseMeansEnded ==
  \A c \in Conns :
    CloseReturned(c) =>
      conn[c].handler = "exit" /\ (conn[c].closed \/ conn[c].gone)

(* No connection and no webhook is registered twice, although Send writes   *)
(* back lists that others have changed meanwhile; an event is therefore     *)
(* posted to each of them by one goroutine only.                            *)
RegisteredOnce == IsInjective(websockets) /\ IsInjective(webhooks)

(* A client that does not resume (sn = 0) is never sent an event twice.     *)
NoDuplicates ==
  \A c \in Conns : conn[c].sn = 0 => IsInjective(conn[c].got)

(* The hand-over from replay to live push has no gap: a client that resumed *)
(* from an event the queue still retains has, once its replay is over, been *)
(* sent everything pushed after that event, except what is being posted to  *)
(* it right now.  (Registration comes before ResumeEvents, and PushEvent    *)
(* shares the read lock with the snapshot of the list.)  Connections that   *)
(* Send wrote out of the list are left to RegisteredWhileServed.            *)
Resumed(c) ==
  /\ conn[c].handler = "wait" /\ ~conn[c].gone /\ c \notin overwritten
  /\ conn[c].sn > 0 /\ conn[c].sn \in ToSet(Events)

NoGapOnResume ==
  \A c \in Conns : Resumed(c) =>
    \A i, j \in DOMAIN pushed :
      i < j /\ pushed[i] = conn[c].sn =>
        pushed[j] \in ToSet(conn[c].got) \/ post[pushed[j]][c] = "post"
-----------------------------------------------------------------------------
(***************************************************************************)
(* Refinement.  A client has subscribed when it is registered and, if it   *)
(* resumes, its backlog is read; it ceases to when it has gone, when its   *)
(* handler leaves, or when a Send writes it out of the list.  It is owed   *)
(* what a goroutine of a Send is about to post to it and what is left of   *)
(* its backlog.                                                            *)
(***************************************************************************)
Subscribed(c) == /\ conn[c].handler \in {"replay", "wait"}
                 /\ ~conn[c].gone /\ c \notin overwritten

Unsent(state) == IF state.handler = "replay" THEN ToSet(state.backlog) ELSE {}

Seen(c) == ToSet(conn[c].got) \ {READY}

Owed(c) ==
  IF conn[c].gone \/ conn[c].closed THEN {}
  ELSE ({e \in Sns : post[e][c] = "post"} \cup Unsent(conn[c])) \ Seen(c)

Promise == INSTANCE Subscription WITH
             Clients <- Conns, Retained <- Capacity, log <- pushed,
             asks <- [c \in Conns |-> conn[c].sn],
             subscribers <- {c \in Conns : Subscribed(c)},
             owed <- [c \in Conns |-> Owed(c)], seen <- [c \in Conns |-> Seen(c)]

(* Whatever Sends, registrations, replays and clean-ups interleave, the     *)
(* server does for its clients what module Subscription promises, as if     *)
(* registration and ResumeEvents were one step: a client is owed every      *)
(* event from then on and, if it resumes from one of the latest Capacity    *)
(* events, all it missed; nothing owed is dropped while it is subscribed.   *)
ImplementsSubscription == Promise!Spec
-----------------------------------------------------------------------------
(***************************************************************************)
(* Liveness, under FairSpec                                                *)
(***************************************************************************)
NoPostFails == \A e \in Sns, c \in Conns :
                 post[e][c] \notin {"closeSend", "closeWait", "nil"}

(* As long as no post fails, a Send that has started comes to its end: it   *)
(* gives up the read lock and gets the write lock for the write-back.       *)
SendsComplete ==
  []NoPostFails =>
    \A e \in Sns : send[e].pc = "posting" ~> send[e].pc = "done" \/ ~Running

(* As long as no post fails, the handler of a client that has left ends:    *)
(* one of the two goroutines that notice wakes it, and the clean-up gets    *)
(* the lock.                                                                *)
VanishedClientsAreReleased ==
  []NoPostFails =>
    \A c \in Conns : conn[c].gone ~> conn[c].handler = "exit" \/ ~Running

(* Server.Close comes to its end.                                           *)
ShutdownCompletes == close.pc = "range" ~> close.pc = "done"

(* It does as long as no post fails.  One fails even with healthy clients:  *)
(* a Send writes a connection that Close has ended back into the list, and  *)
(* the next Send posts to it.                                               *)
ShutdownCompletesIfPostsSucceed == []NoPostFails => ShutdownCompletes
-----------------------------------------------------------------------------
(***************************************************************************)
(* What comments of the source say and the code does not do: runs of their *)
(* own refute these, and ShutdownCompletes for three connections.          *)
(***************************************************************************)
(* server.go:259 waits for the posting goroutines to finish: they do.       *)
PostingEnds ==
  \A e \in Sns : send[e].pc = "posting" ~> send[e].pc # "posting" \/ ~Running

(* websocket.go:128 adds the connection to the server: it is in the list    *)
(* for as long as its handler serves it.                                    *)
RegisteredWhileServed ==
  \A c \in Conns :
    conn[c].handler \in {"resume", "replay", "wait"} /\ Running =>
      c \in ToSet(websockets)

(* websocket.go:134 removes the connection from the server and webhook.go:72 *)
(* deletes the webhook: what has been removed comes back only when it is    *)
(* registered again.                                                        *)
OnlyRegistrationAdds ==
  [][/\ \A c \in ToSet(websockets') \ ToSet(websockets) : conn[c].handler = "entering"
     /\ \A u \in ToSet(webhooks') \ ToSet(webhooks) : api[u] = "create"]_vars
=============================================================================
