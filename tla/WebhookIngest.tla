---------------------------- MODULE WebhookIngest ----------------------------
(***************************************************************************)
(* The webhook server of pkg/botgo, for bots that receive events by HTTP    *)
(* callbacks: each request is answered at once and goes on in a goroutine   *)
(* of its own, which looks its data up in dataMap, stores it and puts the   *)
(* payload into the queue; a listener takes it out and starts a goroutine   *)
(* that parses and handles it (EventDispatch).  The platform may send a     *)
(* callback again.  Bodies are abstract.  So are signatures, which decide   *)
(* nothing here: signatureValidateMiddleware writes 401 for a bad one but   *)
(* does not abort, and the handler behind it runs all the same.             *)
(***************************************************************************)
EXTENDS Integers, Sequences, EventDispatch

CONSTANTS
  Requests,     \* the callback requests of a run, in the order they arrive in
  Callbacks,    \* what the platform has to tell: records of id, type and data
  Undecodable,  \* data its type's parser cannot decode
  QueueSize,    \* 10000 in the source: capacity of messageQueue
  MaxUpsets     \* bound: clean-ups of the two tables and restarts of the server

ASSUME IngestAssumption ==
  /\ Requests \subseteq Nat /\ QueueSize \in Nat \ {0} /\ MaxUpsets \in Nat
  /\ \A b \in Callbacks : DOMAIN b = {"id", "type", "data"} /\ b.id # 0

VARIABLES
  listening,    \* the HTTP server accepts requests
  request,      \* the goroutine of a request, then that of its payload
  dataMap,      \* the data it holds: the clean-ups each entry has seen
  messageQueue, \* payloads, as the requests they came in
  processedIDs, \* IDs of group messages
  upsets,       \* counter of the bound
  since,        \* history: clean-ups since data went into dataMap (at most 2)
  epoch,        \* history: how often processedIDs was emptied
  handled       \* history: the requests handed to a handler, and in which epoch

ingestVars == <<listening, request, dataMap, messageQueue, processedIDs,
                upsets, since, epoch, handled>>

Data == {b.data : b \in Callbacks}
NoCallback == [id |-> 0, type |-> "none", data |-> 0]
NoRequest == [pc |-> "none", body |-> NoCallback, stale |-> FALSE]

IngestTypeOK ==
  /\ listening \in BOOLEAN
  /\ request \in [Requests ->
       [pc : {"none", "lookup", "dropped", "store", "enqueue", "queued", "parse", "done"},
        body : Callbacks \cup {NoCallback}, stale : BOOLEAN]]
  /\ \A d \in DOMAIN dataMap : d \in Data /\ dataMap[d] \in {0, 1}
  /\ messageQueue \in Seq(Requests) /\ Len(messageQueue) <= QueueSize
  /\ processedIDs \subseteq {b.id : b \in Callbacks}
  /\ since \in [Data -> 0..2]
  /\ upsets \in 0..MaxUpsets /\ epoch \in 0..MaxUpsets
  /\ handled \subseteq Requests \X (0..MaxUpsets)

IngestInit ==
  /\ listening = TRUE
  /\ request = [r \in Requests |-> NoRequest]
  /\ dataMap = [d \in {} |-> 0] /\ messageQueue = << >> /\ processedIDs = {}
  /\ since = [d \in Data |-> 2] /\ upsets = 0 /\ epoch = 0 /\ handled = {}

Body(r) == request[r].body
At(r, pc) == request[r].pc = pc
Goes(r, pc) == request' = [request EXCEPT ![r].pc = pc]
-----------------------------------------------------------------------------
(* webhookHandler: success is answered before the payload is queued.  A body *)
(* that is no payload and a validation request change nothing.               *)
Callback(r, b) ==
  /\ listening /\ At(r, "none") /\ \A q \in Requests : q < r => ~At(q, "none")
  /\ request' = [request EXCEPT ![r] = [pc |-> "lookup", body |-> b, stale |-> FALSE]]
  /\ UNCHANGED <<listening, dataMap, messageQueue, processedIDs, upsets,
                 since, epoch, handled>>

(* readMessageToQueue: the look-up and the store are two steps.  The key is  *)
(* the data alone, not its type.  stale (history) says of a callback that    *)
(* its data had gone into dataMap less than two clean-ups before.            *)
LookUp(r) ==
  /\ At(r, "lookup")
  /\ request' = [request EXCEPT ![r] =
       [@ EXCEPT !.pc = IF Body(r).data \in DOMAIN dataMap THEN "dropped" ELSE "store",
                 !.stale = since[Body(r).data] < 2]]
  /\ UNCHANGED <<listening, dataMap, messageQueue, processedIDs, upsets,
                 since, epoch, handled>>

Store(r) ==
  /\ At(r, "store") /\ Goes(r, "enqueue")
  /\ dataMap' = [d \in DOMAIN dataMap \cup {Body(r).data} |->
                   IF d = Body(r).data THEN 0 ELSE dataMap[d]]
  /\ since' = IF Body(r).data \in DOMAIN dataMap THEN since
              ELSE [since EXCEPT ![Body(r).data] = 0]
  /\ UNCHANGED <<listening, messageQueue, processedIDs, upsets, epoch, handled>>

Enqueue(r) ==
  /\ At(r, "enqueue") /\ Len(messageQueue) < QueueSize
  /\ messageQueue' = Append(messageQueue, r) /\ Goes(r, "queued")
  /\ UNCHANGED <<listening, dataMap, processedIDs, upsets, since, epoch, handled>>

ListenMessageAndHandle ==
  /\ messageQueue # << >>
  /\ messageQueue' = Tail(messageQueue) /\ Goes(Head(messageQueue), "parse")
  /\ UNCHANGED <<listening, dataMap, processedIDs, upsets, since, epoch, handled>>

(* groupAtMessageHandler claims the message's ID in one step (LoadOrStore).  *)
LoadedFirst(b) == b.id \in processedIDs      \* the meaning of "loaded" reversed
Unclaimed(b) == b.id \notin processedIDs

LoadedOnly(b) == processedIDs                \* Load without a Store
Claimed(b) == processedIDs \cup {b.id}

(* ParseAndHandle in its goroutine: the payload goes to its handler, or is    *)
(* dropped; the handler is the event processor's.                            *)
Parse(r) ==
  /\ At(r, "parse") /\ Goes(r, "done")
  /\ LET parsed == Body(r).data \notin Undecodable
         slots == Handled(Body(r).type, parsed, WebHookHandlers)
         claims == parsed /\ Body(r).type = "GROUP_AT_MESSAGE_CREATE"
     IN  /\ processedIDs' = IF claims THEN Claimed(Body(r)) ELSE processedIDs
         /\ handled' = IF slots # {} /\ (claims => Unclaimed(Body(r)))
                       THEN handled \cup {<<r, epoch>>} ELSE handled
  /\ UNCHANGED <<listening, dataMap, messageQueue, upsets, since, epoch>>
-----------------------------------------------------------------------------
(* cleanupDataMap, every five minutes: an entry older than that goes, so at  *)
(* the second clean-up after it was stored; at any moment, whatever stage    *)
(* the requests are in.                                                      *)
CleanedOfAll == {}

Cleaned == {d \in DOMAIN dataMap : dataMap[d] = 0}

Upset == upsets < MaxUpsets /\ upsets' = upsets + 1

CleanUpDataMap ==
  /\ Upset
  /\ dataMap' = [d \in Cleaned |-> 1]
  /\ since' = [d \in Data |-> IF since[d] = 2 THEN 2 ELSE since[d] + 1]
  /\ UNCHANGED <<listening, request, messageQueue, processedIDs, epoch, handled>>

(* cleanProcessedIDs, every five minutes as well: all go, whatever their age. *)
CleanProcessedIDs ==
  /\ Upset /\ epoch' = epoch + 1
  /\ processedIDs' = {}
  /\ UNCHANGED <<listening, request, dataMap, messageQueue, since, handled>>

(* ListenAndServe fails: WebhookManager starts a new server after 5 s.  What *)
(* is in the old server's queue its listener still handles.                  *)
ListenFails ==
  /\ Upset /\ listening /\ listening' = FALSE
  /\ UNCHANGED <<request, dataMap, messageQueue, processedIDs, since, epoch, handled>>

Restart ==
  /\ ~listening /\ listening' = TRUE
  /\ UNCHANGED <<request, dataMap, messageQueue, processedIDs, upsets, since, epoch,
                 handled>>

Goroutine(r) == LookUp(r) \/ Store(r) \/ Parse(r)

IngestNext ==
  \/ \E r \in Requests : (\E b \in Callbacks : Callback(r, b)) \/ Goroutine(r) \/ Enqueue(r)
  \/ ListenMessageAndHandle \/ CleanUpDataMap \/ CleanProcessedIDs
  \/ ListenFails \/ Restart

(* Goroutines run, and the listener; as many as there are, they all end, and *)
(* no sender is passed over for ever.                                        *)
IngestFairness ==
  /\ WF_ingestVars(\E r \in Requests : Goroutine(r)) /\ WF_ingestVars(\E r \in Requests : Enqueue(r))
  /\ WF_ingestVars(ListenMessageAndHandle)

IngestSpec == IngestInit /\ [][IngestNext]_ingestVars /\ IngestFairness
-----------------------------------------------------------------------------
(* A group message is handled once for all the callbacks it comes in,       *)
(* overlapping ones that pass the look-up together included, as long as     *)
(* processedIDs is not emptied in between (groupAtMessageHandler).          *)
GroupMessageOnce ==
  \A h, k \in handled :
    Body(h[1]) = Body(k[1]) /\ Body(h[1]).type = "GROUP_AT_MESSAGE_CREATE" /\ h[1] # k[1]
      => h[2] # k[2]

(* A callback that is looked up less than two clean-ups after its data went *)
(* into dataMap is dropped there and never handled (readMessageToQueue,     *)
(* cleanupDataMap), also by a server that was restarted in between: only    *)
(* callbacks that overlap and those looked up later pass.                   *)
RetryIsDropped ==
  \A r \in Requests :
    request[r].stale => At(r, "dropped") /\ \A h \in handled : h[1] # r

(* Every event that was answered with success and has a handler is handled  *)
(* in the end, unless another event with the same data was parsed in its    *)
(* place, be it one that nobody handles: the key of dataMap leaves out type *)
(* and ID.  (The process does not end: it would take accepted events along.) *)
AcceptedIsHandled ==
  \A b \in Callbacks :
    (\E r \in Requests : At(r, "lookup") /\ Body(r) = b)
    /\ Handled(b.type, b.data \notin Undecodable, WebHookHandlers) # {}
      ~> \/ \E h \in handled : Body(h[1]) = b
         \/ \E r \in Requests : At(r, "done") /\ Body(r) # b /\ Body(r).data = b.data
=============================================================================
