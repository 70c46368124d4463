---------------------------- MODULE Subscription ----------------------------
(***************************************************************************)
(* What the Satori server owes its clients, without locks, lists, queues   *)
(* and goroutines.  Events are published one after the other.  A client    *)
(* subscribes in one step: from then on it is owed each event published,   *)
(* and, if it names an event among the latest ones, all that was published *)
(* after it.  The server may end a subscription; as long as it lasts,      *)
(* nothing a client is owed is forgotten before it is delivered.           *)
(***************************************************************************)
EXTENDS Integers, Sequences

CONSTANTS Clients, Sns,
          Retained       \* how many of the latest events a client may name

VARIABLES
  log,           \* every event published, in order
  asks,          \* the event a client names, 0 for none
  subscribers,   \* the clients that are owed what is published
  owed,          \* the events a client has still to be sent
  seen           \* the events it has been sent

vars == <<log, asks, subscribers, owed, seen>>

Init == /\ log = << >> /\ subscribers = {}
        /\ asks = [c \in Clients |-> 0]
        /\ owed = [c \in Clients |-> {}]
        /\ seen = [c \in Clients |-> {}]

Published == {log[i] : i \in DOMAIN log}

(* Clients that come or go may be sent the event as well.                    *)
Publish(e, others) ==
  /\ e \notin Published
  /\ log' = Append(log, e)
  /\ owed' = [c \in Clients |-> IF c \in subscribers \cup others
                                THEN owed[c] \cup {e} ELSE owed[c]]
  /\ UNCHANGED <<asks, subscribers, seen>>

Ask(c, n) == /\ c \notin subscribers
             /\ asks' = [asks EXCEPT ![c] = n]
             /\ UNCHANGED <<log, subscribers, owed, seen>>

(* What was published after event n, if n is among the latest events.        *)
Missed(n) ==
  {log[j] : j \in {k \in DOMAIN log :
                     n # 0 /\ \E i \in DOMAIN log : /\ log[i] = n /\ i < k
                                                    /\ i > Len(log) - Retained}}

(* A subscription may be over as soon as it begins.                          *)
Subscribe(c) ==
  /\ subscribers' \in {subscribers, subscribers \cup {c}}
  /\ owed' = [owed EXCEPT ![c] = @ \cup (Missed(asks[c]) \ seen[c])]
  /\ UNCHANGED <<log, asks, seen>>

Deliver(c, e) ==
  /\ e \in owed[c]
  /\ owed' = [owed EXCEPT ![c] = @ \ {e}]
  /\ seen' = [seen EXCEPT ![c] = @ \cup {e}]
  /\ UNCHANGED <<log, asks, subscribers>>

Unsubscribe(some) == /\ subscribers' = subscribers \ some
                     /\ UNCHANGED <<log, asks, owed, seen>>

(* The client has gone, or its connection is closed.                         *)
Lose(c) == /\ subscribers' = subscribers \ {c}
           /\ owed' = [owed EXCEPT ![c] = {}]
           /\ UNCHANGED <<log, asks, seen>>

Next == \/ \E e \in Sns, some \in SUBSET Clients : Publish(e, some)
        \/ \E c \in Clients : \/ \E n \in Sns \cup {0} : Ask(c, n)
                              \/ Subscribe(c) \/ Lose(c)
                              \/ \E e \in Sns : Deliver(c, e)
        \/ \E some \in SUBSET Clients : Unsubscribe(some)

Spec == Init /\ [][Next]_vars
=============================================================================
