----------------------------- MODULE EventQueue -----------------------------
(***************************************************************************)
(* The event queue of the Satori server (server/server.go, EventQueue): a  *)
(* bounded buffer of the events pushed last, from which a client that      *)
(* reconnects is sent what it missed.  An event is its sequence number,    *)
(* the field ResumeEvents compares; processor.SaveEventID hands numbers    *)
(* out from an atomic counter, so no two events have the same one.  Each   *)
(* operation runs under the queue's mutex and is one step.                 *)
(***************************************************************************)
EXTENDS Integers, Sequences, FiniteSetsExt

CONSTANTS
  Sns,       \* the sequence numbers of the events of a run
  Capacity   \* 1000 in the source: how many events the queue retains

ASSUME CapacityAssumption == Capacity \in Nat \ {0}

VARIABLES
  Events,    \* the queue, oldest event first
  pushed     \* history: every event ever pushed, in the order of the pushes

vars == <<Events, pushed>>

Elements(q) == {q[i] : i \in DOMAIN q}

TypeOK == /\ Events \in Seq(Sns)
          /\ pushed \in Seq(Sns)
-----------------------------------------------------------------------------
(* The contents after event e is pushed onto q: the loop pops the oldest    *)
(* event until fewer than Capacity are left, then e is appended.            *)
PushedTooLate(q, e) ==
  LET excess == IF Len(q) > Capacity THEN Len(q) - Capacity ELSE 0
  IN  Append(SubSeq(q, excess + 1, Len(q)), e)

PushedNewestDropped(q, e) ==
  IF Len(q) < Capacity THEN Append(q, e)
                       ELSE Append(SubSeq(q, 1, Capacity - 1), e)

Pushed(q, e) ==
  LET excess == IF Len(q) < Capacity THEN 0 ELSE Len(q) - Capacity + 1
  IN  Append(SubSeq(q, excess + 1, Len(q)), e)

(* What ResumeEvents returns for a client whose last event was sn: all that *)
(* stands behind sn, and nothing when sn is not in the queue (any more).    *)
ResumedInclusive(q, sn) ==
  LET found == {i \in DOMAIN q : q[i] = sn}
  IN  IF found = {} THEN << >> ELSE SubSeq(q, Min(found), Len(q))

Resumed(q, sn) ==
  LET found == {i \in DOMAIN q : q[i] = sn}
  IN  IF found = {} THEN << >> ELSE SubSeq(q, Min(found) + 1, Len(q))
-----------------------------------------------------------------------------
Init == /\ Events = << >>
        /\ pushed = << >>

PushEvent(e) ==
  /\ e \notin Elements(pushed)
  /\ Events' = Pushed(Events, e)
  /\ pushed' = Append(pushed, e)

PopEvent ==
  /\ Events # << >>
  /\ Events' = Tail(Events)
  /\ UNCHANGED pushed

Clear ==
  /\ Events' = << >>
  /\ UNCHANGED pushed

Next == \/ \E e \in Sns : PushEvent(e)
        \/ PopEvent
        \/ Clear

Spec == Init /\ [][Next]_vars
-----------------------------------------------------------------------------
(* The queue never holds more than Capacity events (the loop of PushEvent). *)
Bounded == Len(Events) <= Capacity

(* The queue is always a contiguous run of the pushes up to the latest one: *)
(* eviction takes the oldest event and nothing else, and no event changes   *)
(* place (PushEvent, PopEvent).                                             *)
LatestPushes ==
  /\ Len(Events) <= Len(pushed)
  /\ Events = SubSeq(pushed, Len(pushed) - Len(Events) + 1, Len(pushed))

(* For a client whose last event is still retained, ResumeEvents returns    *)
(* exactly the events pushed after it: none missing, none twice, in order.  *)
ResumeExact ==
  \A i \in DOMAIN pushed :
    pushed[i] \in Elements(Events) =>
      Resumed(Events, pushed[i]) = SubSeq(pushed, i + 1, Len(pushed))
=============================================================================
