-------------------------- MODULE EventQueue_proofs --------------------------
(***************************************************************************)
(* Proofs about the event queue of the Satori server, for every capacity   *)
(* and every set of events.                                                *)
(***************************************************************************)
EXTENDS EventQueue, SequenceTheorems, WellFoundedInduction, TLAPS

(* What PushEvent makes of a queue: at most Capacity events, the new one    *)
(* last, and before it the end of the old queue, in its old order.          *)
LEMMA PushedProperties ==
  ASSUME NEW S, NEW q \in Seq(S), NEW e \in S
  PROVE  /\ Pushed(q, e) \in Seq(S)
         /\ Len(Pushed(q, e)) \in 1 .. Len(q) + 1
         /\ Len(q) <= Capacity =>
              Len(Pushed(q, e)) = IF Len(q) < Capacity THEN Len(q) + 1 ELSE Capacity
         /\ Pushed(q, e)[Len(Pushed(q, e))] = e
         /\ \A i \in 1 .. Len(Pushed(q, e)) - 1 :
              Pushed(q, e)[i] = q[Len(q) - Len(Pushed(q, e)) + 1 + i]
<1> DEFINE x == IF Len(q) < Capacity THEN 0 ELSE Len(q) - Capacity + 1
           kept == SubSeq(q, x + 1, Len(q))
<1>1. Pushed(q, e) = Append(kept, e)
  BY DEF Pushed
<1>2. /\ Len(q) \in Nat /\ x \in Nat /\ x <= Len(q)
      /\ Len(q) <= Capacity =>
           Len(q) - x + 1 = IF Len(q) < Capacity THEN Len(q) + 1 ELSE Capacity
  BY CapacityAssumption, LenProperties
<1> HIDE DEF x
<1>3. \A i \in (x + 1) .. Len(q) : q[i] \in S
  BY <1>2, ElementOfSeq
<1>4. /\ kept \in Seq(S)
      /\ Len(kept) = IF x + 1 <= Len(q) THEN Len(q) - (x + 1) + 1 ELSE 0
      /\ \A i \in 1 .. Len(q) - (x + 1) + 1 : kept[i] = q[x + 1 + i - 1]
  BY <1>2, <1>3, SubSeqProperties
<1> HIDE DEF kept
<1>5. /\ Len(kept) = Len(q) - x
      /\ \A i \in 1 .. Len(kept) : kept[i] = q[x + i]
  BY <1>2, <1>4
<1>6. /\ Append(kept, e) \in Seq(S)
      /\ Len(Append(kept, e)) = Len(kept) + 1
      /\ \A i \in 1 .. Len(kept) : Append(kept, e)[i] = kept[i]
      /\ Append(kept, e)[Len(kept) + 1] = e
  BY <1>4, AppendProperties
<1>7. ASSUME NEW i \in 1 .. Len(kept)
      PROVE  Append(kept, e)[i] = q[Len(q) - (Len(kept) + 1) + 1 + i]
  <2>1. Len(q) - (Len(kept) + 1) + 1 + i = x + i
    BY <1>2, <1>5
  <2> QED
    BY <2>1, <1>5, <1>6
<1>8. /\ Len(kept) + 1 \in 1 .. Len(q) + 1
      /\ Len(q) <= Capacity =>
           Len(kept) + 1 = IF Len(q) < Capacity THEN Len(q) + 1 ELSE Capacity
      /\ (Len(kept) + 1) - 1 = Len(kept)
  BY <1>2, <1>5, CapacityAssumption
<1> HIDE DEF kept
<1> QED
  BY <1>1, <1>6, <1>7, <1>8

LEMMA MinExists ==
  ASSUME NEW T \in SUBSET Nat, T # {}
  PROVE  Min(T) \in T
<1> DEFINE R == OpToRel(<, Nat)
<1>1. IsWellFoundedOn(R, Nat)
  BY NatLessThanWellFounded
<1>2. \A x, y \in Nat : y < x => <<y, x>> \in R
  BY Zenon DEF OpToRel
<1> HIDE DEF R
<1>3. PICK x \in T : \A y \in T : <<y, x>> \notin R
  BY <1>1, WFMin, Zenon
<1>4. \A y \in T : ~(y < x)
  BY <1>2, <1>3, Zenon
<1>5. \A y \in T : x <= y
  BY <1>4
<1> QED
  BY <1>3, <1>5 DEF Min

(* ResumeEvents returns the end of the queue behind the event, or nothing.  *)
LEMMA ResumedType ==
  ASSUME NEW S, NEW q \in Seq(S), NEW sn
  PROVE  Resumed(q, sn) \in Seq(S)
<1> DEFINE found == {i \in DOMAIN q : q[i] = sn}
<1>1. CASE found = {}
  BY <1>1, EmptySeq DEF Resumed
<1>2. CASE found # {}
  <2>1. Len(q) \in Nat /\ DOMAIN q = 1 .. Len(q)
    BY LenProperties
  <2>2. found \in SUBSET Nat
    BY <2>1
  <2>3. Min(found) \in 1 .. Len(q)
    BY <1>2, <2>1, <2>2, MinExists
  <2>4. Resumed(q, sn) = SubSeq(q, Min(found) + 1, Len(q))
    BY <1>2 DEF Resumed
  <2> HIDE DEF found
  <2>5. \A i \in Min(found) + 1 .. Len(q) : q[i] \in S
    BY <2>1, <2>3, ElementOfSeq
  <2> QED
    BY <2>1, <2>3, <2>4, <2>5, SubSeqProperties
<1> QED
  BY <1>1, <1>2
-----------------------------------------------------------------------------
LEMMA TypeStep == TypeOK /\ [Next]_vars => TypeOK'
<1> SUFFICES ASSUME TypeOK, [Next]_vars PROVE TypeOK'
  OBVIOUS
<1>1. ASSUME NEW e \in Sns, PushEvent(e) PROVE TypeOK'
  BY <1>1, PushedProperties, AppendProperties DEF TypeOK, PushEvent
<1>2. CASE PopEvent
  BY <1>2, HeadTailProperties DEF TypeOK, PopEvent
<1>3. CASE Clear
  BY <1>3, EmptySeq DEF TypeOK, Clear
<1>4. CASE UNCHANGED vars
  BY <1>4 DEF TypeOK, vars
<1> QED
  BY <1>1, <1>2, <1>3, <1>4 DEF Next

(* Every state of the queue is of its type.                                 *)
THEOREM TypeCorrect == Spec => []TypeOK
<1>1. Init => TypeOK
  BY EmptySeq DEF Init, TypeOK
<1> QED
  BY <1>1, TypeStep, PTL DEF Spec

(* The queue never holds more than Capacity events: PushEvent pops before   *)
(* it appends.                                                              *)
THEOREM BoundedCorrect == Spec => []Bounded
<1>1. Init => Bounded
  BY CapacityAssumption, EmptySeq DEF Init, Bounded
<1>2. TypeOK /\ Bounded /\ [Next]_vars => Bounded'
  <2> SUFFICES ASSUME TypeOK, Bounded, [Next]_vars PROVE Bounded'
    OBVIOUS
  <2> USE DEF TypeOK, Bounded
  <2>1. ASSUME NEW e \in Sns, PushEvent(e) PROVE Bounded'
    BY <2>1, PushedProperties, LenProperties, CapacityAssumption DEF PushEvent
  <2>2. CASE PopEvent
    BY <2>2, HeadTailProperties, LenProperties, CapacityAssumption DEF PopEvent
  <2>3. CASE Clear
    BY <2>3, EmptySeq, CapacityAssumption DEF Clear
  <2>4. CASE UNCHANGED vars
    BY <2>4 DEF vars
  <2> QED
    BY <2>1, <2>2, <2>3, <2>4 DEF Next
<1> QED
  BY <1>1, <1>2, TypeCorrect, PTL DEF Spec
-----------------------------------------------------------------------------
(* LatestPushes, one event at a time: the form that is easy to carry over a *)
(* step.                                                                    *)
IsEnd(q, p) ==
  /\ Len(q) <= Len(p)
  /\ \A i \in 1 .. Len(q) : q[i] = p[Len(p) - Len(q) + i]

LEMMA EndIsSubSeq ==
  ASSUME NEW q \in Seq(Sns), NEW p \in Seq(Sns), IsEnd(q, p)
  PROVE  q = SubSeq(p, Len(p) - Len(q) + 1, Len(p))
<1> DEFINE m == Len(p) - Len(q) + 1
<1>1. /\ Len(p) \in Nat /\ Len(q) \in Nat /\ m \in Int
      /\ \A i \in m .. Len(p) : p[i] \in Sns
  BY LenProperties, ElementOfSeq DEF IsEnd
<1>2. /\ SubSeq(p, m, Len(p)) \in Seq(Sns)
      /\ Len(SubSeq(p, m, Len(p))) = IF m <= Len(p) THEN Len(p) - m + 1 ELSE 0
      /\ \A i \in 1 .. Len(p) - m + 1 : SubSeq(p, m, Len(p))[i] = p[m + i - 1]
  BY <1>1, SubSeqProperties
<1>3. /\ Len(SubSeq(p, m, Len(p))) = Len(q)
      /\ \A i \in 1 .. Len(q) : SubSeq(p, m, Len(p))[i] = q[i]
  BY <1>1, <1>2 DEF IsEnd
<1> QED
  BY <1>2, <1>3, SeqEqual

(* Every push is of a new event, so an event has one place in pushed.       *)
OnePlace(p) == \A i, j \in 1 .. Len(p) : p[i] = p[j] => i = j

IInv == TypeOK /\ IsEnd(Events, pushed) /\ OnePlace(pushed)

LEMMA InvariantStep == IInv /\ [Next]_vars => IInv'
<1> SUFFICES ASSUME IInv, [Next]_vars, TypeOK'
             PROVE  IsEnd(Events', pushed') /\ OnePlace(pushed')
  BY TypeStep DEF IInv
<1> USE DEF IInv, TypeOK
<1>1. /\ Len(Events) \in Nat /\ Len(pushed) \in Nat
      /\ DOMAIN pushed = 1 .. Len(pushed)
  BY LenProperties
<1>2. ASSUME NEW e \in Sns, PushEvent(e)
      PROVE  IsEnd(Events', pushed') /\ OnePlace(pushed')
  <2>1. /\ Events' = Pushed(Events, e) /\ pushed' = Append(pushed, e)
        /\ \A i \in 1 .. Len(pushed) : pushed[i] # e
    BY <1>1, <1>2 DEF PushEvent, Elements
  <2>2. /\ Len(pushed') = Len(pushed) + 1
        /\ \A i \in 1 .. Len(pushed) : pushed'[i] = pushed[i]
        /\ pushed'[Len(pushed) + 1] = e
    BY <2>1, AppendProperties
  <2>3. /\ Len(Events') \in 1 .. Len(Events) + 1
        /\ Events'[Len(Events')] = e
        /\ \A i \in 1 .. Len(Events') - 1 :
             Events'[i] = Events[Len(Events) - Len(Events') + 1 + i]
    <3>1. Events \in Seq(Sns)
      OBVIOUS
    <3>2. /\ Len(Pushed(Events, e)) \in 1 .. Len(Events) + 1
          /\ Pushed(Events, e)[Len(Pushed(Events, e))] = e
          /\ \A i \in 1 .. Len(Pushed(Events, e)) - 1 :
               Pushed(Events, e)[i]
                 = Events[Len(Events) - Len(Pushed(Events, e)) + 1 + i]
      BY <3>1, PushedProperties
    <3> QED
      BY <2>1, <3>2
  <2>4. IsEnd(Events', pushed')
    <3>1. Len(Events') <= Len(pushed')
      BY <1>1, <2>2, <2>3 DEF IsEnd
    <3>2. ASSUME NEW i \in 1 .. Len(Events')
          PROVE  Events'[i] = pushed'[Len(pushed') - Len(Events') + i]
      <4>1. CASE i = Len(Events')
        BY <4>1, <1>1, <2>2, <2>3
      <4>2. CASE i # Len(Events')
        <5> DEFINE k == Len(Events) - Len(Events') + 1 + i
        <5>1. k \in 1 .. Len(Events) /\ Events'[i] = Events[k]
          BY <4>2, <1>1, <2>3
        <5>2. Events[k] = pushed[Len(pushed) - Len(Events) + k]
          BY <5>1 DEF IsEnd
        <5>3. /\ Len(pushed) - Len(Events) + k \in 1 .. Len(pushed)
              /\ Len(pushed) - Len(Events) + k = Len(pushed') - Len(Events') + i
          BY <5>1, <1>1, <2>2, <2>3 DEF IsEnd
        <5> QED
          BY <5>1, <5>2, <5>3, <2>2
      <4> QED
        BY <4>1, <4>2
    <3> QED
      BY <3>1, <3>2 DEF IsEnd
  <2>5. OnePlace(pushed')
    BY <1>1, <2>1, <2>2 DEF OnePlace
  <2> QED
    BY <2>4, <2>5
<1>3. CASE PopEvent
  <2>1. /\ Events' = Tail(Events) /\ pushed' = pushed
        /\ Len(Events') = Len(Events) - 1
        /\ \A i \in 1 .. Len(Events') : Events'[i] = Events[i + 1]
    BY <1>3, HeadTailProperties DEF PopEvent
  <2> QED
    BY <1>1, <2>1 DEF IsEnd
<1>4. CASE Clear
  BY <1>1, <1>4, EmptySeq DEF Clear, IsEnd
<1>5. CASE UNCHANGED vars
  BY <1>5 DEF vars
<1> QED
  BY <1>2, <1>3, <1>4, <1>5 DEF Next

LEMMA Invariant == Spec => []IInv
<1>1. Init => IInv
  BY EmptySeq DEF Init, IInv, TypeOK, IsEnd, OnePlace
<1> QED
  BY <1>1, InvariantStep, PTL DEF Spec

(* The queue is always the run of the latest pushes: no eviction, pop or    *)
(* clear takes an event from the middle or changes the order.               *)
THEOREM LatestPushesCorrect == Spec => []LatestPushes
<1>1. IInv => LatestPushes
  BY EndIsSubSeq DEF IInv, TypeOK, LatestPushes, IsEnd
<1> QED
  BY <1>1, Invariant, PTL

(* A client whose last event is retained is sent exactly what was pushed    *)
(* after it.                                                                *)
THEOREM ResumeExactCorrect == Spec => []ResumeExact
<1>1. IInv => ResumeExact
  <2> SUFFICES ASSUME IInv, NEW i \in DOMAIN pushed,
                      pushed[i] \in Elements(Events)
               PROVE  Resumed(Events, pushed[i])
                        = SubSeq(pushed, i + 1, Len(pushed))
    BY DEF ResumeExact
  <2> USE DEF IInv, TypeOK
  <2>1. /\ Len(Events) \in Nat /\ DOMAIN Events = 1 .. Len(Events)
        /\ Len(pushed) \in Nat /\ DOMAIN pushed = 1 .. Len(pushed)
        /\ Len(Events) <= Len(pushed)
    BY LenProperties DEF IsEnd
  <2> DEFINE gap == Len(pushed) - Len(Events)
             found == {k \in DOMAIN Events : Events[k] = pushed[i]}
             rest == SubSeq(Events, i - gap + 1, Len(Events))
             want == SubSeq(pushed, i + 1, Len(pushed))
  <2>2. \A k \in 1 .. Len(Events) :
          /\ gap + k \in 1 .. Len(pushed)
          /\ Events[k] = pushed[gap + k]
    BY <2>1 DEF IsEnd
  <2>3. /\ i - gap \in 1 .. Len(Events)
        /\ found = {i - gap}
    <3>1. PICK k \in 1 .. Len(Events) : Events[k] = pushed[i]
      BY <2>1 DEF Elements
    <3>2. gap + k = i
      BY <2>1, <2>2, <3>1 DEF OnePlace
    <3>3. \A j \in 1 .. Len(Events) : Events[j] = pushed[i] => gap + j = i
      BY <2>1, <2>2 DEF OnePlace
    <3> QED
      BY <2>1, <3>1, <3>2, <3>3
  <2>4. Min(found) = i - gap
    BY <2>1, <2>3 DEF Min
  <2>5. Resumed(Events, pushed[i]) = rest
    BY <2>3, <2>4 DEF Resumed
  <2> HIDE DEF found
  <2>6. /\ rest \in Seq(Sns) /\ want \in Seq(Sns)
        /\ Len(rest) = Len(pushed) - i /\ Len(want) = Len(pushed) - i
        /\ \A k \in 1 .. Len(pushed) - i :
             /\ rest[k] = Events[i - gap + k]
             /\ want[k] = pushed[i + k]
    <3>1. /\ \A k \in (i - gap + 1) .. Len(Events) : Events[k] \in Sns
          /\ \A k \in (i + 1) .. Len(pushed) : pushed[k] \in Sns
      BY <2>1, <2>3, ElementOfSeq
    <3>2. /\ rest \in Seq(Sns)
          /\ Len(rest) = IF i - gap + 1 <= Len(Events)
                         THEN Len(Events) - (i - gap + 1) + 1 ELSE 0
          /\ \A k \in 1 .. Len(Events) - (i - gap + 1) + 1 :
               rest[k] = Events[(i - gap + 1) + k - 1]
      BY <2>1, <2>3, <3>1, SubSeqProperties, SMTT(30)
    <3>3. /\ want \in Seq(Sns)
          /\ Len(want) = IF i + 1 <= Len(pushed)
                         THEN Len(pushed) - (i + 1) + 1 ELSE 0
          /\ \A k \in 1 .. Len(pushed) - (i + 1) + 1 :
               want[k] = pushed[(i + 1) + k - 1]
      BY <2>1, <3>1, SubSeqProperties
    <3> HIDE DEF rest, want
    <3>4. Len(rest) = Len(pushed) - i /\ Len(want) = Len(pushed) - i
      BY <2>1, <2>3, <3>2, <3>3, SMTT(30)
    <3>5. ASSUME NEW k \in 1 .. Len(pushed) - i
          PROVE  rest[k] = Events[i - gap + k] /\ want[k] = pushed[i + k]
      <4>1. /\ k \in 1 .. Len(Events) - (i - gap + 1) + 1
            /\ k \in 1 .. Len(pushed) - (i + 1) + 1
            /\ (i - gap + 1) + k - 1 = i - gap + k
            /\ (i + 1) + k - 1 = i + k
        BY <2>1, <2>3
      <4> QED
        BY <4>1, <3>2, <3>3
    <3> QED
      BY <3>2, <3>3, <3>4, <3>5
  <2> HIDE DEF rest, want
  <2>7. ASSUME NEW k \in 1 .. Len(pushed) - i
        PROVE  rest[k] = want[k]
    <3>1. gap \in Nat /\ i \in Nat /\ k \in Nat /\ i - gap \in Nat
      BY <2>1, <2>3
    <3> HIDE DEF gap
    <3>2. gap + (i - gap + k) = i + k
      BY <3>1
    <3>3. i - gap + k \in 1 .. Len(Events)
      BY <3>1, <2>1, <2>3 DEF gap
    <3> QED
      BY <3>2, <3>3, <2>2, <2>6
  <2>8. rest = want
    BY <2>6, <2>7, SeqEqual
  <2> QED
    BY <2>5, <2>8 DEF rest, want
<1> QED
  BY <1>1, Invariant, PTL
=============================================================================
