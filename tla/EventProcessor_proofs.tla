------------------------ MODULE EventProcessor_proofs -----------------------
(***************************************************************************)
(* No two events of the event processor get the same number, for any       *)
(* number of goroutines and in whatever order they take numbers, fail and   *)
(* send.  The argument has two halves: every handler takes a number of its  *)
(* own before each event it builds (the shape of a handler, and of what is  *)
(* left of it), and a number that was taken is nobody else's.               *)
(***************************************************************************)
EXTENDS EventProcessor, TLAPS

Stati == {"online", "offline"}

Steps ==
  {Number, Fail, Send}
    \cup ({"status"} \X Platforms \X Stati)
    \cup ({"table"} \X {"private", "group", "none", "direct"})
    \cup ({"save"} \X {"private", "group"})
    \cup ({"event", "login"} \X Platforms)

Events == [sn : Nat, job : Jobs, platform : Platforms, login : BOOLEAN, status : Stati]

JobStates == [slot : Slots \cup {"none"}, todo : Seq(Steps), about : Subjects,
              sn : Nat \cup {-1}, built : Seq(Events)]

IsNumber(step) == step[1] = "number"
IsEvent(step) == step[1] \in {"event", "login"}
IsSend(step) == step[1] = "send"
-----------------------------------------------------------------------------
(* What a handler, and the rest of one, looks like.  NumberedAt: a number is *)
(* taken between the n-th step, which builds an event, and the event before. *)
NumberedAt(todo, n) ==
  \E m \in 1..(n - 1) : IsNumber(todo[m]) /\ \A i \in (m + 1)..(n - 1) : ~IsEvent(todo[i])

FirstAt(todo, n) == \A i \in 1..(n - 1) : ~IsEvent(todo[i])

Numbered(todo) ==
  \A n \in 1..Len(todo) : IsEvent(todo[n]) => NumberedAt(todo, n)

(* With a number in hand, the first event needs no other.                    *)
NumberedButFirst(todo) ==
  \A n \in 1..Len(todo) : IsEvent(todo[n]) => NumberedAt(todo, n) \/ FirstAt(todo, n)

(* There is an event to send at every step that sends one, with b of them    *)
(* built already; no handler sends more than two.                            *)
EventBefore(todo, p) == \E n \in 1..(p - 1) : IsEvent(todo[n])
TwoEventsBefore(todo, p) ==
  \E n, m \in 1..(p - 1) : n < m /\ IsEvent(todo[n]) /\ IsEvent(todo[m])

Sendable(todo, b) ==
  \A p \in 1..Len(todo) : IsSend(todo[p]) =>
    /\ b >= 1 \/ EventBefore(todo, p)
    /\ \A q \in 1..(p - 1) : IsSend(todo[q]) =>
         b >= 2 \/ (b >= 1 /\ EventBefore(todo, p)) \/ TwoEventsBefore(todo, p)
    /\ \A q, r \in 1..(p - 1) : IsSend(todo[q]) /\ IsSend(todo[r]) => q = r

(* The step of what is left is the next one of what there was.               *)
LEMMA TailSteps ==
  ASSUME NEW todo \in Seq(Steps), todo # << >>
  PROVE  /\ Tail(todo) \in Seq(Steps) /\ Len(todo) \in Nat /\ Len(todo) >= 1
         /\ Len(Tail(todo)) = Len(todo) - 1 /\ Head(todo) = todo[1] /\ Head(todo) \in Steps
         /\ \A n \in 1..Len(Tail(todo)) : Tail(todo)[n] = todo[n + 1]
  OBVIOUS

(* A handler goes on.                                                        *)
LEMMA NumberTaken ==
  ASSUME NEW todo \in Seq(Steps), todo # << >>, ~IsEvent(Head(todo)), NumberedButFirst(todo)
  PROVE  NumberedButFirst(Tail(todo))
<1> DEFINE rest == Tail(todo)
<1>1. /\ Len(rest) = Len(todo) - 1 /\ Len(todo) \in Nat /\ Head(todo) = todo[1]
      /\ \A n \in 1..Len(rest) : rest[n] = todo[n + 1]
  BY TailSteps
<1> SUFFICES ASSUME NEW n \in 1..Len(rest), IsEvent(rest[n]), ~FirstAt(rest, n)
             PROVE  NumberedAt(rest, n)
  BY DEF NumberedButFirst
<1> HIDE DEF rest
<1>2. PICK k \in 1..(n - 1) : IsEvent(rest[k])
  BY DEF FirstAt
<1>3. rest[n] = todo[n + 1] /\ rest[k] = todo[k + 1] /\ k + 1 \in 1..n /\ n + 1 \in 1..Len(todo)
  BY <1>1
<1>4. NumberedAt(todo, n + 1)
  BY <1>2, <1>3 DEF NumberedButFirst, FirstAt
<1>5. PICK m \in 1..n : IsNumber(todo[m]) /\ \A i \in (m + 1)..n : ~IsEvent(todo[i])
  BY <1>4 DEF NumberedAt
<1>6. m > 1
  BY <1>2, <1>3, <1>5 DEF IsEvent, IsNumber
<1>7. /\ m - 1 \in 1..(n - 1) /\ rest[m - 1] = todo[m]
      /\ \A i \in ((m - 1) + 1)..(n - 1) : rest[i] = todo[i + 1] /\ i + 1 \in (m + 1)..n
  BY <1>1, <1>6, SMTT(30)
<1> QED BY <1>5, <1>7 DEF NumberedAt

LEMMA StillNumbered ==
  ASSUME NEW todo \in Seq(Steps), todo # << >>, ~IsNumber(Head(todo)), Numbered(todo)
  PROVE  ~IsEvent(Head(todo)) /\ Numbered(Tail(todo))
<1> DEFINE rest == Tail(todo)
<1>1. /\ Len(rest) = Len(todo) - 1 /\ Len(todo) \in Nat /\ Len(todo) >= 1 /\ Head(todo) = todo[1]
      /\ \A n \in 1..Len(rest) : rest[n] = todo[n + 1]
  BY TailSteps
<1>2. ~IsEvent(Head(todo))
  BY <1>1 DEF Numbered, NumberedAt
<1>3. ASSUME NEW n \in 1..Len(rest), IsEvent(rest[n])
      PROVE  NumberedAt(rest, n)
  <2> HIDE DEF rest
  <2>1. rest[n] = todo[n + 1] /\ n + 1 \in 1..Len(todo)
    BY <1>1
  <2>2. PICK m \in 1..n : IsNumber(todo[m]) /\ \A i \in (m + 1)..n : ~IsEvent(todo[i])
    BY <1>3, <2>1 DEF Numbered, NumberedAt
  <2>3. m > 1
    BY <1>1, <2>2
  <2>4. /\ m - 1 \in 1..(n - 1) /\ rest[m - 1] = todo[m]
        /\ \A i \in ((m - 1) + 1)..(n - 1) : rest[i] = todo[i + 1] /\ i + 1 \in (m + 1)..n
    BY <1>1, <2>3
  <2> QED BY <2>2, <2>4 DEF NumberedAt
<1> QED BY <1>2, <1>3 DEF Numbered

(* The number is used up, and the next event has one of its own to come.     *)
LEMMA NumberUsed ==
  ASSUME NEW todo \in Seq(Steps), todo # << >>, IsEvent(Head(todo)), NumberedButFirst(todo)
  PROVE  Numbered(Tail(todo))
<1> DEFINE rest == Tail(todo)
<1>1. /\ Len(rest) = Len(todo) - 1 /\ Len(todo) \in Nat /\ Head(todo) = todo[1]
      /\ \A n \in 1..Len(rest) : rest[n] = todo[n + 1]
  BY TailSteps
<1> SUFFICES ASSUME NEW n \in 1..Len(rest), IsEvent(rest[n])
             PROVE  NumberedAt(rest, n)
  BY DEF Numbered
<1> HIDE DEF rest
<1>2. rest[n] = todo[n + 1] /\ n + 1 \in 1..Len(todo) /\ 1 \in 1..n
  BY <1>1
<1>3. ~FirstAt(todo, n + 1)
  BY <1>1, <1>2 DEF FirstAt
<1>4. PICK m \in 1..n : IsNumber(todo[m]) /\ \A i \in (m + 1)..n : ~IsEvent(todo[i])
  BY <1>2, <1>3 DEF NumberedButFirst, NumberedAt
<1>5. m > 1
  BY <1>1, <1>4 DEF IsEvent, IsNumber
<1>6. /\ m - 1 \in 1..(n - 1) /\ rest[m - 1] = todo[m]
      /\ \A i \in ((m - 1) + 1)..(n - 1) : rest[i] = todo[i + 1] /\ i + 1 \in (m + 1)..n
  BY <1>1, <1>5
<1> QED BY <1>4, <1>6 DEF NumberedAt

LEMMA NumberedWeakens ==
  ASSUME NEW todo, Numbered(todo)
  PROVE  NumberedButFirst(todo)
  BY DEF Numbered, NumberedButFirst
-----------------------------------------------------------------------------
(* What is built and not sent, as a handler goes on.                         *)
LEMMA SendableOn ==
  ASSUME NEW todo \in Seq(Steps), todo # << >>, NEW b \in Nat, Sendable(todo, b),
         ~IsEvent(Head(todo)), ~IsSend(Head(todo))
  PROVE  Sendable(Tail(todo), b)
<1> DEFINE rest == Tail(todo)
<1>1. /\ Len(rest) = Len(todo) - 1 /\ Len(todo) \in Nat /\ Head(todo) = todo[1]
      /\ \A n \in 1..Len(rest) : rest[n] = todo[n + 1]
  BY TailSteps
<1> SUFFICES ASSUME NEW p \in 1..Len(rest), IsSend(rest[p])
             PROVE  /\ b >= 1 \/ EventBefore(rest, p)
                    /\ \A q \in 1..(p - 1) : IsSend(rest[q]) =>
                         b >= 2 \/ (b >= 1 /\ EventBefore(rest, p)) \/ TwoEventsBefore(rest, p)
                    /\ \A q, r \in 1..(p - 1) : IsSend(rest[q]) /\ IsSend(rest[r]) => q = r
  BY DEF Sendable
<1> HIDE DEF rest
<1>2. /\ p + 1 \in 1..Len(todo) /\ IsSend(todo[p + 1])
      /\ \A n \in 1..(p - 1) : rest[n] = todo[n + 1] /\ n + 1 \in 1..p
      /\ \A n \in 1..p : n = 1 \/ (n - 1 \in 1..(p - 1) /\ rest[n - 1] = todo[n])
  BY <1>1
<1>3. EventBefore(todo, p + 1) => EventBefore(rest, p)
  BY <1>1, <1>2 DEF EventBefore
<1>4. TwoEventsBefore(todo, p + 1) => TwoEventsBefore(rest, p)
  <2> SUFFICES ASSUME NEW n \in 1..p, NEW m \in 1..p, n < m, IsEvent(todo[n]), IsEvent(todo[m])
               PROVE  TwoEventsBefore(rest, p)
    BY DEF TwoEventsBefore
  <2>1. n # 1 /\ m # 1 /\ n - 1 < m - 1
    BY <1>1
  <2> QED BY <2>1, <1>2 DEF TwoEventsBefore
<1>5. b >= 1 \/ EventBefore(rest, p)
  BY <1>2, <1>3 DEF Sendable
<1>6. ASSUME NEW q \in 1..(p - 1), IsSend(rest[q])
      PROVE  b >= 2 \/ (b >= 1 /\ EventBefore(rest, p)) \/ TwoEventsBefore(rest, p)
  <2>1. q + 1 \in 1..p /\ IsSend(todo[q + 1])
    BY <1>2, <1>6
  <2> QED BY <2>1, <1>2, <1>3, <1>4 DEF Sendable
<1>7. ASSUME NEW q \in 1..(p - 1), NEW r \in 1..(p - 1), IsSend(rest[q]), IsSend(rest[r])
      PROVE  q = r
  <2>1. q + 1 \in 1..p /\ IsSend(todo[q + 1]) /\ r + 1 \in 1..p /\ IsSend(todo[r + 1])
    BY <1>2, <1>7
  <2>2. q + 1 = r + 1
    BY <2>1, <1>2 DEF Sendable
  <2> QED BY <2>2
<1> QED BY <1>5, <1>6, <1>7

LEMMA SendableBuilt ==
  ASSUME NEW todo \in Seq(Steps), todo # << >>, NEW b \in Nat, Sendable(todo, b),
         IsEvent(Head(todo))
  PROVE  Sendable(Tail(todo), b + 1)
<1> DEFINE rest == Tail(todo)
<1>1. /\ Len(rest) = Len(todo) - 1 /\ Len(todo) \in Nat /\ Head(todo) = todo[1]
      /\ \A n \in 1..Len(rest) : rest[n] = todo[n + 1]
  BY TailSteps
<1> SUFFICES ASSUME NEW p \in 1..Len(rest), IsSend(rest[p])
             PROVE  /\ b + 1 >= 1 \/ EventBefore(rest, p)
                    /\ \A q \in 1..(p - 1) : IsSend(rest[q]) =>
                         b + 1 >= 2 \/ (b + 1 >= 1 /\ EventBefore(rest, p)) \/ TwoEventsBefore(rest, p)
                    /\ \A q, r \in 1..(p - 1) : IsSend(rest[q]) /\ IsSend(rest[r]) => q = r
  BY DEF Sendable
<1> HIDE DEF rest
<1>2. /\ p + 1 \in 1..Len(todo) /\ IsSend(todo[p + 1])
      /\ \A n \in 1..(p - 1) : rest[n] = todo[n + 1] /\ n + 1 \in 1..p
      /\ \A n \in 1..p : n = 1 \/ (n - 1 \in 1..(p - 1) /\ rest[n - 1] = todo[n])
  BY <1>1
<1>3. ASSUME NEW q \in 1..(p - 1), IsSend(rest[q])
      PROVE  b + 1 >= 2 \/ EventBefore(rest, p)
  <2>1. q + 1 \in 1..p /\ IsSend(todo[q + 1])
    BY <1>2, <1>3
  <2>2. b >= 1 \/ TwoEventsBefore(todo, p + 1)
    BY <2>1, <1>2 DEF Sendable
  <2>3. CASE TwoEventsBefore(todo, p + 1)
    <3>1. PICK n \in 1..p, m \in 1..p : n < m /\ IsEvent(todo[m])
      BY <2>3 DEF TwoEventsBefore
    <3>2. m # 1
      BY <3>1
    <3> QED BY <3>1, <3>2, <1>2 DEF EventBefore
  <2> QED BY <2>2, <2>3
<1>4. ASSUME NEW q \in 1..(p - 1), NEW r \in 1..(p - 1), IsSend(rest[q]), IsSend(rest[r])
      PROVE  q = r
  <2>1. q + 1 \in 1..p /\ IsSend(todo[q + 1]) /\ r + 1 \in 1..p /\ IsSend(todo[r + 1])
    BY <1>2, <1>4
  <2>2. q + 1 = r + 1
    BY <2>1, <1>2 DEF Sendable
  <2> QED BY <2>2
<1> QED BY <1>3, <1>4

LEMMA SendableSent ==
  ASSUME NEW todo \in Seq(Steps), todo # << >>, NEW b \in Nat, Sendable(todo, b),
         IsSend(Head(todo))
  PROVE  b >= 1 /\ Sendable(Tail(todo), b - 1)
<1> DEFINE rest == Tail(todo)
<1>1. /\ Len(rest) = Len(todo) - 1 /\ Len(todo) \in Nat /\ Len(todo) >= 1 /\ Head(todo) = todo[1]
      /\ \A n \in 1..Len(rest) : rest[n] = todo[n + 1]
  BY TailSteps
<1>2. ~IsEvent(todo[1]) /\ IsSend(todo[1])
  BY <1>1 DEF IsEvent, IsSend
<1>3. b >= 1
  BY <1>1, <1>2 DEF Sendable, EventBefore
<1> SUFFICES ASSUME NEW p \in 1..Len(rest), IsSend(rest[p])
             PROVE  /\ b - 1 >= 1 \/ EventBefore(rest, p)
                    /\ \A q \in 1..(p - 1) : ~IsSend(rest[q])
  BY <1>3 DEF Sendable
<1> HIDE DEF rest
<1>4. /\ p + 1 \in 1..Len(todo) /\ IsSend(todo[p + 1]) /\ 1 \in 1..p
      /\ \A n \in 1..(p - 1) : rest[n] = todo[n + 1] /\ n + 1 \in 1..p
      /\ \A n \in 1..p : n = 1 \/ (n - 1 \in 1..(p - 1) /\ rest[n - 1] = todo[n])
  BY <1>1, SMTT(30)
<1>5. b >= 2 \/ EventBefore(todo, p + 1) \/ TwoEventsBefore(todo, p + 1)
  BY <1>2, <1>4 DEF Sendable
<1>6. TwoEventsBefore(todo, p + 1) => EventBefore(todo, p + 1)
  BY DEF TwoEventsBefore, EventBefore
<1>7. EventBefore(todo, p + 1) => EventBefore(rest, p)
  BY <1>2, <1>4 DEF EventBefore
<1>8. ASSUME NEW q \in 1..(p - 1), IsSend(rest[q])
      PROVE  FALSE
  <2>1. q + 1 \in 1..p /\ IsSend(todo[q + 1]) /\ q + 1 # 1
    BY <1>4, <1>8
  <2> QED BY <2>1, <1>2, <1>4 DEF Sendable
<1> QED BY <1>5, <1>6, <1>7, <1>8
-----------------------------------------------------------------------------
(* The handlers.                                                             *)
Quiet(step) == step \in Steps /\ ~IsEvent(step) /\ ~IsSend(step)

LEMMA StepKinds ==
  /\ Quiet(Number) /\ IsNumber(Number) /\ Quiet(Fail)
  /\ Send \in Steps /\ IsSend(Send) /\ ~IsEvent(Send)
  /\ \A p \in Platforms, s \in Stati : Quiet(SetStatus(p, s))
  /\ \A what \in {"private", "group", "none", "direct"} : Quiet(Table(what))
  /\ \A type \in {"private", "group"} : Quiet(Save(type))
  /\ \A p \in Platforms : /\ Event(p) \in Steps /\ IsEvent(Event(p)) /\ ~IsSend(Event(p))
                          /\ LoginEvent(p) \in Steps /\ IsEvent(LoginEvent(p))
                          /\ ~IsSend(LoginEvent(p))
<1> USE DEF Quiet, Steps, IsNumber, IsEvent, IsSend
<1>1. Quiet(Number) /\ IsNumber(Number) /\ Quiet(Fail)
  BY DEF Number, Fail
<1>2. Send \in Steps /\ IsSend(Send) /\ ~IsEvent(Send)
  BY DEF Send
<1>3. ASSUME NEW p \in Platforms, NEW s \in Stati
      PROVE  Quiet(SetStatus(p, s))
  BY DEF SetStatus
<1>4. ASSUME NEW what \in {"private", "group", "none", "direct"}
      PROVE  Quiet(Table(what))
  BY DEF Table
<1>5. ASSUME NEW type \in {"private", "group"}
      PROVE  Quiet(Save(type))
  BY DEF Save
<1>6. ASSUME NEW p \in Platforms
      PROVE  /\ Event(p) \in Steps /\ IsEvent(Event(p)) /\ ~IsSend(Event(p))
             /\ LoginEvent(p) \in Steps /\ IsEvent(LoginEvent(p)) /\ ~IsSend(LoginEvent(p))
  BY DEF Event, LoginEvent
<1> QED BY <1>1, <1>2, <1>3, <1>4, <1>5, <1>6

Shaped(h) == h \in Seq(Steps) /\ Numbered(h) /\ Sendable(h, 0)

(* Most handlers take a number, build one event at last and send it.         *)
LEMMA OneEvent ==
  ASSUME NEW h \in Seq(Steps), \E m \in 1..(Len(h) - 2) : IsNumber(h[m]),
         IsEvent(h[Len(h) - 1]), ~IsSend(h[Len(h) - 1]), ~IsEvent(h[Len(h)]),
         \A n \in 1..(Len(h) - 2) : Quiet(h[n])
  PROVE  Shaped(h)
<1> PICK m \in 1..(Len(h) - 2) : IsNumber(h[m])
  OBVIOUS
<1>1. Len(h) \in Nat /\ Len(h) - 1 \in 1..Len(h)
  OBVIOUS
<1>2. \A n \in 1..Len(h) : n \in 1..(Len(h) - 2) \/ n = Len(h) - 1 \/ n = Len(h)
  BY <1>1
<1>3. Numbered(h)
  <2> SUFFICES ASSUME NEW n \in 1..Len(h), IsEvent(h[n])
               PROVE  NumberedAt(h, n)
    BY DEF Numbered
  <2>1. n = Len(h) - 1
    BY <1>2 DEF Quiet
  <2>2. m \in 1..(n - 1) /\ \A i \in (m + 1)..(n - 1) : i \in 1..(Len(h) - 2)
    BY <1>1, <2>1
  <2> QED BY <2>2 DEF NumberedAt, Quiet
<1>4. Sendable(h, 0)
  <2> SUFFICES ASSUME NEW p \in 1..Len(h), IsSend(h[p])
               PROVE  EventBefore(h, p) /\ \A q \in 1..(p - 1) : ~IsSend(h[q])
    BY DEF Sendable
  <2>1. p = Len(h)
    BY <1>2 DEF Quiet
  <2>2. Len(h) - 1 \in 1..(p - 1) /\ EventBefore(h, p)
    BY <1>1, <2>1 DEF EventBefore
  <2>3. ASSUME NEW q \in 1..(p - 1)
        PROVE  ~IsSend(h[q])
    <3>1. q \in 1..(Len(h) - 2) \/ q = Len(h) - 1
      BY <1>1, <2>1
    <3> QED BY <3>1 DEF Quiet
  <2> QED BY <2>2, <2>3
<1> QED BY <1>3, <1>4 DEF Shaped

(* READYs and errors: two numbers, two events, two sends.                    *)
LEMMA LoginUpdatedShaped ==
  ASSUME NEW s \in Stati
  PROVE  Shaped(LoginUpdated(s))
<1> DEFINE h == LoginUpdated(s)
<1>1. "qq" \in Platforms /\ "qqguild" \in Platforms
  BY DEF Platforms
<1>2. /\ Quiet(h[1]) /\ Quiet(h[2]) /\ Quiet(h[3]) /\ Quiet(h[5])
      /\ IsNumber(h[3]) /\ IsNumber(h[5])
      /\ IsEvent(h[4]) /\ IsEvent(h[6]) /\ ~IsSend(h[4]) /\ ~IsSend(h[6])
      /\ ~IsEvent(h[7]) /\ ~IsEvent(h[8])
      /\ Len(h) = 8
  BY <1>1, StepKinds DEF LoginUpdated
<1>3. h \in Seq(Steps)
  BY <1>1, StepKinds DEF LoginUpdated, Quiet
<1> HIDE DEF h
<1>4. \A n \in 1..8 : n \in {1, 2, 3, 4, 5, 6, 7, 8}
  OBVIOUS
<1>5. NumberedAt(h, 4) /\ NumberedAt(h, 6)
  <2>1. 3 \in 1..(4 - 1) /\ \A i \in (3 + 1)..(4 - 1) : FALSE
    OBVIOUS
  <2>2. 5 \in 1..(6 - 1) /\ \A i \in (5 + 1)..(6 - 1) : FALSE
    OBVIOUS
  <2> QED BY <1>2, <2>1, <2>2 DEF NumberedAt
<1>6. Numbered(h)
  BY <1>2, <1>4, <1>5 DEF Numbered, Quiet
<1>7. Sendable(h, 0)
  <2> SUFFICES ASSUME NEW p \in 1..8, IsSend(h[p])
               PROVE  /\ EventBefore(h, p) /\ TwoEventsBefore(h, p)
                      /\ \A q, r \in 1..(p - 1) : IsSend(h[q]) /\ IsSend(h[r]) => q = r
    BY <1>2 DEF Sendable
  <2>1. p \in {7, 8}
    BY <1>2, <1>4 DEF Quiet
  <2>2. 4 \in 1..(p - 1) /\ 6 \in 1..(p - 1) /\ 4 < 6
    BY <2>1
  <2>3. EventBefore(h, p) /\ TwoEventsBefore(h, p)
    BY <1>2, <2>2 DEF EventBefore, TwoEventsBefore
  <2>4. \A q \in 1..(p - 1) : IsSend(h[q]) => q = 7
    <3>1. \A q \in 1..(p - 1) : q \in {1, 2, 3, 4, 5, 6, 7}
      BY <2>1
    <3> QED BY <3>1, <1>2 DEF Quiet
  <2> QED BY <2>3, <2>4
<1> QED BY <1>3, <1>6, <1>7 DEF Shaped, h

LEMMA ShortHandlers ==
  /\ Shaped(ProcessC2CMessage) /\ Shaped(ProcessGroupMessage)
  /\ Shaped(ProcessChannelDirectMessage) /\ Shaped(ProcessGuildATMessage)
  /\ Shaped(ProcessGuildNormalMessage) /\ Shaped(ProcessGroupAddRobot)
  /\ Shaped(ProcessGroupDelRobot) /\ Shaped(ProcessGuildEvent) /\ Shaped(ProcessMemberEvent)
  /\ Shaped(ProcessChannelEvent) /\ Shaped(ProcessMessageDelete)
  /\ Shaped(ProcessMessageReaction) /\ Shaped(ProcessQQGuildInternal)
  /\ \A p \in Platforms : Shaped(ProcessInteractionEvent(p))
<1>1. "qq" \in Platforms /\ "qqguild" \in Platforms
  BY DEF Platforms
(* What stands between the number and the event is quiet.                       *)
<1>2. ASSUME NEW e \in Steps, IsEvent(e), ~IsSend(e)
      PROVE  Shaped(<<Number, e, Send>>)
  <2> DEFINE h == <<Number, e, Send>>
  <2>1. h \in Seq(Steps) /\ Len(h) = 3 /\ h[1] = Number /\ h[2] = e /\ h[3] = Send
    BY StepKinds DEF Quiet
  <2> HIDE DEF h
  <2>2. 1 \in 1..(Len(h) - 2) /\ \A n \in 1..(Len(h) - 2) : n = 1
    BY <2>1
  <2>3. h[Len(h) - 1] = e /\ h[Len(h)] = Send
    BY <2>1
  <2>4. \A n \in 1..(Len(h) - 2) : Quiet(h[n])
    BY <1>2, <2>1, <2>2, StepKinds
  <2>5. \E m \in 1..(Len(h) - 2) : IsNumber(h[m])
    BY <1>2, <2>1, <2>2, StepKinds
  <2>6. IsEvent(h[Len(h) - 1]) /\ ~IsSend(h[Len(h) - 1]) /\ ~IsEvent(h[Len(h)])
    BY <1>2, <2>3, StepKinds
  <2>7. h \in Seq(Steps)
    BY <2>1
  <2>8. Shaped(h)
    BY <2>4, <2>5, <2>6, <2>7, OneEvent
  <2> QED BY <2>8 DEF h
<1>3. ASSUME NEW a, NEW b, NEW e \in Steps, Quiet(a), Quiet(b), IsEvent(e), ~IsSend(e),
             IsNumber(a) \/ IsNumber(b)
      PROVE  Shaped(<<a, b, e, Send>>)
  <2> DEFINE h == <<a, b, e, Send>>
  <2>1. h \in Seq(Steps) /\ Len(h) = 4 /\ h[1] = a /\ h[2] = b /\ h[3] = e /\ h[4] = Send
    BY <1>3, StepKinds DEF Quiet
  <2> HIDE DEF h
  <2>2. 1 \in 1..(Len(h) - 2) /\ 2 \in 1..(Len(h) - 2) /\ \A n \in 1..(Len(h) - 2) : n \in {1, 2}
    BY <2>1
  <2>3. h[Len(h) - 1] = e /\ h[Len(h)] = Send
    BY <2>1
  <2>4. \A n \in 1..(Len(h) - 2) : Quiet(h[n])
    BY <1>3, <2>1, <2>2, StepKinds
  <2>5. \E m \in 1..(Len(h) - 2) : IsNumber(h[m])
    BY <1>3, <2>1, <2>2, StepKinds
  <2>6. IsEvent(h[Len(h) - 1]) /\ ~IsSend(h[Len(h) - 1]) /\ ~IsEvent(h[Len(h)])
    BY <1>3, <2>3, StepKinds
  <2>7. h \in Seq(Steps)
    BY <2>1
  <2>8. Shaped(h)
    BY <2>4, <2>5, <2>6, <2>7, OneEvent
  <2> QED BY <2>8 DEF h
<1>4. ASSUME NEW a, NEW b, NEW c, NEW e \in Steps, Quiet(a), Quiet(b), Quiet(c),
             IsEvent(e), ~IsSend(e)
      PROVE  Shaped(<<Number, a, b, c, e, Send>>)
  <2> DEFINE h == <<Number, a, b, c, e, Send>>
  <2>1. /\ h \in Seq(Steps) /\ Len(h) = 6 /\ h[1] = Number
        /\ h[2] = a /\ h[3] = b /\ h[4] = c /\ h[5] = e /\ h[6] = Send
    BY <1>4, StepKinds DEF Quiet
  <2> HIDE DEF h
  <2>2. 1 \in 1..(Len(h) - 2) /\ \A n \in 1..(Len(h) - 2) : n \in {1, 2, 3, 4}
    BY <2>1
  <2>3. h[Len(h) - 1] = e /\ h[Len(h)] = Send
    BY <2>1
  <2>4. \A n \in 1..(Len(h) - 2) : Quiet(h[n])
    BY <1>4, <2>1, <2>2, StepKinds
  <2>5. \E m \in 1..(Len(h) - 2) : IsNumber(h[m])
    BY <1>4, <2>1, <2>2, StepKinds
  <2>6. IsEvent(h[Len(h) - 1]) /\ ~IsSend(h[Len(h) - 1]) /\ ~IsEvent(h[Len(h)])
    BY <1>4, <2>3, StepKinds
  <2>7. h \in Seq(Steps)
    BY <2>1
  <2>8. Shaped(h)
    BY <2>4, <2>5, <2>6, <2>7, OneEvent
  <2> QED BY <2>8 DEF h
<1>5. Shaped(ProcessC2CMessage) /\ Shaped(ProcessGroupMessage)
  BY <1>1, <1>4, StepKinds DEF ProcessC2CMessage, ProcessGroupMessage
<1>6. Shaped(ProcessChannelDirectMessage)
  BY <1>1, <1>4, StepKinds DEF ProcessChannelDirectMessage
<1>7. /\ Shaped(ProcessGuildATMessage) /\ Shaped(ProcessGuildNormalMessage)
      /\ Shaped(ProcessGuildEvent) /\ Shaped(ProcessMemberEvent)
  BY <1>1, <1>3, StepKinds DEF ProcessGuildATMessage, ProcessGuildNormalMessage,
     ProcessGuildEvent, ProcessMemberEvent
<1>8. /\ Shaped(ProcessGroupAddRobot) /\ Shaped(ProcessGroupDelRobot)
      /\ Shaped(ProcessMessageDelete) /\ Shaped(ProcessMessageReaction)
  BY <1>1, <1>3, StepKinds DEF ProcessGroupAddRobot, ProcessGroupDelRobot,
     ProcessMessageDelete, ProcessMessageReaction
<1>9. /\ Shaped(ProcessChannelEvent) /\ Shaped(ProcessQQGuildInternal)
       /\ \A p \in Platforms : Shaped(ProcessInteractionEvent(p))
  BY <1>1, <1>2, StepKinds DEF ProcessChannelEvent, ProcessQQGuildInternal,
     ProcessInteractionEvent
<1> QED BY <1>5, <1>6, <1>7, <1>8, <1>9

LEMMA HandlersShaped ==
  ASSUME NEW slot, NEW handler \in HandlerOf(slot)
  PROVE  Shaped(handler)
<1>1. Shaped(ReadyHandler) /\ Shaped(ErrorNotifyHandler)
  BY LoginUpdatedShaped DEF ReadyHandler, ErrorNotifyHandler, Stati
<1> QED BY <1>1, ShortHandlers DEF HandlerOf
-----------------------------------------------------------------------------
(* The numbers of a goroutine: the one it took last, and those of the events *)
(* it built or sent.                                                         *)
BuiltNumber(j, n) == \E i \in 1..Len(jobs[j].built) : jobs[j].built[i].sn = n
SentNumber(j, n) == \E e \in sent : e.job = j /\ e.sn = n
Holds(j, n) == jobs[j].sn = n \/ BuiltNumber(j, n) \/ SentNumber(j, n)

Typed ==
  /\ jobs \in [Jobs -> JobStates]
  /\ \A j \in Jobs : \A i \in 1..Len(jobs[j].built) : jobs[j].built[i].job = j
  /\ count \in Nat /\ status \in [Platforms -> Stati] /\ sent \subseteq Events

(* Numbers are below the counter, and one number has one goroutine.          *)
Taken == \A j \in Jobs, n \in Nat : Holds(j, n) => n < count
Apart == \A j, k \in Jobs, n \in Nat : Holds(j, n) /\ Holds(k, n) => j = k

(* Within a goroutine, every event has a number of its own.                  *)
OnceEach(j) ==
  /\ \A i, k \in 1..Len(jobs[j].built) : jobs[j].built[i].sn = jobs[j].built[k].sn => i = k
  /\ \A n \in Nat : ~(BuiltNumber(j, n) /\ SentNumber(j, n))
  /\ \A d, e \in sent : d.job = j /\ e.job = j /\ d.sn = e.sn => d = e

(* What is left of a handler can go on: the number in hand is unused, or the *)
(* next event's is still to be taken.                                        *)
Unused(j) == jobs[j].sn # -1 /\ ~BuiltNumber(j, jobs[j].sn) /\ ~SentNumber(j, jobs[j].sn)

CanGoOn(j) ==
  /\ Numbered(jobs[j].todo) \/ (Unused(j) /\ NumberedButFirst(jobs[j].todo))
  /\ Sendable(jobs[j].todo, Len(jobs[j].built))

ProcessorInv == Typed /\ Taken /\ Apart /\ \A j \in Jobs : OnceEach(j) /\ CanGoOn(j)

(* A step of one goroutine: the others keep what they have.                  *)
LEMMA OneGoroutine ==
  ASSUME ProcessorInv, NEW j \in Jobs, NEW job \in JobStates, NEW more \in SUBSET Events,
         jobs' = [jobs EXCEPT ![j] = job], sent' = sent \cup more,
         \A e \in more : e.job = j,
         \A i \in 1..Len(job.built) : job.built[i].job = j,
         count' \in {count, count + 1}, status' \in [Platforms -> Stati],
         \A n \in Nat : Holds(j, n)' => Holds(j, n) \/ (n = count /\ count' = count + 1),
         OnceEach(j)', CanGoOn(j)'
  PROVE  ProcessorInv'
<1>1. Typed /\ Taken /\ Apart /\ \A k \in Jobs : OnceEach(k) /\ CanGoOn(k)
  BY DEF ProcessorInv
<1>2. jobs' \in [Jobs -> JobStates] /\ jobs'[j] = job /\ \A k \in Jobs : k # j => jobs'[k] = jobs[k]
  BY <1>1 DEF Typed
<1>3. Typed'
  BY <1>1, <1>2 DEF Typed
<1>4. ASSUME NEW k \in Jobs, k # j
      PROVE  /\ \A n : BuiltNumber(k, n)' <=> BuiltNumber(k, n)
             /\ \A n : SentNumber(k, n)' <=> SentNumber(k, n)
             /\ OnceEach(k)' /\ CanGoOn(k)'
  <2>1. jobs'[k] = jobs[k] /\ \A e \in sent' : e.job = k => e \in sent
    BY <1>2, <1>4
  <2>2. \A n : BuiltNumber(k, n)' <=> BuiltNumber(k, n)
    BY <2>1 DEF BuiltNumber
  <2>3. \A n : SentNumber(k, n)' <=> SentNumber(k, n)
    BY <2>1 DEF SentNumber
  <2>4. OnceEach(k)'
    BY <1>1, <2>1, <2>2, <2>3 DEF OnceEach
  <2>5. CanGoOn(k)'
    BY <1>1, <2>1, <2>2, <2>3 DEF CanGoOn, Unused
  <2> QED BY <2>2, <2>3, <2>4, <2>5
<1>5. ASSUME NEW k \in Jobs, k # j, NEW n \in Nat
      PROVE  Holds(k, n)' => Holds(k, n)
  BY <1>2, <1>4, <1>5 DEF Holds
<1>6. Taken'
  BY <1>1, <1>5 DEF Taken, Typed
<1>7. Apart'
  <2> SUFFICES ASSUME NEW k \in Jobs, NEW l \in Jobs, NEW n \in Nat, Holds(k, n)', Holds(l, n)'
               PROVE  k = l
    BY DEF Apart
  <2>1. n = count => ~Holds(k, n) /\ ~Holds(l, n)
    BY <1>1 DEF Taken, Typed
  <2>2. k = j \/ Holds(k, n)
    BY <1>5
  <2>3. l = j \/ Holds(l, n)
    BY <1>5
  <2>4. CASE k = j /\ l # j
    BY <1>1, <2>1, <2>3, <2>4 DEF Apart
  <2>5. CASE k # j /\ l = j
    BY <1>1, <2>1, <2>2, <2>5 DEF Apart
  <2>6. CASE k # j /\ l # j
    BY <1>1, <2>2, <2>3, <2>6 DEF Apart
  <2> QED BY <2>4, <2>5, <2>6
<1> QED BY <1>3, <1>4, <1>6, <1>7 DEF ProcessorInv

(* A step that keeps the number and what is built, and sends nothing.        *)
LEMMA QuietStep ==
  ASSUME ProcessorInv, NEW j \in Jobs, NEW rest \in Seq(Steps),
         jobs' = [jobs EXCEPT ![j] = [jobs[j] EXCEPT !.todo = rest]],
         UNCHANGED <<count, sent>>, status' \in [Platforms -> Stati],
         Numbered(jobs[j].todo) => Numbered(rest),
         NumberedButFirst(jobs[j].todo) => NumberedButFirst(rest),
         Sendable(rest, Len(jobs[j].built))
  PROVE  ProcessorInv'
<1> DEFINE job == [jobs[j] EXCEPT !.todo = rest]
<1>1. Typed /\ OnceEach(j) /\ CanGoOn(j)
  BY DEF ProcessorInv
<1>2. jobs[j] \in JobStates
  BY <1>1 DEF Typed
<1>3. job \in JobStates /\ job.todo = rest /\ job.sn = jobs[j].sn /\ job.built = jobs[j].built
  BY <1>2 DEF JobStates
<1> HIDE DEF job
<1>4. jobs' = [jobs EXCEPT ![j] = job]
  BY DEF job
<1>5. jobs'[j] = job
  BY <1>1, <1>4 DEF Typed
<1>6. /\ \A n : BuiltNumber(j, n)' <=> BuiltNumber(j, n)
      /\ \A n : SentNumber(j, n)' <=> SentNumber(j, n)
  BY <1>3, <1>5 DEF BuiltNumber, SentNumber
<1>7. \A n \in Nat : Holds(j, n)' => Holds(j, n)
  BY <1>3, <1>5, <1>6 DEF Holds
<1>8. OnceEach(j)'
  BY <1>1, <1>3, <1>5, <1>6 DEF OnceEach
<1>9. CanGoOn(j)'
  BY <1>1, <1>3, <1>5, <1>6 DEF CanGoOn, Unused
<1>10. \A i \in 1..Len(job.built) : job.built[i].job = j
  BY <1>1, <1>3 DEF Typed
<1>11. count' \in {count, count + 1} /\ sent' = sent \cup {} /\ {} \in SUBSET Events
  OBVIOUS
<1> QED BY <1>3, <1>4, <1>7, <1>8, <1>9, <1>10, <1>11, OneGoroutine

(* The head of what is left, and what goes on after it.                      *)
LEMMA NextStep ==
  ASSUME ProcessorInv, NEW j \in Jobs, jobs[j].todo # << >>
  PROVE  /\ jobs[j] \in JobStates /\ jobs[j].todo \in Seq(Steps)
         /\ Tail(jobs[j].todo) \in Seq(Steps) /\ Head(jobs[j].todo) \in Steps
         /\ jobs[j].built \in Seq(Events) /\ Len(jobs[j].built) \in Nat
         /\ NumberedButFirst(jobs[j].todo) /\ Sendable(jobs[j].todo, Len(jobs[j].built))
<1>1. jobs[j] \in JobStates /\ CanGoOn(j)
  BY DEF ProcessorInv, Typed
<1>2. jobs[j].todo \in Seq(Steps) /\ jobs[j].built \in Seq(Events)
  BY <1>1 DEF JobStates
<1>3. Tail(jobs[j].todo) \in Seq(Steps) /\ Head(jobs[j].todo) \in Steps
  BY <1>2, TailSteps
<1>4. Len(jobs[j].built) \in Nat
  BY <1>2
<1> QED BY <1>1, <1>2, <1>3, <1>4, NumberedWeakens DEF CanGoOn

LEMMA PassingInv ==
  ASSUME ProcessorInv, NEW j \in Jobs, jobs[j].todo # << >>,
         Head(jobs[j].todo)[1] \in {"fail", "status", "table", "save"},
         Proceeds(j, jobs[j]), UNCHANGED <<count, sent>>, status' \in [Platforms -> Stati]
  PROVE  ProcessorInv'
<1> DEFINE todo == jobs[j].todo
<1>1. /\ ~IsNumber(Head(todo)) /\ ~IsEvent(Head(todo)) /\ ~IsSend(Head(todo))
  BY DEF IsNumber, IsEvent, IsSend
<1>2. /\ todo \in Seq(Steps) /\ Tail(todo) \in Seq(Steps)
      /\ Len(jobs[j].built) \in Nat /\ Sendable(todo, Len(jobs[j].built))
  BY NextStep
<1>3. jobs' = [jobs EXCEPT ![j] = [jobs[j] EXCEPT !.todo = Tail(todo)]]
  BY DEF Proceeds
<1> HIDE DEF todo
<1>4. Sendable(Tail(todo), Len(jobs[j].built))
  BY <1>1, <1>2, SendableOn DEF todo
<1>5. Numbered(todo) => Numbered(Tail(todo))
  BY <1>1, <1>2, StillNumbered DEF todo
<1>6. NumberedButFirst(todo) => NumberedButFirst(Tail(todo))
  BY <1>1, <1>2, NumberTaken DEF todo
<1> QED BY <1>2, <1>3, <1>4, <1>5, <1>6, QuietStep DEF todo

LEMMA MayFailInv ==
  ASSUME ProcessorInv, NEW j \in Jobs, MayFail(j)
  PROVE  ProcessorInv'
<1>1. /\ jobs[j].todo # << >> /\ Head(jobs[j].todo)[1] = "fail"
      /\ UNCHANGED <<count, status, sent>>
  BY DEF MayFail, Does
<1>2. status' \in [Platforms -> Stati] /\ jobs \in [Jobs -> JobStates]
  BY <1>1 DEF ProcessorInv, Typed
<1>3. CASE Proceeds(j, jobs[j])
  BY <1>1, <1>2, <1>3, PassingInv
<1>4. CASE jobs' = [jobs EXCEPT ![j].todo = << >>]
  <2>1. jobs' = [jobs EXCEPT ![j] = [jobs[j] EXCEPT !.todo = << >>]]
    BY <1>2, <1>4
  <2>2. Numbered(<< >>) /\ NumberedButFirst(<< >>) /\ Sendable(<< >>, Len(jobs[j].built))
    BY DEF Numbered, NumberedButFirst, Sendable
  <2>3. << >> \in Seq(Steps)
    OBVIOUS
  <2> QED BY <1>1, <1>2, <2>1, <2>2, <2>3, QuietStep
<1> QED BY <1>3, <1>4 DEF MayFail

LEMMA SetsStatusInv ==
  ASSUME ProcessorInv, NEW j \in Jobs, SetsStatus(j)
  PROVE  ProcessorInv'
<1> DEFINE step == Head(jobs[j].todo)
<1>1. /\ jobs[j].todo # << >> /\ step[1] = "status"
      /\ Proceeds(j, jobs[j]) /\ UNCHANGED <<count, sent>>
      /\ status' = [status EXCEPT ![step[2]] = step[3]]
  BY DEF SetsStatus, Does, Arg
<1>2. step \in Steps
  BY <1>1, NextStep
<1>3. step[2] \in Platforms /\ step[3] \in Stati
  BY <1>1, <1>2 DEF Steps, Number, Fail, Send
<1>4. status' \in [Platforms -> Stati]
  BY <1>1, <1>3 DEF ProcessorInv, Typed
<1> QED BY <1>1, <1>4, PassingInv

LEMMA StoresInv ==
  ASSUME ProcessorInv, NEW j \in Jobs, SetsTable(j) \/ SavesMessage(j)
  PROVE  ProcessorInv'
<1>1. /\ jobs[j].todo # << >> /\ Head(jobs[j].todo)[1] \in {"table", "save"}
      /\ Proceeds(j, jobs[j]) /\ UNCHANGED <<count, status, sent>>
  BY DEF SetsTable, SavesMessage, Does
<1>2. status' \in [Platforms -> Stati]
  BY <1>1 DEF ProcessorInv, Typed
<1> QED BY <1>1, <1>2, PassingInv

(* A new number is the counter's, which nobody holds yet.                    *)
LEMMA SaveEventIDInv ==
  ASSUME ProcessorInv, NEW j \in Jobs, SaveEventID(j)
  PROVE  ProcessorInv'
<1> DEFINE job == [jobs[j] EXCEPT !.sn = count, !.todo = Tail(jobs[j].todo)]
<1>1. /\ jobs[j].todo # << >> /\ Head(jobs[j].todo)[1] = "number"
      /\ count' = count + 1 /\ UNCHANGED <<status, sent>>
  BY DEF SaveEventID, Does
<1>2. Typed /\ Taken /\ OnceEach(j) /\ CanGoOn(j)
  BY DEF ProcessorInv
<1>3. /\ jobs[j] \in JobStates /\ Tail(jobs[j].todo) \in Seq(Steps)
      /\ NumberedButFirst(jobs[j].todo) /\ Sendable(jobs[j].todo, Len(jobs[j].built))
      /\ jobs[j].todo \in Seq(Steps) /\ Len(jobs[j].built) \in Nat
  BY <1>1, NextStep
<1>4. /\ job \in JobStates /\ job.todo = Tail(jobs[j].todo)
      /\ job.sn = count /\ job.built = jobs[j].built
  BY <1>2, <1>3 DEF JobStates, Typed
<1>5. jobs' = [jobs EXCEPT ![j] = job]
  BY DEF SaveEventID, Proceeds, NextNumber
<1> HIDE DEF job
<1>6. jobs'[j] = job
  BY <1>2, <1>5 DEF Typed
<1>7. /\ \A n : BuiltNumber(j, n)' <=> BuiltNumber(j, n)
      /\ \A n : SentNumber(j, n)' <=> SentNumber(j, n)
  BY <1>1, <1>4, <1>6 DEF BuiltNumber, SentNumber
<1>8. \A n \in Nat : Holds(j, n)' => Holds(j, n) \/ n = count
  BY <1>4, <1>6, <1>7 DEF Holds
<1>9. OnceEach(j)'
  BY <1>1, <1>2, <1>4, <1>6, <1>7 DEF OnceEach
<1>10. count \in Nat /\ ~BuiltNumber(j, count) /\ ~SentNumber(j, count)
  BY <1>2 DEF Typed, Taken, Holds
<1>11. Unused(j)'
  BY <1>4, <1>6, <1>7, <1>10 DEF Unused
<1>12. ~IsEvent(Head(jobs[j].todo)) /\ ~IsSend(Head(jobs[j].todo))
  BY <1>1 DEF IsEvent, IsSend
<1>13. NumberedButFirst(Tail(jobs[j].todo)) /\ Sendable(Tail(jobs[j].todo), Len(jobs[j].built))
  BY <1>1, <1>3, <1>12, NumberTaken, SendableOn
<1>14. CanGoOn(j)'
  BY <1>4, <1>6, <1>11, <1>13 DEF CanGoOn
<1>15. \A i \in 1..Len(job.built) : job.built[i].job = j
  BY <1>2, <1>4 DEF Typed
<1>16. sent' = sent \cup {} /\ {} \in SUBSET Events /\ status' \in [Platforms -> Stati]
  BY <1>1, <1>2 DEF Typed
<1> QED BY <1>1, <1>4, <1>5, <1>8, <1>9, <1>14, <1>15, <1>16, OneGoroutine

(* The number in hand, which is unused, becomes that of the event.           *)
LEMMA BuildsEventInv ==
  ASSUME ProcessorInv, NEW j \in Jobs, BuildsEvent(j)
  PROVE  ProcessorInv'
<1> DEFINE step == Head(jobs[j].todo)
           event == [sn |-> jobs[j].sn, job |-> j, platform |-> Arg(j, 1),
                     login |-> Does(j, "login"),
                     status |-> IF Does(j, "login") THEN status[Arg(j, 1)] ELSE "online"]
           job == [jobs[j] EXCEPT !.built = Append(jobs[j].built, event),
                                  !.todo = Tail(jobs[j].todo)]
<1>1. /\ jobs[j].todo # << >> /\ step[1] \in {"event", "login"}
      /\ UNCHANGED <<count, status, sent>>
  BY DEF BuildsEvent, Does
<1>2. Typed /\ OnceEach(j) /\ CanGoOn(j)
  BY DEF ProcessorInv
<1>3. /\ jobs[j] \in JobStates /\ Tail(jobs[j].todo) \in Seq(Steps) /\ step \in Steps
      /\ NumberedButFirst(jobs[j].todo) /\ Sendable(jobs[j].todo, Len(jobs[j].built))
      /\ jobs[j].todo \in Seq(Steps) /\ jobs[j].built \in Seq(Events)
      /\ Len(jobs[j].built) \in Nat
  BY <1>1, NextStep
<1>4. IsEvent(step) /\ ~IsNumber(step)
  BY <1>1 DEF IsEvent, IsNumber
<1>5. Unused(j)
  BY <1>1, <1>2, <1>3, <1>4, StillNumbered DEF CanGoOn
<1>6. jobs[j].sn \in Nat
  BY <1>3, <1>5 DEF JobStates, Unused
<1>7. Arg(j, 1) \in Platforms
  BY <1>1, <1>3 DEF Arg, Steps, Number, Fail, Send
<1>8. event \in Events /\ event.sn = jobs[j].sn /\ event.job = j
  <2>1. Does(j, "login") \in BOOLEAN
    BY DEF Does
  <2>2. (IF Does(j, "login") THEN status[Arg(j, 1)] ELSE "online") \in Stati
    BY <1>2, <1>7 DEF Typed, Stati
  <2> QED BY <1>6, <1>7, <2>1, <2>2 DEF Events
<1>9. jobs' = [jobs EXCEPT ![j] = job]
  BY DEF BuildsEvent, Proceeds
<1> HIDE DEF event, step
<1>10. /\ Append(jobs[j].built, event) \in Seq(Events)
       /\ Len(Append(jobs[j].built, event)) = Len(jobs[j].built) + 1
       /\ \A i \in 1..Len(jobs[j].built) : Append(jobs[j].built, event)[i] = jobs[j].built[i]
       /\ Append(jobs[j].built, event)[Len(jobs[j].built) + 1] = event
  BY <1>3, <1>8
<1>11. /\ job \in JobStates /\ job.todo = Tail(jobs[j].todo) /\ job.sn = jobs[j].sn
       /\ job.built = Append(jobs[j].built, event)
  BY <1>3, <1>10 DEF JobStates
<1> HIDE DEF job
<1>12. jobs'[j] = job
  BY <1>2, <1>9 DEF Typed
<1>13. \A i \in 1..Len(job.built) :
         i \in 1..Len(jobs[j].built) \/ i = Len(jobs[j].built) + 1
  BY <1>3, <1>10, <1>11
<1>14. \A n : BuiltNumber(j, n)' => BuiltNumber(j, n) \/ n = jobs[j].sn
  <2> SUFFICES ASSUME NEW n, BuiltNumber(j, n)'
               PROVE  BuiltNumber(j, n) \/ n = jobs[j].sn
    OBVIOUS
  <2>1. PICK i \in 1..Len(job.built) : job.built[i].sn = n
    BY <1>12 DEF BuiltNumber
  <2>2. CASE i \in 1..Len(jobs[j].built)
    BY <1>10, <1>11, <2>1, <2>2 DEF BuiltNumber
  <2>3. CASE i = Len(jobs[j].built) + 1
    BY <1>8, <1>10, <1>11, <2>1, <2>3
  <2> QED BY <1>13, <2>2, <2>3
<1>15. \A n : SentNumber(j, n)' <=> SentNumber(j, n)
  BY <1>1 DEF SentNumber
<1>16. \A n \in Nat : Holds(j, n)' => Holds(j, n)
  BY <1>11, <1>12, <1>14, <1>15 DEF Holds
<1>17. OnceEach(j)'
  <2>1. ASSUME NEW i \in 1..Len(job.built), NEW k \in 1..Len(job.built),
               job.built[i].sn = job.built[k].sn
        PROVE  i = k
    <3>1. \A l \in 1..Len(jobs[j].built) : jobs[j].built[l].sn # jobs[j].sn
      BY <1>5 DEF Unused, BuiltNumber
    <3>2. i \in 1..Len(jobs[j].built) /\ k \in 1..Len(jobs[j].built) => i = k
      BY <1>2, <1>10, <1>11, <2>1 DEF OnceEach
    <3> QED BY <1>8, <1>10, <1>11, <1>13, <2>1, <3>1, <3>2
  <2>2. \A n \in Nat : ~(BuiltNumber(j, n)' /\ SentNumber(j, n)')
    BY <1>2, <1>5, <1>14, <1>15 DEF OnceEach, Unused
  <2> QED BY <1>1, <1>2, <1>12, <2>1, <2>2 DEF OnceEach
<1>18. CanGoOn(j)'
  <2>1. Numbered(Tail(jobs[j].todo)) /\ Sendable(Tail(jobs[j].todo), Len(jobs[j].built) + 1)
    BY <1>1, <1>3, <1>4, NumberUsed, SendableBuilt DEF step
  <2> QED BY <1>10, <1>11, <1>12, <2>1 DEF CanGoOn
<1>19. \A i \in 1..Len(job.built) : job.built[i].job = j
  BY <1>2, <1>8, <1>10, <1>11, <1>13 DEF Typed
<1>20. /\ sent' = sent \cup {} /\ {} \in SUBSET Events
       /\ status' \in [Platforms -> Stati] /\ count' \in {count, count + 1}
  BY <1>1, <1>2 DEF Typed
<1> QED BY <1>9, <1>11, <1>16, <1>17, <1>18, <1>19, <1>20, OneGoroutine

(* The event that is sent takes its number along.                            *)
LEMMA BroadcastEventInv ==
  ASSUME ProcessorInv, NEW j \in Jobs, BroadcastEvent(j)
  PROVE  ProcessorInv'
<1> DEFINE event == Head(jobs[j].built)
           job == [jobs[j] EXCEPT !.built = Tail(jobs[j].built), !.todo = Tail(jobs[j].todo)]
<1>1. /\ jobs[j].todo # << >> /\ Head(jobs[j].todo)[1] = "send"
      /\ sent' = sent \cup {event} /\ UNCHANGED <<count, status>>
  BY DEF BroadcastEvent, Does
<1>2. Typed /\ OnceEach(j) /\ CanGoOn(j)
  BY DEF ProcessorInv
<1>3. /\ jobs[j] \in JobStates /\ Tail(jobs[j].todo) \in Seq(Steps)
      /\ NumberedButFirst(jobs[j].todo) /\ Sendable(jobs[j].todo, Len(jobs[j].built))
      /\ jobs[j].todo \in Seq(Steps) /\ jobs[j].built \in Seq(Events)
      /\ Len(jobs[j].built) \in Nat
  BY <1>1, NextStep
<1>4. /\ ~IsEvent(Head(jobs[j].todo)) /\ ~IsNumber(Head(jobs[j].todo))
      /\ IsSend(Head(jobs[j].todo))
  BY <1>1 DEF IsEvent, IsNumber, IsSend
<1>5. Len(jobs[j].built) >= 1 /\ Sendable(Tail(jobs[j].todo), Len(jobs[j].built) - 1)
  BY <1>1, <1>3, <1>4, SendableSent
<1>6. /\ event \in Events /\ event = jobs[j].built[1]
      /\ Tail(jobs[j].built) \in Seq(Events)
      /\ Len(Tail(jobs[j].built)) = Len(jobs[j].built) - 1
      /\ \A i \in 1..Len(Tail(jobs[j].built)) :
           /\ Tail(jobs[j].built)[i] = jobs[j].built[i + 1]
           /\ i + 1 \in 1..Len(jobs[j].built)
  BY <1>3, <1>5
<1>7. 1 \in 1..Len(jobs[j].built) /\ event.job = j /\ event.sn \in Nat
  BY <1>2, <1>3, <1>5, <1>6 DEF Typed, Events
<1>8. jobs' = [jobs EXCEPT ![j] = job]
  BY DEF BroadcastEvent, Proceeds
<1> HIDE DEF event
<1>9. /\ job \in JobStates /\ job.todo = Tail(jobs[j].todo) /\ job.sn = jobs[j].sn
      /\ job.built = Tail(jobs[j].built)
  BY <1>3, <1>6 DEF JobStates
<1> HIDE DEF job
<1>10. jobs'[j] = job
  BY <1>2, <1>8 DEF Typed
<1>11. BuiltNumber(j, event.sn)
  BY <1>6, <1>7 DEF BuiltNumber
<1>12. ASSUME NEW n, BuiltNumber(j, n)'
       PROVE  BuiltNumber(j, n) /\ n # event.sn
  <2>1. PICK i \in 1..Len(Tail(jobs[j].built)) : Tail(jobs[j].built)[i].sn = n
    BY <1>9, <1>10, <1>12 DEF BuiltNumber
  <2>2. jobs[j].built[i + 1].sn = n /\ i + 1 \in 1..Len(jobs[j].built) /\ i + 1 # 1
    BY <1>6, <2>1
  <2> QED BY <1>2, <1>6, <1>7, <2>2 DEF BuiltNumber, OnceEach
<1>13. \A n : SentNumber(j, n)' => SentNumber(j, n) \/ n = event.sn
  BY <1>1 DEF SentNumber
<1>14. \A n \in Nat : Holds(j, n)' => Holds(j, n)
  BY <1>9, <1>10, <1>11, <1>12, <1>13 DEF Holds
<1>15. OnceEach(j)'
  <2>1. ASSUME NEW i \in 1..Len(job.built), NEW k \in 1..Len(job.built),
               job.built[i].sn = job.built[k].sn
        PROVE  i = k
    <3>1. i + 1 = k + 1
      BY <1>2, <1>6, <1>9, <2>1 DEF OnceEach
    <3> QED BY <3>1
  <2>2. \A n \in Nat : ~(BuiltNumber(j, n)' /\ SentNumber(j, n)')
    BY <1>2, <1>12, <1>13 DEF OnceEach
  <2>3. ASSUME NEW d \in sent', NEW e \in sent', d.job = j, e.job = j, d.sn = e.sn
        PROVE  d = e
    <3>1. \A f \in sent : f.job = j => f.sn # event.sn
      BY <1>2, <1>7, <1>11 DEF OnceEach, SentNumber
    <3> QED BY <1>1, <1>2, <2>3, <3>1 DEF OnceEach
  <2> QED BY <1>10, <2>1, <2>2, <2>3 DEF OnceEach
<1>16. CanGoOn(j)'
  <2>1. Numbered(jobs[j].todo) => Numbered(Tail(jobs[j].todo))
    BY <1>1, <1>3, <1>4, StillNumbered
  <2>2. NumberedButFirst(Tail(jobs[j].todo))
    BY <1>1, <1>3, <1>4, NumberTaken
  <2>3. Unused(j) => Unused(j)'
    <3>1. Unused(j) => jobs[j].sn # event.sn
      BY <1>11 DEF Unused
    <3> QED BY <1>9, <1>10, <1>12, <1>13, <3>1 DEF Unused
  <2> QED BY <1>2, <1>5, <1>6, <1>9, <1>10, <2>1, <2>2, <2>3 DEF CanGoOn
<1>17. \A i \in 1..Len(job.built) : job.built[i].job = j
  BY <1>2, <1>6, <1>9 DEF Typed
<1>18. /\ {event} \in SUBSET Events /\ \A e \in {event} : e.job = j
       /\ status' \in [Platforms -> Stati] /\ count' \in {count, count + 1}
  BY <1>1, <1>2, <1>6, <1>7 DEF Typed
<1> QED BY <1>1, <1>8, <1>9, <1>14, <1>15, <1>16, <1>17, <1>18, OneGoroutine

LEMMA NoJobKnown ==
  /\ NoJob \in JobStates /\ NoJob.todo = << >> /\ NoJob.sn = -1
  /\ NoJob.built = << >> /\ Len(NoJob.built) = 0
  BY DEF NoJob, JobStates, Subjects

LEMMA StartJobInv ==
  ASSUME ProcessorInv, NEW j \in Jobs, NEW slot \in Slots, StartJob(j, slot)
  PROVE  ProcessorInv'
<1>1. PICK handler \in HandlerOf(slot), about \in SubjectsOf(slot) :
        jobs' = [jobs EXCEPT ![j] =
                  [NoJob EXCEPT !.slot = slot, !.todo = handler, !.about = about]]
  BY DEF StartJob
<1>2. UNCHANGED <<count, status, sent>>
  BY DEF StartJob
<1>3. Typed /\ OnceEach(j)
  BY DEF ProcessorInv
<1> DEFINE job == [NoJob EXCEPT !.slot = slot, !.todo = handler, !.about = about]
<1>4. Shaped(handler)
  BY HandlersShaped
<1>5. about \in Subjects
  BY DEF SubjectsOf, Subjects, OpenIds
<1>6. /\ job \in JobStates /\ job.todo = handler /\ job.sn = -1 /\ job.built = << >>
      /\ Len(job.built) = 0
  <2>1. handler \in Seq(Steps)
    BY <1>4 DEF Shaped
  <2> QED BY <1>5, <2>1, NoJobKnown DEF JobStates
<1> HIDE DEF job
<1>7. jobs' = [jobs EXCEPT ![j] = job]
  BY <1>1 DEF job
<1>8. jobs'[j] = job
  BY <1>3, <1>7 DEF Typed
<1>9. /\ \A n : ~BuiltNumber(j, n)'
      /\ \A n : SentNumber(j, n)' <=> SentNumber(j, n)
  BY <1>2, <1>6, <1>8 DEF BuiltNumber, SentNumber
<1>10. \A n \in Nat : Holds(j, n)' => Holds(j, n)
  BY <1>6, <1>8, <1>9 DEF Holds
<1>11. OnceEach(j)'
  BY <1>2, <1>3, <1>6, <1>8, <1>9 DEF OnceEach
<1>12. CanGoOn(j)'
  BY <1>4, <1>6, <1>8 DEF CanGoOn, Shaped
<1>13. /\ \A i \in 1..Len(job.built) : job.built[i].job = j
       /\ sent' = sent \cup {} /\ {} \in SUBSET Events
       /\ status' \in [Platforms -> Stati] /\ count' \in {count, count + 1}
  BY <1>2, <1>3, <1>6 DEF Typed
<1> QED BY <1>6, <1>7, <1>10, <1>11, <1>12, <1>13, OneGoroutine
-----------------------------------------------------------------------------
LEMMA ProcessorStarts == ProcessorInit => ProcessorInv
<1> SUFFICES ASSUME ProcessorInit
             PROVE  ProcessorInv
  OBVIOUS
<1>1. jobs = [j \in Jobs |-> NoJob] /\ count = 0 /\ sent = {}
  BY DEF ProcessorInit
<1>2. /\ NoJob \in JobStates /\ NoJob.todo = << >> /\ NoJob.sn = -1
      /\ NoJob.built = << >> /\ Len(NoJob.built) = 0
  BY NoJobKnown
<1>3. Typed
  BY <1>1, <1>2 DEF ProcessorInit, Typed, Stati
<1>4. \A j \in Jobs, n \in Nat : ~Holds(j, n)
  BY <1>1, <1>2 DEF Holds, BuiltNumber, SentNumber
<1>5. ASSUME NEW j \in Jobs
      PROVE  OnceEach(j) /\ CanGoOn(j)
  <2>1. OnceEach(j)
    BY <1>1, <1>2 DEF OnceEach, SentNumber
  <2>2. CanGoOn(j)
    BY <1>1, <1>2 DEF CanGoOn, Numbered, Sendable
  <2> QED BY <2>1, <2>2
<1> QED BY <1>3, <1>4, <1>5 DEF ProcessorInv, Taken, Apart

(* Nothing but the goroutines, the counter, the status and what was sent     *)
(* matters.                                                                  *)
LEMMA ProcessorStays ==
  ASSUME ProcessorInv, UNCHANGED <<jobs, count, status, sent>>
  PROVE  ProcessorInv'
<1>1. /\ Typed' <=> Typed
      /\ \A j, n : BuiltNumber(j, n)' <=> BuiltNumber(j, n)
      /\ \A j, n : SentNumber(j, n)' <=> SentNumber(j, n)
  BY DEF Typed, BuiltNumber, SentNumber
<1>2. /\ \A j, n : Holds(j, n)' <=> Holds(j, n)
      /\ \A j : Unused(j)' <=> Unused(j)
  BY <1>1 DEF Holds, Unused
<1>3. /\ \A j : OnceEach(j)' <=> OnceEach(j)
      /\ \A j : CanGoOn(j)' <=> CanGoOn(j)
  BY <1>1, <1>2 DEF OnceEach, CanGoOn
<1> QED BY <1>1, <1>2, <1>3 DEF ProcessorInv, Taken, Apart

LEMMA ProcessorStep ==
  ASSUME ProcessorInv, [ProcessorNext]_processorVars
  PROVE  ProcessorInv'
<1>1. ASSUME NEW j \in Jobs, NEW slot \in Slots, StartJob(j, slot)
      PROVE  ProcessorInv'
  BY <1>1, StartJobInv
<1>2. ASSUME NEW j \in Jobs, JobStep(j)
      PROVE  ProcessorInv'
  BY <1>2, SaveEventIDInv, MayFailInv, SetsStatusInv, StoresInv, BuildsEventInv,
     BroadcastEventInv DEF JobStep
<1>3. CASE UNCHANGED processorVars
  BY <1>3, ProcessorStays DEF processorVars
<1> QED BY <1>1, <1>2, <1>3 DEF ProcessorNext

(* No two events get the same number, whatever the goroutines of the         *)
(* handlers do in between: what SaveEventID's one step is for.               *)
THEOREM NumbersUniqueCorrect == ProcessorSpec => []NumbersUnique
<1>1. ProcessorInit => ProcessorInv
  BY ProcessorStarts
<1>2. ProcessorInv /\ [ProcessorNext]_processorVars => ProcessorInv'
  BY ProcessorStep
<1>3. ProcessorInv => NumbersUnique
  <2> SUFFICES ASSUME ProcessorInv, NEW d \in sent, NEW e \in sent, d.sn = e.sn
               PROVE  d = e
    BY DEF NumbersUnique
  <2>1. d.job \in Jobs /\ e.job \in Jobs /\ d.sn \in Nat
    BY DEF ProcessorInv, Typed, Events
  <2>2. Holds(d.job, d.sn) /\ Holds(e.job, d.sn)
    BY DEF Holds, SentNumber
  <2>3. d.job = e.job
    BY <2>1, <2>2 DEF ProcessorInv, Apart
  <2> QED BY <2>1, <2>3 DEF ProcessorInv, OnceEach
<1> QED BY <1>1, <1>2, <1>3, PTL DEF ProcessorSpec
-----------------------------------------------------------------------------
(* The status that the latest login.updated tells.  Such a handler's todo is *)
(* what is left of LoginUpdated, so that its length says where it is.        *)
LoginSlots == {"Ready", "ErrorNotify"}

StageOf(todo, s) ==
  Len(todo) <= 8 /\ \A i \in 1..Len(todo) : todo[i] = LoginUpdated(s)[8 - Len(todo) + i]

BuiltAt(left) == IF left >= 5 THEN 0 ELSE IF left >= 3 THEN 1 ELSE left

AtStage(j) ==
  /\ jobs[j].slot = "none" => jobs[j].todo = << >> /\ jobs[j].built = << >>
  /\ IF jobs[j].slot \in LoginSlots
     THEN /\ \E s \in Stati : StageOf(jobs[j].todo, s)
          /\ Len(jobs[j].built) = BuiltAt(Len(jobs[j].todo))
     ELSE /\ \A i \in 1..Len(jobs[j].todo) : jobs[j].todo[i][1] \notin {"status", "login"}
          /\ \A i \in 1..Len(jobs[j].built) : ~jobs[j].built[i].login

(* A login.updated of p that is built, and maybe sent.                       *)
LoginOut(e, p) ==
  /\ e.login /\ e.platform = p
  /\ \/ e \in sent
     \/ \E k \in Jobs : \E i \in 1..Len(jobs[k].built) : jobs[k].built[i] = e

(* A handler that will still tell the status of p, with a number greater     *)
(* than those out: one it has yet to take, or the one in its hand.           *)
LoginLeft(p) == IF p = "qq" THEN 5 ELSE 3

Promises(j, p) ==
  /\ jobs[j].slot \in LoginSlots
  /\ \/ Len(jobs[j].todo) > LoginLeft(p)
     \/ /\ Len(jobs[j].todo) = LoginLeft(p)
        /\ \A e \in Events : LoginOut(e, p) => e.sn < jobs[j].sn

Latest(p) ==
  (\E e \in Events : LoginOut(e, p)) =>
    \/ \E j \in Jobs : Promises(j, p)
    \/ \E e \in Events : /\ LoginOut(e, p) /\ e.status = status[p]
                         /\ \A d \in Events : LoginOut(d, p) => d.sn <= e.sn

LatestInv ==
  /\ ProcessorInv
  /\ \A j \in Jobs : AtStage(j)
  /\ \A p \in Platforms : Latest(p)

LEMMA StageNext ==
  ASSUME NEW s \in Stati, NEW todo \in Seq(Steps), todo # << >>, StageOf(todo, s)
  PROVE  /\ StageOf(Tail(todo), s) /\ Len(todo) \in 1..8 /\ Len(Tail(todo)) = Len(todo) - 1
         /\ Len(todo) \in {7, 8} => Head(todo)[1] = "status"
         /\ Len(todo) \in {4, 6} => Head(todo) = Number
         /\ Len(todo) = 5 => Head(todo) = LoginEvent("qq")
         /\ Len(todo) = 3 => Head(todo) = LoginEvent("qqguild")
         /\ Len(todo) \in {1, 2} => Head(todo) = Send
<1>1. /\ Len(todo) \in Nat /\ Len(todo) >= 1 /\ Len(Tail(todo)) = Len(todo) - 1
      /\ Head(todo) = todo[1] /\ \A n \in 1..Len(Tail(todo)) : Tail(todo)[n] = todo[n + 1]
  BY TailSteps
<1>2. Len(todo) \in 1..8
  <2> DEFINE left == Len(todo)
  <2>1. left <= 8 /\ left \in Nat /\ left >= 1
    BY <1>1 DEF StageOf
  <2> HIDE DEF left
  <2>2. left \in 1..8
    BY <2>1
  <2> QED BY <2>2 DEF left
<1>3. StageOf(Tail(todo), s)
  <2>1. ASSUME NEW i \in 1..Len(Tail(todo))
        PROVE  Tail(todo)[i] = LoginUpdated(s)[8 - Len(Tail(todo)) + i]
    <3>1. Tail(todo)[i] = todo[i + 1] /\ i + 1 \in 1..Len(todo)
          /\ 8 - Len(Tail(todo)) + i = 8 - Len(todo) + (i + 1)
      BY <1>1
    <3> QED BY <3>1 DEF StageOf
  <2> QED BY <1>1, <1>2, <2>1 DEF StageOf
<1>4. Head(todo) = LoginUpdated(s)[9 - Len(todo)]
  <2>1. 1 \in 1..Len(todo) /\ 8 - Len(todo) + 1 = 9 - Len(todo)
    BY <1>1
  <2> QED BY <1>1, <2>1 DEF StageOf
<1>5. /\ LoginUpdated(s)[1][1] = "status" /\ LoginUpdated(s)[2][1] = "status"
      /\ LoginUpdated(s)[3] = Number /\ LoginUpdated(s)[4] = LoginEvent("qq")
      /\ LoginUpdated(s)[5] = Number /\ LoginUpdated(s)[6] = LoginEvent("qqguild")
      /\ LoginUpdated(s)[7] = Send /\ LoginUpdated(s)[8] = Send
  BY DEF LoginUpdated, SetStatus
<1>6. ASSUME NEW n \in 1..8, Len(todo) = n
      PROVE  Head(todo) = LoginUpdated(s)[9 - n]
  BY <1>4, <1>6
<1>7. /\ Len(todo) \in {7, 8} => Head(todo)[1] = "status"
      /\ Len(todo) \in {4, 6} => Head(todo) = Number
      /\ Len(todo) = 5 => Head(todo) = LoginEvent("qq")
      /\ Len(todo) = 3 => Head(todo) = LoginEvent("qqguild")
      /\ Len(todo) \in {1, 2} => Head(todo) = Send
  <2>1. /\ Len(todo) = 8 => Head(todo) = LoginUpdated(s)[1]
        /\ Len(todo) = 7 => Head(todo) = LoginUpdated(s)[2]
        /\ Len(todo) = 6 => Head(todo) = LoginUpdated(s)[3]
        /\ Len(todo) = 5 => Head(todo) = LoginUpdated(s)[4]
        /\ Len(todo) = 4 => Head(todo) = LoginUpdated(s)[5]
        /\ Len(todo) = 3 => Head(todo) = LoginUpdated(s)[6]
        /\ Len(todo) = 2 => Head(todo) = LoginUpdated(s)[7]
        /\ Len(todo) = 1 => Head(todo) = LoginUpdated(s)[8]
    BY <1>6
  <2> QED BY <1>5, <2>1
<1> QED BY <1>1, <1>2, <1>3, <1>7

(* The other handlers set no status and build no login.updated.              *)
Bystander(handler) == \A i \in 1..Len(handler) : handler[i][1] \notin {"status", "login"}

LEMMA Bystanders ==
  ASSUME NEW slot, slot \notin LoginSlots, NEW handler \in HandlerOf(slot)
  PROVE  Bystander(handler)
<1>1. Bystander(ProcessC2CMessage) /\ Bystander(ProcessGroupMessage)
  BY DEF ProcessC2CMessage, ProcessGroupMessage, Bystander, Number, Fail, Table, Save,
         Event, Send
<1>2. /\ Bystander(ProcessChannelDirectMessage) /\ Bystander(ProcessGuildATMessage)
      /\ Bystander(ProcessGuildNormalMessage) /\ Bystander(ProcessGuildEvent)
      /\ Bystander(ProcessMemberEvent)
  BY DEF ProcessChannelDirectMessage, ProcessGuildATMessage, ProcessGuildNormalMessage,
         ProcessGuildEvent, ProcessMemberEvent, Bystander, Number, Fail, Table, Event, Send
<1>3. /\ Bystander(ProcessGroupAddRobot) /\ Bystander(ProcessGroupDelRobot)
      /\ Bystander(ProcessChannelEvent) /\ Bystander(ProcessMessageDelete)
      /\ Bystander(ProcessMessageReaction) /\ Bystander(ProcessQQGuildInternal)
      /\ \A p : Bystander(ProcessInteractionEvent(p))
  BY DEF ProcessGroupAddRobot, ProcessGroupDelRobot, ProcessChannelEvent,
         ProcessMessageDelete, ProcessMessageReaction, ProcessQQGuildInternal,
         ProcessInteractionEvent, Bystander, Number, Fail, Table, Event, Send
<1> QED BY <1>1, <1>2, <1>3 DEF HandlerOf, LoginSlots

(* A goroutine that is not a login handler's has no such step left.          *)
LEMMA OthersGoOn ==
  ASSUME ProcessorInv, NEW j \in Jobs, AtStage(j), jobs[j].slot \notin LoginSlots,
         jobs[j].todo # << >>
  PROVE  /\ Head(jobs[j].todo)[1] \notin {"status", "login"}
         /\ \A i \in 1..Len(Tail(jobs[j].todo)) :
              Tail(jobs[j].todo)[i][1] \notin {"status", "login"}
<1>1. jobs[j].todo \in Seq(Steps)
  BY NextStep
<1>2. /\ 1 \in 1..Len(jobs[j].todo) /\ Head(jobs[j].todo) = jobs[j].todo[1]
      /\ \A n \in 1..Len(Tail(jobs[j].todo)) :
           Tail(jobs[j].todo)[n] = jobs[j].todo[n + 1] /\ n + 1 \in 1..Len(jobs[j].todo)
  BY <1>1, TailSteps
<1> QED BY <1>2 DEF AtStage

(* A step that puts no login.updated out, sets no status and keeps promises. *)
LEMMA NothingNew ==
  ASSUME LatestInv, ProcessorInv', NEW j \in Jobs, status' = status,
         \A k \in Jobs : k # j => jobs'[k] = jobs[k], AtStage(j)',
         \A e \in Events, p \in Platforms : LoginOut(e, p)' <=> LoginOut(e, p),
         \A p \in Platforms : Promises(j, p) => Promises(j, p)'
  PROVE  LatestInv'
<1>1. ASSUME NEW k \in Jobs
      PROVE  AtStage(k)'
  BY DEF LatestInv, AtStage
<1>2. ASSUME NEW p \in Platforms
      PROVE  Latest(p)'
  <2>1. \A k \in Jobs : Promises(k, p) => Promises(k, p)'
    BY DEF Promises
  <2>2. Latest(p)
    BY DEF LatestInv
  <2> QED BY <2>1, <2>2 DEF Latest
<1> QED BY <1>1, <1>2 DEF LatestInv

(* What is out when one goroutine changes what it has built.                 *)
LEMMA OutKept ==
  ASSUME NEW j \in Jobs, \A k \in Jobs : k # j => jobs'[k] = jobs[k],
         jobs'[j].built = jobs[j].built, sent' = sent, NEW e, NEW p
  PROVE  LoginOut(e, p)' <=> LoginOut(e, p)
BY DEF LoginOut

LEMMA OutBelow ==
  ASSUME ProcessorInv, NEW e \in Events, NEW p, LoginOut(e, p)
  PROVE  e.sn < count
<1>1. e.sn \in Nat
  BY DEF Events
<1>2. Holds(e.job, e.sn) /\ e.job \in Jobs
  <2>1. CASE e \in sent
    BY <2>1 DEF ProcessorInv, Typed, Holds, SentNumber, Events
  <2>2. ASSUME NEW k \in Jobs, NEW i \in 1..Len(jobs[k].built), jobs[k].built[i] = e
        PROVE  Holds(e.job, e.sn) /\ e.job \in Jobs
    BY <2>2 DEF ProcessorInv, Typed, Holds, BuiltNumber
  <2> QED BY <2>1, <2>2 DEF LoginOut
<1> QED BY <1>1, <1>2 DEF ProcessorInv, Taken
-----------------------------------------------------------------------------
(* The handler of a READY or an error goes on.                               *)
LEMMA LoginStage ==
  ASSUME LatestInv, NEW j \in Jobs, jobs[j].slot \in LoginSlots, jobs[j].todo # << >>
  PROVE  /\ \E s \in Stati : StageOf(Tail(jobs[j].todo), s)
         /\ Len(jobs[j].todo) \in 1..8
         /\ Len(Tail(jobs[j].todo)) = Len(jobs[j].todo) - 1
         /\ Len(jobs[j].built) = BuiltAt(Len(jobs[j].todo))
         /\ Does(j, "status") <=> Len(jobs[j].todo) \in {7, 8}
         /\ Does(j, "number") <=> Len(jobs[j].todo) \in {4, 6}
         /\ Does(j, "login") <=> Len(jobs[j].todo) \in {3, 5}
         /\ Does(j, "send") <=> Len(jobs[j].todo) \in {1, 2}
         /\ ~Does(j, "fail") /\ ~Does(j, "table") /\ ~Does(j, "save") /\ ~Does(j, "event")
         /\ Len(jobs[j].todo) = 5 => Arg(j, 1) = "qq"
         /\ Len(jobs[j].todo) = 3 => Arg(j, 1) = "qqguild"
<1>1. /\ jobs[j].todo \in Seq(Steps) /\ \E s \in Stati : StageOf(jobs[j].todo, s)
      /\ Len(jobs[j].built) = BuiltAt(Len(jobs[j].todo))
  BY NextStep DEF LatestInv, AtStage
<1>2. PICK s \in Stati : StageOf(jobs[j].todo, s)
  BY <1>1
<1>3. /\ StageOf(Tail(jobs[j].todo), s) /\ Len(jobs[j].todo) \in 1..8
      /\ Len(Tail(jobs[j].todo)) = Len(jobs[j].todo) - 1
      /\ Len(jobs[j].todo) \in {7, 8} => Head(jobs[j].todo)[1] = "status"
      /\ Len(jobs[j].todo) \in {4, 6} => Head(jobs[j].todo) = Number
      /\ Len(jobs[j].todo) = 5 => Head(jobs[j].todo) = LoginEvent("qq")
      /\ Len(jobs[j].todo) = 3 => Head(jobs[j].todo) = LoginEvent("qqguild")
      /\ Len(jobs[j].todo) \in {1, 2} => Head(jobs[j].todo) = Send
  BY <1>1, <1>2, StageNext
<1>4. \/ Len(jobs[j].todo) \in {7, 8} /\ Head(jobs[j].todo)[1] = "status"
      \/ Len(jobs[j].todo) \in {4, 6} /\ Head(jobs[j].todo)[1] = "number"
      \/ Len(jobs[j].todo) \in {3, 5} /\ Head(jobs[j].todo)[1] = "login"
      \/ Len(jobs[j].todo) \in {1, 2} /\ Head(jobs[j].todo)[1] = "send"
  BY <1>3 DEF Number, LoginEvent, Send
<1>5. /\ Len(jobs[j].todo) = 5 => Arg(j, 1) = "qq"
      /\ Len(jobs[j].todo) = 3 => Arg(j, 1) = "qqguild"
  BY <1>3 DEF Arg, LoginEvent
<1>6. /\ Does(j, "status") <=> Len(jobs[j].todo) \in {7, 8}
      /\ Does(j, "number") <=> Len(jobs[j].todo) \in {4, 6}
      /\ Does(j, "login") <=> Len(jobs[j].todo) \in {3, 5}
      /\ Does(j, "send") <=> Len(jobs[j].todo) \in {1, 2}
      /\ ~Does(j, "fail") /\ ~Does(j, "table") /\ ~Does(j, "save") /\ ~Does(j, "event")
  <2> DEFINE left == Len(jobs[j].todo)
             op == Head(jobs[j].todo)[1]
  <2>1. \/ left \in {7, 8} /\ op = "status"
        \/ left \in {4, 6} /\ op = "number"
        \/ left \in {3, 5} /\ op = "login"
        \/ left \in {1, 2} /\ op = "send"
    BY <1>4
  <2>2. \A name : Does(j, name) <=> op = name
    BY DEF Does
  <2> HIDE DEF left, op
  <2> SUFFICES /\ Does(j, "status") <=> left \in {7, 8}
               /\ Does(j, "number") <=> left \in {4, 6}
               /\ Does(j, "login") <=> left \in {3, 5}
               /\ Does(j, "send") <=> left \in {1, 2}
               /\ ~Does(j, "fail") /\ ~Does(j, "table") /\ ~Does(j, "save") /\ ~Does(j, "event")
    BY DEF left
  <2> QED BY <2>1, <2>2
<1> QED BY <1>1, <1>3, <1>5, <1>6

LEMMA QuietLatest ==
  ASSUME LatestInv, ProcessorInv', NEW j \in Jobs, jobs[j].todo # << >>,
         NEW rest \in {Tail(jobs[j].todo), << >>}, jobs[j].slot \notin LoginSlots,
         jobs' = [jobs EXCEPT ![j] = [jobs[j] EXCEPT !.todo = rest]],
         UNCHANGED <<status, sent>>
  PROVE  LatestInv'
<1>1. /\ jobs[j] \in JobStates /\ AtStage(j) /\ ProcessorInv /\ Typed
  BY DEF LatestInv, ProcessorInv, Typed
<1>2. /\ jobs'[j].slot = jobs[j].slot /\ jobs'[j].built = jobs[j].built
      /\ jobs'[j].todo = rest /\ \A k \in Jobs : k # j => jobs'[k] = jobs[k]
  BY <1>1 DEF Typed, JobStates
<1>3. \A i \in 1..Len(rest) : rest[i][1] \notin {"status", "login"}
  BY <1>1, OthersGoOn
<1>4. AtStage(j)'
  BY <1>1, <1>2, <1>3 DEF AtStage
<1>5. \A e \in Events, p \in Platforms : LoginOut(e, p)' <=> LoginOut(e, p)
  BY <1>2, OutKept
<1>6. \A p \in Platforms : ~Promises(j, p)
  BY DEF Promises
<1> QED BY <1>2, <1>4, <1>5, <1>6, NothingNew

LEMMA Ahead ==
  /\ \A l \in {4, 6}, m \in {3, 5} : l = m \/ l > m => l - 1 > m \/ l - 1 = m
  /\ \A l \in {6, 7}, m \in {3, 5} : l > m
OBVIOUS

(* A number that is taken now is greater than all that are out.              *)
LEMMA NumberLatest ==
  ASSUME LatestInv, ProcessorInv', NEW j \in Jobs, SaveEventID(j)
  PROVE  LatestInv'
<1>1. /\ jobs[j].todo # << >> /\ Does(j, "number") /\ UNCHANGED <<status, sent>>
      /\ jobs' = [jobs EXCEPT ![j] = [jobs[j] EXCEPT !.sn = count, !.todo = Tail(jobs[j].todo)]]
  BY DEF SaveEventID, Does, Proceeds, NextNumber
<1>2. jobs[j] \in JobStates /\ AtStage(j) /\ ProcessorInv /\ Typed
  BY DEF LatestInv, ProcessorInv, Typed
<1>3. /\ jobs'[j].slot = jobs[j].slot /\ jobs'[j].built = jobs[j].built
      /\ jobs'[j].sn = count /\ jobs'[j].todo = Tail(jobs[j].todo)
      /\ \A k \in Jobs : k # j => jobs'[k] = jobs[k]
  BY <1>1, <1>2 DEF Typed, JobStates
<1>4. \A e \in Events, p \in Platforms : LoginOut(e, p)' <=> LoginOut(e, p)
  BY <1>1, <1>3, OutKept
<1>5. CASE jobs[j].slot \notin LoginSlots
  <2>1. AtStage(j)'
    BY <1>1, <1>2, <1>3, <1>5, OthersGoOn DEF AtStage
  <2>2. \A p \in Platforms : ~Promises(j, p)
    BY <1>5 DEF Promises
  <2> QED BY <1>1, <1>3, <1>4, <2>1, <2>2, NothingNew
<1>6. CASE jobs[j].slot \in LoginSlots
  <2>1. /\ Len(jobs[j].todo) \in {4, 6} /\ Len(Tail(jobs[j].todo)) = Len(jobs[j].todo) - 1
        /\ \E s \in Stati : StageOf(Tail(jobs[j].todo), s)
        /\ Len(jobs[j].built) = BuiltAt(Len(jobs[j].todo))
    BY <1>1, <1>6, LoginStage
  <2>2. AtStage(j)'
    <3>1. Len(jobs[j].todo) = 4 => Len(jobs'[j].todo) = 3 /\ BuiltAt(4) = BuiltAt(3)
      BY <1>3, <2>1 DEF BuiltAt
    <3>2. Len(jobs[j].todo) = 6 => Len(jobs'[j].todo) = 5 /\ BuiltAt(6) = BuiltAt(5)
      BY <1>3, <2>1 DEF BuiltAt
    <3>3. Len(jobs'[j].built) = BuiltAt(Len(jobs'[j].todo))
      BY <1>3, <2>1, <3>1, <3>2
    <3> QED BY <1>3, <1>6, <2>1, <3>3 DEF AtStage, LoginSlots
  <2>3. ASSUME NEW p \in Platforms, Promises(j, p)
        PROVE  Promises(j, p)'
    <3>1. \A e \in Events : LoginOut(e, p)' => e.sn < jobs'[j].sn
      BY <1>2, <1>3, <1>4, OutBelow
    <3>2. LoginLeft(p) \in {3, 5}
      BY DEF LoginLeft
    <3>3. Len(jobs[j].todo) = LoginLeft(p) \/ Len(jobs[j].todo) > LoginLeft(p)
      BY <2>3 DEF Promises
    <3>4. Len(jobs'[j].todo) = Len(jobs[j].todo) - 1
      BY <1>3, <2>1
    <3>5. Len(jobs'[j].todo) > LoginLeft(p) \/ Len(jobs'[j].todo) = LoginLeft(p)
      BY <2>1, <3>2, <3>3, <3>4, Ahead
    <3> QED BY <1>3, <1>6, <3>1, <3>5 DEF Promises
  <2> QED BY <1>1, <1>3, <1>4, <2>2, <2>3, NothingNew
<1> QED BY <1>5, <1>6

(* Whoever sets the status has yet to take a number for each event.          *)
LEMMA StatusLatest ==
  ASSUME LatestInv, ProcessorInv', NEW j \in Jobs, SetsStatus(j)
  PROVE  LatestInv'
<1>1. /\ jobs[j].todo # << >> /\ Does(j, "status")
      /\ jobs' = [jobs EXCEPT ![j] = [jobs[j] EXCEPT !.todo = Tail(jobs[j].todo)]]
  BY DEF SetsStatus, Does, Proceeds
<1>2. jobs[j] \in JobStates /\ AtStage(j) /\ ProcessorInv /\ Typed
  BY DEF LatestInv, ProcessorInv, Typed
<1>3. /\ jobs'[j].slot = jobs[j].slot /\ jobs'[j].built = jobs[j].built
      /\ jobs'[j].todo = Tail(jobs[j].todo)
      /\ \A k \in Jobs : k # j => jobs'[k] = jobs[k]
  BY <1>1, <1>2 DEF Typed, JobStates
<1>4. jobs[j].slot \in LoginSlots
  BY <1>1, <1>2, OthersGoOn DEF Does
<1>5. /\ Len(jobs[j].todo) \in {7, 8} /\ Len(Tail(jobs[j].todo)) = Len(jobs[j].todo) - 1
      /\ \E s \in Stati : StageOf(Tail(jobs[j].todo), s)
      /\ Len(jobs[j].built) = BuiltAt(Len(jobs[j].todo))
  BY <1>1, <1>4, LoginStage
<1>6. ASSUME NEW k \in Jobs
      PROVE  AtStage(k)'
  <2>1. AtStage(j)'
    <3>1. Len(jobs[j].todo) = 7 => Len(jobs'[j].todo) = 6 /\ BuiltAt(7) = BuiltAt(6)
      BY <1>3, <1>5 DEF BuiltAt
    <3>2. Len(jobs[j].todo) = 8 => Len(jobs'[j].todo) = 7 /\ BuiltAt(8) = BuiltAt(7)
      BY <1>3, <1>5 DEF BuiltAt
    <3>3. Len(jobs'[j].built) = BuiltAt(Len(jobs'[j].todo))
      BY <1>3, <1>5, <3>1, <3>2
    <3> QED BY <1>3, <1>4, <1>5, <3>3 DEF AtStage, LoginSlots
  <2>2. CASE k # j
    BY <1>3, <2>2 DEF LatestInv, AtStage
  <2> QED BY <2>1, <2>2
<1>7. ASSUME NEW p \in Platforms
      PROVE  Promises(j, p)'
  <2>1. Len(jobs'[j].todo) \in {6, 7}
    BY <1>3, <1>5
  <2>2. LoginLeft(p) \in {3, 5}
    BY DEF LoginLeft
  <2>3. Len(jobs'[j].todo) > LoginLeft(p)
    BY <2>1, <2>2, Ahead
  <2> QED BY <1>3, <1>4, <2>3 DEF Promises
<1> QED BY <1>6, <1>7 DEF LatestInv, Latest

LEMMA StartLatest ==
  ASSUME LatestInv, ProcessorInv', NEW j \in Jobs, NEW slot \in Slots, StartJob(j, slot)
  PROVE  LatestInv'
<1>1. PICK handler \in HandlerOf(slot), about \in SubjectsOf(slot) :
        jobs' = [jobs EXCEPT ![j] =
                  [NoJob EXCEPT !.slot = slot, !.todo = handler, !.about = about]]
  BY DEF StartJob
<1>2. jobs[j].slot = "none" /\ UNCHANGED <<status, sent>> /\ Typed
  BY DEF StartJob, LatestInv, ProcessorInv
<1>3. /\ jobs'[j].slot = slot /\ jobs'[j].todo = handler /\ jobs'[j].built = << >>
      /\ \A k \in Jobs : k # j => jobs'[k] = jobs[k]
  BY <1>1, <1>2 DEF Typed, NoJob
<1>4. \A k \in Jobs : k # j => AtStage(k)'
  BY <1>3 DEF LatestInv, AtStage
<1>5. CASE slot \in LoginSlots
  <2>1. PICK s \in Stati : handler = LoginUpdated(s)
    BY <1>5 DEF LoginSlots, HandlerOf, ReadyHandler, ErrorNotifyHandler, Stati
  <2>2. Len(handler) = 8
    BY <2>1 DEF LoginUpdated
  <2>3. StageOf(handler, s)
    BY <2>1, <2>2 DEF StageOf
  <2>4. AtStage(j)'
    BY <1>3, <1>5, <2>2, <2>3 DEF AtStage, BuiltAt, LoginSlots
  <2>5. \A p \in Platforms : Promises(j, p)'
    BY <1>3, <1>5, <2>2 DEF Promises, LoginLeft
  <2> QED BY <1>4, <2>4, <2>5 DEF LatestInv, Latest
<1>6. CASE slot \notin LoginSlots
  <2>1. \A i \in 1..Len(handler) : handler[i][1] \notin {"status", "login"}
    BY <1>6, Bystanders DEF Bystander
  <2>2. AtStage(j)'
    <3>1. slot # "none"
      BY <1>1 DEF HandlerOf
    <3> QED BY <1>3, <1>6, <2>1, <3>1 DEF AtStage
  <2>3. \A e \in Events, p \in Platforms : LoginOut(e, p)' => LoginOut(e, p)
    BY <1>2, <1>3 DEF LoginOut
  <2>4. \A e \in Events, p \in Platforms : LoginOut(e, p) => LoginOut(e, p)'
    <3>1. jobs[j].built = << >>
      BY <1>2 DEF LatestInv, AtStage
    <3> QED BY <1>2, <1>3, <3>1 DEF LoginOut
  <2>5. \A p \in Platforms : ~Promises(j, p)
    BY <1>2 DEF Promises, LoginSlots
  <2> QED BY <1>2, <1>3, <2>2, <2>3, <2>4, <2>5, NothingNew
<1> QED BY <1>5, <1>6

(* The login.updated that is built now tells the status as it is; it is the  *)
(* latest, or the one that is remains so.                                    *)
LEMMA BuiltLatest ==
  ASSUME LatestInv, ProcessorInv', NEW j \in Jobs, BuildsEvent(j)
  PROVE  LatestInv'
<1>0. PICK event : event =
        [sn |-> jobs[j].sn, job |-> j, platform |-> Arg(j, 1), login |-> Does(j, "login"),
         status |-> IF Does(j, "login") THEN status[Arg(j, 1)] ELSE "online"]
  OBVIOUS
<1>1. /\ jobs[j].todo # << >> /\ UNCHANGED <<status, sent>>
      /\ Does(j, "event") \/ Does(j, "login")
      /\ jobs' = [jobs EXCEPT ![j] = [jobs[j] EXCEPT !.built = Append(jobs[j].built, event),
                                                     !.todo = Tail(jobs[j].todo)]]
  BY <1>0 DEF BuildsEvent, Does, Proceeds
<1>2. jobs[j] \in JobStates /\ AtStage(j) /\ ProcessorInv /\ Typed
  BY DEF LatestInv, ProcessorInv, Typed
<1>3. /\ jobs'[j].slot = jobs[j].slot /\ jobs'[j].built = Append(jobs[j].built, event)
      /\ jobs'[j].sn = jobs[j].sn /\ jobs'[j].todo = Tail(jobs[j].todo)
      /\ \A k \in Jobs : k # j => jobs'[k] = jobs[k]
  BY <1>1, <1>2 DEF Typed, JobStates
<1>4. /\ jobs[j].built \in Seq(Events) /\ Len(jobs'[j].built) = Len(jobs[j].built) + 1
      /\ Len(jobs[j].built) \in Nat
      /\ \A i \in 1..Len(jobs[j].built) : jobs'[j].built[i] = jobs[j].built[i]
      /\ jobs'[j].built[Len(jobs[j].built) + 1] = event
  BY <1>2, <1>3 DEF JobStates
<1>5. ASSUME NEW e, NEW p
      PROVE  LoginOut(e, p)' <=>
               LoginOut(e, p) \/ (e = event /\ event.login /\ event.platform = p)
  <2>1. (\E i \in 1..Len(jobs'[j].built) : jobs'[j].built[i] = e) <=>
          (\E i \in 1..Len(jobs[j].built) : jobs[j].built[i] = e) \/ e = event
    <3>1. \A i \in 1..Len(jobs'[j].built) :
            i \in 1..Len(jobs[j].built) \/ i = Len(jobs[j].built) + 1
      BY <1>4
    <3>2. /\ Len(jobs[j].built) + 1 \in 1..Len(jobs'[j].built)
          /\ \A i \in 1..Len(jobs[j].built) : i \in 1..Len(jobs'[j].built)
      BY <1>4
    <3> QED BY <1>4, <3>1, <3>2
  <2>2. (\E k \in Jobs : \E i \in 1..Len(jobs'[k].built) : jobs'[k].built[i] = e) <=>
          (\E k \in Jobs : \E i \in 1..Len(jobs[k].built) : jobs[k].built[i] = e) \/ e = event
    BY <1>3, <2>1
  <2> QED BY <1>1, <2>2 DEF LoginOut
<1>6. CASE jobs[j].slot \notin LoginSlots
  <2>1. ~Does(j, "login") /\ ~event.login
    <3>1. ~Does(j, "login")
      BY <1>1, <1>2, <1>6, OthersGoOn DEF Does
    <3>2. Does(j, "login") = FALSE
      BY <3>1 DEF Does
    <3>3. event.login = FALSE
      BY <1>0, <3>2
    <3> QED BY <3>1, <3>3
  <2>2. \A i \in 1..Len(jobs'[j].built) : ~jobs'[j].built[i].login
    <3>1. \A i \in 1..Len(jobs[j].built) : ~jobs[j].built[i].login
      BY <1>2, <1>6 DEF AtStage
    <3>2. \A i \in 1..Len(jobs'[j].built) :
            i \in 1..Len(jobs[j].built) \/ i = Len(jobs[j].built) + 1
      BY <1>4
    <3> QED BY <1>4, <2>1, <3>1, <3>2
  <2>3. AtStage(j)'
    BY <1>1, <1>2, <1>3, <1>6, <2>2, OthersGoOn DEF AtStage
  <2>4. \A p \in Platforms : ~Promises(j, p)
    BY <1>6 DEF Promises
  <2>5. \A e \in Events, p \in Platforms : LoginOut(e, p)' <=> LoginOut(e, p)
    BY <1>5, <2>1
  <2> QED BY <1>1, <1>3, <2>3, <2>4, <2>5, NothingNew
<1>7. CASE jobs[j].slot \in LoginSlots
  <2>1. /\ Len(jobs[j].todo) \in {3, 5} /\ Len(Tail(jobs[j].todo)) = Len(jobs[j].todo) - 1
        /\ \E s \in Stati : StageOf(Tail(jobs[j].todo), s)
        /\ Len(jobs[j].built) = BuiltAt(Len(jobs[j].todo)) /\ Does(j, "login")
        /\ Len(jobs[j].todo) = 5 => Arg(j, 1) = "qq"
        /\ Len(jobs[j].todo) = 3 => Arg(j, 1) = "qqguild"
    BY <1>1, <1>7, LoginStage
  <2>2. AtStage(j)'
    <3>1. Len(jobs[j].todo) = 3 => Len(jobs'[j].todo) = 2 /\ BuiltAt(2) = BuiltAt(3) + 1
      BY <1>3, <2>1 DEF BuiltAt
    <3>2. Len(jobs[j].todo) = 5 => Len(jobs'[j].todo) = 4 /\ BuiltAt(4) = BuiltAt(5) + 1
      BY <1>3, <2>1 DEF BuiltAt
    <3>3. Len(jobs'[j].built) = BuiltAt(Len(jobs'[j].todo))
      BY <1>4, <2>1, <3>1, <3>2
    <3> QED BY <1>3, <1>7, <2>1, <3>3 DEF AtStage, LoginSlots
  <2>3. /\ event.login /\ event.platform = Arg(j, 1) /\ event.sn = jobs[j].sn
        /\ event.status = status[Arg(j, 1)] /\ Arg(j, 1) \in Platforms
        /\ LoginLeft(Arg(j, 1)) = Len(jobs[j].todo)
    BY <1>0, <2>1 DEF LoginLeft, Platforms
  <2>4. event \in Events
    <3>1. event = jobs'[j].built[Len(jobs[j].built) + 1]
          /\ Len(jobs[j].built) + 1 \in 1..Len(jobs'[j].built)
      BY <1>4
    <3>2. jobs'[j].built \in Seq(Events)
      BY DEF ProcessorInv, Typed, JobStates
    <3> QED BY <3>1, <3>2
  <2>5. jobs[j].sn \in Nat
    BY <2>3, <2>4 DEF Events
  <2>6. ASSUME NEW k \in Jobs
        PROVE  AtStage(k)'
    <3>1. CASE k # j
      BY <1>3, <3>1 DEF LatestInv, AtStage
    <3> QED BY <2>2, <3>1
  <2>7. ASSUME NEW p \in Platforms, p # Arg(j, 1)
        PROVE  Latest(p)'
    <3>1. \A e \in Events : LoginOut(e, p)' <=> LoginOut(e, p)
      BY <1>5, <2>3, <2>7
    <3>2. Promises(j, p) => Promises(j, p)'
      <4>1. Len(jobs[j].todo) = 5 => LoginLeft(p) = 3 /\ Len(jobs'[j].todo) = 4
        BY <1>3, <2>1, <2>7 DEF LoginLeft, Platforms
      <4>2. Len(jobs[j].todo) = 3 => LoginLeft(p) = 5
        BY <2>1, <2>7 DEF LoginLeft, Platforms
      <4>3. Len(jobs[j].todo) = 5 => Promises(j, p)'
        <5>1. 4 > 3
          OBVIOUS
        <5> QED BY <1>3, <1>7, <4>1, <5>1 DEF Promises
      <4>4. Len(jobs[j].todo) = 3 => ~Promises(j, p)
        <5>1. ~(3 > 5) /\ 3 # 5
          OBVIOUS
        <5> QED BY <4>2, <5>1 DEF Promises
      <4> QED BY <2>1, <4>3, <4>4
    <3>3. \A k \in Jobs : Promises(k, p) => Promises(k, p)'
      BY <1>3, <3>1, <3>2 DEF Promises
    <3> QED BY <1>1, <3>1, <3>3 DEF LatestInv, Latest
  <2>8. ASSUME NEW p \in Platforms, p = Arg(j, 1)
        PROVE  Latest(p)'
    <3>1. \A e \in Events : LoginOut(e, p)' <=> LoginOut(e, p) \/ e = event
      BY <1>5, <2>3, <2>8
    <3>2. CASE \A e \in Events : LoginOut(e, p) => e.sn < jobs[j].sn
      <4>1. LoginOut(event, p)' /\ event.status = status'[p]
        BY <1>1, <2>3, <2>4, <2>8, <3>1
      <4>2. \A d \in Events : LoginOut(d, p)' => d.sn <= event.sn
        <5>1. \A d \in Events : d.sn \in Nat
          BY DEF Events
        <5> QED BY <2>3, <2>5, <3>1, <3>2, <5>1
      <4> QED BY <2>4, <4>1, <4>2 DEF Latest
    <3>3. CASE \E e \in Events : LoginOut(e, p) /\ ~(e.sn < jobs[j].sn)
      <4>1. PICK first \in Events : LoginOut(first, p) /\ ~(first.sn < jobs[j].sn)
        BY <3>3
      <4>2. first.sn \in Nat /\ first.sn >= jobs[j].sn
        BY <2>5, <4>1 DEF Events
      <4>3. CASE \E k \in Jobs : Promises(k, p)
        <5>1. PICK k \in Jobs : Promises(k, p)
          BY <4>3
        <5>2. k # j
          <6>1. Len(jobs[j].todo) = LoginLeft(p)
            BY <2>3, <2>8
          <6>2. ~(Len(jobs[j].todo) > LoginLeft(p))
            BY <2>1, <6>1
          <6> QED BY <4>1, <5>1, <6>2 DEF Promises
        <5>3. jobs'[k] = jobs[k] /\ jobs[k] \in JobStates
          BY <1>2, <1>3, <5>2 DEF Typed
        <5>4. ASSUME \A e \in Events : LoginOut(e, p) => e.sn < jobs[k].sn
              PROVE  \A e \in Events : LoginOut(e, p)' => e.sn < jobs'[k].sn
          <6>1. jobs[k].sn \in Int
            BY <5>3 DEF JobStates
          <6>2. event.sn < jobs[k].sn
            BY <2>3, <2>5, <4>1, <4>2, <5>4, <6>1
          <6> QED BY <3>1, <5>3, <5>4, <6>2
        <5>5. Promises(k, p)'
          BY <5>1, <5>3, <5>4 DEF Promises
        <5> QED BY <5>5 DEF Latest
      <4>4. CASE \E e \in Events : /\ LoginOut(e, p) /\ e.status = status[p]
                                   /\ \A d \in Events : LoginOut(d, p) => d.sn <= e.sn
        <5>1. PICK e \in Events : /\ LoginOut(e, p) /\ e.status = status[p]
                                  /\ \A d \in Events : LoginOut(d, p) => d.sn <= e.sn
          BY <4>4
        <5>2. event.sn <= e.sn
          <6>1. e.sn \in Nat /\ first.sn <= e.sn
            BY <4>1, <5>1 DEF Events
          <6> QED BY <2>3, <2>5, <4>2, <6>1
        <5>3. LoginOut(e, p)' /\ e.status = status'[p]
              /\ \A d \in Events : LoginOut(d, p)' => d.sn <= e.sn
          BY <1>1, <3>1, <5>1, <5>2
        <5> QED BY <5>3 DEF Latest
      <4>5. Latest(p)
        BY DEF LatestInv
      <4> QED BY <4>1, <4>3, <4>4, <4>5 DEF Latest
    <3> QED BY <3>2, <3>3
  <2> QED BY <2>6, <2>7, <2>8 DEF LatestInv
<1> QED BY <1>6, <1>7

(* Sending takes an event from what is built to what is sent: it stays out.  *)
LEMMA SentLatest ==
  ASSUME LatestInv, ProcessorInv', NEW j \in Jobs, BroadcastEvent(j)
  PROVE  LatestInv'
<1>1. /\ jobs[j].todo # << >> /\ Does(j, "send") /\ status' = status
      /\ sent' = sent \cup {Head(jobs[j].built)}
      /\ jobs' = [jobs EXCEPT ![j] = [jobs[j] EXCEPT !.built = Tail(jobs[j].built),
                                                     !.todo = Tail(jobs[j].todo)]]
  BY DEF BroadcastEvent, Does, Proceeds
<1>2. jobs[j] \in JobStates /\ AtStage(j) /\ ProcessorInv /\ Typed
  BY DEF LatestInv, ProcessorInv, Typed
<1>3. /\ jobs'[j].slot = jobs[j].slot /\ jobs'[j].built = Tail(jobs[j].built)
      /\ jobs'[j].todo = Tail(jobs[j].todo)
      /\ \A k \in Jobs : k # j => jobs'[k] = jobs[k]
  BY <1>1, <1>2 DEF Typed, JobStates
<1>4. Len(jobs[j].built) \in Nat /\ Len(jobs[j].built) >= 1 /\ jobs[j].built \in Seq(Events)
  <2>1. /\ Sendable(jobs[j].todo, Len(jobs[j].built)) /\ jobs[j].todo \in Seq(Steps)
        /\ Len(jobs[j].built) \in Nat /\ jobs[j].built \in Seq(Events)
    BY <1>1, <1>2, NextStep
  <2>2. Head(jobs[j].todo) = jobs[j].todo[1] /\ 1 \in 1..Len(jobs[j].todo)
    BY <1>1, <2>1, TailSteps
  <2>3. IsSend(jobs[j].todo[1])
    BY <1>1, <2>2 DEF Does, IsSend
  <2> QED BY <2>1, <2>2, <2>3 DEF Sendable, EventBefore
<1>5. /\ Head(jobs[j].built) = jobs[j].built[1] /\ 1 \in 1..Len(jobs[j].built)
      /\ Len(jobs'[j].built) = Len(jobs[j].built) - 1
      /\ \A i \in 1..Len(jobs'[j].built) :
           jobs'[j].built[i] = jobs[j].built[i + 1] /\ i + 1 \in 1..Len(jobs[j].built)
  BY <1>3, <1>4
<1>6. ASSUME NEW e
      PROVE  (\E i \in 1..Len(jobs[j].built) : jobs[j].built[i] = e) <=>
               (\E i \in 1..Len(jobs'[j].built) : jobs'[j].built[i] = e)
                 \/ e = Head(jobs[j].built)
  <2>1. \A i \in 1..Len(jobs[j].built) : i = 1 \/ i - 1 \in 1..Len(jobs'[j].built)
    BY <1>4, <1>5
  <2>2. \A i \in 1..Len(jobs[j].built) :
          i # 1 => jobs'[j].built[i - 1] = jobs[j].built[i]
    <3>1. \A i \in 1..Len(jobs[j].built) : (i - 1) + 1 = i
      BY <1>4
    <3> QED BY <1>5, <2>1, <3>1
  <2> QED BY <1>5, <2>1, <2>2, ZenonT(60)
<1>7. ASSUME NEW e \in Events, NEW p \in Platforms
      PROVE  LoginOut(e, p)' <=> LoginOut(e, p)
  <2>1. (\E k \in Jobs : \E i \in 1..Len(jobs[k].built) : jobs[k].built[i] = e) <=>
          \/ \E k \in Jobs : \E i \in 1..Len(jobs'[k].built) : jobs'[k].built[i] = e
          \/ e = Head(jobs[j].built)
    <3>1. ASSUME NEW k \in Jobs, NEW i \in 1..Len(jobs[k].built), jobs[k].built[i] = e
          PROVE  \/ \E l \in Jobs : \E n \in 1..Len(jobs'[l].built) : jobs'[l].built[n] = e
                 \/ e = Head(jobs[j].built)
      <4>1. CASE k = j
        BY <1>6, <3>1, <4>1
      <4>2. CASE k # j
        BY <1>3, <3>1, <4>2
      <4> QED BY <4>1, <4>2
    <3>2. ASSUME NEW k \in Jobs, NEW i \in 1..Len(jobs'[k].built), jobs'[k].built[i] = e
          PROVE  \E l \in Jobs : \E n \in 1..Len(jobs[l].built) : jobs[l].built[n] = e
      <4>1. CASE k = j
        BY <1>6, <3>2, <4>1
      <4>2. CASE k # j
        BY <1>3, <3>2, <4>2
      <4> QED BY <4>1, <4>2
    <3>3. e = Head(jobs[j].built) => \E i \in 1..Len(jobs[j].built) : jobs[j].built[i] = e
      BY <1>5
    <3> QED BY <3>1, <3>2, <3>3
  <2> QED BY <1>1, <2>1 DEF LoginOut
<1>8. CASE jobs[j].slot \notin LoginSlots
  <2>1. \A i \in 1..Len(jobs'[j].built) : ~jobs'[j].built[i].login
    BY <1>2, <1>5, <1>8 DEF AtStage
  <2>2. AtStage(j)'
    BY <1>1, <1>2, <1>3, <1>8, <2>1, OthersGoOn DEF AtStage
  <2>3. \A p \in Platforms : ~Promises(j, p)
    BY <1>8 DEF Promises
  <2> QED BY <1>1, <1>3, <1>7, <2>2, <2>3, NothingNew
<1>9. CASE jobs[j].slot \in LoginSlots
  <2>1. /\ Len(jobs[j].todo) \in {1, 2} /\ Len(Tail(jobs[j].todo)) = Len(jobs[j].todo) - 1
        /\ \E s \in Stati : StageOf(Tail(jobs[j].todo), s)
        /\ Len(jobs[j].built) = BuiltAt(Len(jobs[j].todo))
    BY <1>1, <1>9, LoginStage
  <2>2. AtStage(j)'
    <3>1. Len(jobs[j].todo) = 2 => Len(jobs'[j].todo) = 1 /\ BuiltAt(1) = BuiltAt(2) - 1
      BY <1>3, <2>1 DEF BuiltAt
    <3>2. Len(jobs[j].todo) = 1 => Len(jobs'[j].todo) = 0 /\ BuiltAt(0) = BuiltAt(1) - 1
      BY <1>3, <2>1 DEF BuiltAt
    <3>3. Len(jobs'[j].built) = BuiltAt(Len(jobs'[j].todo))
      BY <1>5, <2>1, <3>1, <3>2
    <3> QED BY <1>3, <1>9, <2>1, <3>3 DEF AtStage, LoginSlots
  <2>3. ASSUME NEW p \in Platforms
        PROVE  ~Promises(j, p)
    <3>1. /\ ~(1 > 3) /\ ~(2 > 3) /\ ~(1 > 5) /\ ~(2 > 5)
          /\ 1 # 3 /\ 2 # 3 /\ 1 # 5 /\ 2 # 5
      OBVIOUS
    <3>2. LoginLeft(p) = 3 \/ LoginLeft(p) = 5
      BY DEF LoginLeft
    <3>3. Len(jobs[j].todo) = 1 \/ Len(jobs[j].todo) = 2
      BY <2>1
    <3> QED BY <3>1, <3>2, <3>3 DEF Promises
  <2> QED BY <1>1, <1>3, <1>7, <2>2, <2>3, NothingNew
<1> QED BY <1>8, <1>9

(* The other steps of a goroutine, which no login handler has.               *)
LEMMA OtherLatest ==
  ASSUME LatestInv, ProcessorInv', NEW j \in Jobs,
         MayFail(j) \/ SetsTable(j) \/ SavesMessage(j)
  PROVE  LatestInv'
<1>1. /\ jobs[j].todo # << >>
      /\ Does(j, "fail") \/ Does(j, "table") \/ Does(j, "save")
      /\ UNCHANGED <<status, sent>>
  BY DEF MayFail, SetsTable, SavesMessage, Does
<1>2. jobs[j].slot \notin LoginSlots
  BY <1>1, LoginStage
<1>3. PICK rest \in {Tail(jobs[j].todo), << >>} :
        jobs' = [jobs EXCEPT ![j] = [jobs[j] EXCEPT !.todo = rest]]
  BY DEF MayFail, SetsTable, SavesMessage, Proceeds
<1> QED BY <1>1, <1>2, <1>3, QuietLatest

LEMMA LatestStarts == ProcessorInit => LatestInv
<1> SUFFICES ASSUME ProcessorInit
             PROVE  LatestInv
  OBVIOUS
<1>1. jobs = [j \in Jobs |-> NoJob] /\ sent = {} /\ ProcessorInv
  BY ProcessorStarts DEF ProcessorInit
<1>2. NoJob.slot = "none" /\ NoJob.todo = << >> /\ NoJob.built = << >>
  BY DEF NoJob
<1>3. \A j \in Jobs : AtStage(j)
  BY <1>1, <1>2 DEF AtStage, LoginSlots
<1>4. \A e, p : ~LoginOut(e, p)
  BY <1>1, <1>2 DEF LoginOut
<1> QED BY <1>1, <1>3, <1>4 DEF LatestInv, Latest

LEMMA LatestStep ==
  ASSUME LatestInv, [ProcessorNext]_processorVars
  PROVE  LatestInv'
<1>1. ProcessorInv'
  BY ProcessorStep DEF LatestInv
<1>2. ASSUME NEW j \in Jobs, NEW slot \in Slots, StartJob(j, slot)
      PROVE  LatestInv'
  BY <1>1, <1>2, StartLatest
<1>3. ASSUME NEW j \in Jobs, JobStep(j)
      PROVE  LatestInv'
  BY <1>1, <1>3, NumberLatest, StatusLatest, BuiltLatest, SentLatest, OtherLatest DEF JobStep
<1>4. CASE UNCHANGED processorVars
  <2>1. UNCHANGED <<jobs, status, sent>>
    BY <1>4 DEF processorVars
  <2>2. \A e, p : LoginOut(e, p)' <=> LoginOut(e, p)
    BY <2>1 DEF LoginOut
  <2>3. \A j : AtStage(j)' <=> AtStage(j)
    BY <2>1 DEF AtStage
  <2>4. \A j, p : Promises(j, p)' <=> Promises(j, p)
    BY <2>1, <2>2 DEF Promises
  <2> QED BY <1>1, <2>1, <2>2, <2>3, <2>4 DEF LatestInv, Latest
<1> QED BY <1>2, <1>3, <1>4 DEF ProcessorNext

(* With no READY or error left to handle, the latest login.updated of a      *)
(* platform tells its status: any handler that sets the status after it was  *)
(* read has yet to take a number.                                            *)
THEOREM LatestLoginTellsStatusCorrect == ProcessorSpec => []LatestLoginTellsStatus
<1>1. LatestInv => LatestLoginTellsStatus
  <2> SUFFICES ASSUME LatestInv,
                      \A j \in Jobs : jobs[j].slot \in LoginSlots => jobs[j].todo = << >>,
                      NEW p \in Platforms, NEW first \in sent, first.login, first.platform = p
               PROVE  \E e \in sent :
                        /\ e.login /\ e.platform = p /\ e.status = status[p]
                        /\ \A d \in sent : d.login /\ d.platform = p => d.sn <= e.sn
    BY DEF LatestLoginTellsStatus, LoginSlots
  <2>1. \A e \in sent : e.login /\ e.platform = p => e \in Events /\ LoginOut(e, p)
    BY DEF LatestInv, ProcessorInv, Typed, LoginOut
  <2>2. \A j \in Jobs : ~Promises(j, p)
    <3>1. LoginLeft(p) = 3 \/ LoginLeft(p) = 5
      BY DEF LoginLeft
    <3>2. \A j \in Jobs : jobs[j].slot \in LoginSlots => Len(jobs[j].todo) = 0
      OBVIOUS
    <3>3. ~(0 > 3) /\ ~(0 > 5) /\ 0 # 3 /\ 0 # 5
      OBVIOUS
    <3> QED BY <3>1, <3>2, <3>3 DEF Promises
  <2>3. PICK e \in Events : /\ LoginOut(e, p) /\ e.status = status[p]
                            /\ \A d \in Events : LoginOut(d, p) => d.sn <= e.sn
    BY <2>1, <2>2 DEF LatestInv, Latest
  <2>4. e \in sent
    <3>1. ASSUME NEW k \in Jobs, NEW i \in 1..Len(jobs[k].built), jobs[k].built[i] = e
          PROVE  FALSE
      <4>1. AtStage(k)
        BY DEF LatestInv
      <4>2. jobs[k].slot \in LoginSlots
        BY <2>3, <3>1, <4>1 DEF AtStage, LoginOut
      <4>3. jobs[k].todo = << >> /\ Len(jobs[k].todo) = 0
        BY <4>2
      <4>4. BuiltAt(0) = 0
        BY DEF BuiltAt
      <4>5. Len(jobs[k].built) = 0
        BY <4>1, <4>2, <4>3, <4>4 DEF AtStage
      <4> QED BY <3>1, <4>5
    <3> QED BY <2>3, <3>1 DEF LoginOut
  <2> QED BY <2>1, <2>3, <2>4 DEF LoginOut
<1> QED BY <1>1, LatestStarts, LatestStep, PTL DEF ProcessorSpec
=============================================================================
