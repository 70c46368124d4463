---------------------------- MODULE MessageStore ----------------------------
(***************************************************************************)
(* The message store (database/message.go) and the client that pages       *)
(* through a channel with message.list.  A key of the LevelDB is a channel  *)
(* (its type and ID) and a message ID, ordered by bytes: channels and IDs   *)
(* are numbers in that order.  Messages keep arriving between two pages.    *)
(* A page gets a token to go on only when it is not full, so that a walk    *)
(* goes on where it found less than it asked for (see Token).               *)
(***************************************************************************)
EXTENDS Integers, Sequences, FiniteSets, SequencesExt

CONSTANTS
  Channels,    \* channels, in the order of their keys
  Ids,         \* message IDs, in the order of their bytes
  Longer,      \* pairs <<c, d>>: the ID of channel d begins with that of c;
               \* the colon behind an ID sorts behind the digits, so that the
               \* keys of 12 come after those of 123
  Limits,      \* page sizes clients ask for
  MaxSeen      \* bound: a walk that was returned so many messages ends

ASSUME StoreAssumption ==
  /\ Channels \subseteq Nat \ {0} /\ Ids \subseteq Nat \ {0}
  /\ Longer \subseteq {p \in Channels \X Channels : p[1] # p[2]}
  /\ Limits \subseteq Nat \ {0} /\ MaxSeen \in Nat

VARIABLES
  stored,      \* the keys in the database
  walk,        \* what the client pages through, and the tokens it was given
  seen,        \* history: the messages returned to it
  asOf         \* history: what was stored when it began

storeVars == <<stored, walk, seen, asOf>>

NoToken == 0
NoChannel == 0
Directions == {"before", "after", "around"}
MessageKeys == Channels \X Ids

StoreTypeOK ==
  /\ stored \in SUBSET MessageKeys /\ asOf \in SUBSET MessageKeys
  /\ seen \in Seq(MessageKeys)
  /\ walk \in [channel : Channels \cup {NoChannel}, anchor : MessageKeys \cup {<< >>},
               limit : Limits \cup {NoToken},
               prev : Ids \cup {NoToken}, next : Ids \cup {NoToken}]

StoreInit ==
  /\ stored = {} /\ seen = << >> /\ asOf = {}
  /\ walk = [channel |-> NoChannel, anchor |-> << >>,
             limit |-> NoToken, prev |-> NoToken, next |-> NoToken]

Below(k, l) == k[1] < l[1] \/ (k[1] = l[1] /\ k[2] < l[2])
-----------------------------------------------------------------------------
(* The prefix has no separator behind the ID: the iterator also walks the    *)
(* messages of channels whose ID is longer.                                  *)
InRange(c) == {k \in stored : k[1] = c \/ <<c, k[1]>> \in Longer}

Ordered(keys) ==
  [i \in 1..Cardinality(keys) |->
     CHOOSE k \in keys : Cardinality({l \in keys : Below(l, k)}) = i - 1]

(* Where iter.Seek(key) leaves the iterator: on the first key that is not    *)
(* below, or behind the last.                                                *)
SeekPast(K, key) == 1 + Cardinality({i \in DOMAIN K : K[i] = key \/ Below(K[i], key)})

Seek(K, key) == 1 + Cardinality({i \in DOMAIN K : Below(K[i], key)})

(* The loops over iter.Prev and iter.Next: the key the iterator stands on    *)
(* is not part of either.                                                    *)
BackFrom(K, p, limit) ==
  [i \in 1..(IF p - 1 < limit THEN p - 1 ELSE limit) |-> K[p - i]]

SkippingOne(K, p, limit) ==
  [i \in 1..(IF Len(K) - p - 1 < limit THEN Len(K) - p - 1 ELSE limit) |-> K[p + i + 1]]

OnFrom(K, p, limit) ==
  [i \in 1..(IF Len(K) - p < limit THEN Len(K) - p ELSE limit) |-> K[p + i]]

(* GetMessageList: without next, Last and then back.                         *)
GetMessageList(c, next, direction, limit) ==
  LET K == Ordered(InRange(c))
      p == IF next = NoToken THEN Len(K) ELSE Seek(K, <<c, next>>)
  IN  [prevs |-> IF direction \in {"before", "around"} THEN BackFrom(K, p, limit) ELSE << >>,
       nexts |-> IF direction \in {"after", "around"} THEN OnFrom(K, p, limit) ELSE << >>]

(* message.list hands out the ID of the last message of a page as a token,   *)
(* when the page is not full.                                                *)
Token(page, limit) ==
  IF page # << >> /\ Len(page) < limit THEN page[Len(page)][2] ELSE NoToken

MessageListPage(c, next, direction, limit) ==
  LET page == GetMessageList(c, next, direction, limit)
      prev == Token(page.prevs, limit)
      succ == Token(page.nexts, limit)
  IN  [data |-> page.prevs \o page.nexts,
       prev |-> IF direction = "after" THEN succ ELSE prev,
       next |-> IF direction = "before" THEN prev ELSE succ]
-----------------------------------------------------------------------------
(* SaveMessage: an event handler stores a message of its channel.            *)
SaveMessage(k) ==
  /\ k \notin stored
  /\ stored' = stored \cup {k}
  /\ UNCHANGED <<walk, seen, asOf>>

Newest(c) == IF InRange(c) = {} THEN << >> ELSE Ordered(InRange(c))[Cardinality(InRange(c))]

(* The client's first page: next is required unless the direction is before. *)
FirstPage(c, next, direction, limit) ==
  /\ next = NoToken => direction = "before"
  /\ LET page == MessageListPage(c, next, direction, limit)
     IN  /\ walk' = [channel |-> c, limit |-> limit,
                     anchor |-> IF next = NoToken THEN Newest(c) ELSE <<c, next>>,
                     prev |-> IF direction = "after" THEN NoToken ELSE page.prev,
                     next |-> IF direction = "before" THEN NoToken ELSE page.next]
         /\ seen' = page.data
  /\ asOf' = stored
  /\ UNCHANGED stored

(* It goes on where a token points.                                          *)
OlderPage ==
  /\ walk.prev # NoToken /\ Len(seen) < MaxSeen
  /\ LET page == MessageListPage(walk.channel, walk.prev, "before", walk.limit)
     IN  /\ walk' = [walk EXCEPT !.prev = page.prev]
         /\ seen' = seen \o page.data
  /\ UNCHANGED <<stored, asOf>>

NewerPage ==
  /\ walk.next # NoToken /\ Len(seen) < MaxSeen
  /\ LET page == MessageListPage(walk.channel, walk.next, "after", walk.limit)
     IN  /\ walk' = [walk EXCEPT !.next = page.next]
         /\ seen' = seen \o page.data
  /\ UNCHANGED <<stored, asOf>>

StoreNext ==
  \/ \E k \in MessageKeys : SaveMessage(k)
  \/ \E c \in Channels, next \in Ids \cup {NoToken}, d \in Directions, limit \in Limits :
       walk.limit = NoToken /\ FirstPage(c, next, d, limit)
  \/ OlderPage \/ NewerPage

StoreSpec == StoreInit /\ [][StoreNext]_storeVars
-----------------------------------------------------------------------------
Alone(c) == \A d \in Channels : <<c, d>> \notin Longer

(* Following the tokens of message.list never returns a message twice,      *)
(* whatever is stored between two pages, in a channel whose ID no other ID  *)
(* continues.                                                               *)
WalkRepeatsNothing == Alone(walk.channel) => IsInjective(seen)

(* Nor does it leave out a message that was there when the walk began and   *)
(* lies between two it returned, or between one and the message it began    *)
(* at: pages meet without a gap although the iterator never returns the key *)
(* it stands on.                                                            *)
WalkLeavesNoGap ==
  walk.anchor \in asOf /\ Alone(walk.channel) =>
    \A k \in asOf, a, b \in ToSet(seen) \cup {walk.anchor} :
      Below(a, k) /\ Below(k, b) => k \in ToSet(seen) \/ k = walk.anchor

=============================================================================
