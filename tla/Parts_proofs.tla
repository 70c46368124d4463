---------------------------- MODULE Parts_proofs ----------------------------
(***************************************************************************)
(* What holds of the components that stand alone, for any files, handles,  *)
(* saves, lifetimes and crashes; any callers of ForceUpToken; any requests,*)
(* callbacks and places in the queue; and of the three side by side, as    *)
(* MCParts runs them.                                                      *)
(***************************************************************************)
EXTENDS MCParts, TLAPS

(***************************************************************************)
(* The file store.  No file is left behind without a name for why, and     *)
(* whatever expires has its timer.                                         *)
(***************************************************************************)
SaveStates == [pc : {"idle", "written", "put", "done"}, key : Keys \cup {NoSave.key},
               expiry : Expiries]

FilesShape ==
  /\ disk \subseteq Idents
  /\ metas \in [Keys -> Expiries]
  /\ tasks \subseteq Tasks
  /\ saves \in [Saves -> SaveStates]
  /\ \A s \in Saves : saves[s].pc # "idle" => saves[s].key \in Keys
  /\ now \in Nat
  /\ fsPhase = "up" => todo = {}

(* What has a timer, in time, that has not begun to delete; and what is      *)
(* about to get one from the save that set the expiry in force.              *)
Timed(k) == \E t \in tasks : t.key = k /\ t.at <= metas[k] /\ t.pc \in {"timer", "inline"}
Pending(k) == \E s \in Saves : saves[s].pc = "put" /\ saves[s].key = k /\ saves[s].expiry = metas[k]

Scheduled ==
  fsPhase # "down" /\ fsEnable =>
    \A k \in Keys : metas[k] \in Nat /\ k \notin failed => k \in todo \/ Timed(k) \/ Pending(k)

FilesInv == FilesShape /\ FilesHaveOwners /\ Scheduled
-----------------------------------------------------------------------------
LEMMA KeysKnown == Idents \subseteq Keys /\ InfoIdents \subseteq Keys
  BY DEF Keys

LEMMA ExpiryKnown ==
  ASSUME now \in Nat, NEW ttl \in TTLs
  PROVE  Expiry(ttl) \in Expiries /\ Expiry(ttl) # Nothing
  BY FilesAssumption DEF Expiry, Expiries, Nothing, Never

(* What Cleaner arms: a timer, or a deletion at once, for what expires.      *)
LEMMA CleanerArms ==
  ASSUME now \in Nat, NEW k \in Keys, NEW at \in Expiries, NEW s \in Saves \cup {0}
  PROVE  /\ Cleaner(k, at, s) \subseteq Tasks
         /\ at \in Nat => \E t \in Cleaner(k, at, s) :
                            t.key = k /\ t.at = at /\ t.pc \in {"timer", "inline"}
<1> DEFINE task == [key |-> k, at |-> at, by |-> s, pc |-> IF at <= now THEN "inline" ELSE "timer"]
<1>1. CASE at \in {Nothing, Never}
  BY <1>1 DEF Cleaner, Nothing, Never
<1>2. CASE at \notin {Nothing, Never}
  <2>1. at \in Nat
    BY <1>2 DEF Expiries
  <2>2. Cleaner(k, at, s) = {task}
    BY <1>2 DEF Cleaner
  <2>3. task \in Tasks /\ task.key = k /\ task.at = at /\ task.pc \in {"timer", "inline"}
    BY <2>1 DEF Tasks
  <2> QED BY <2>2, <2>3
<1> QED BY <1>1, <1>2

(* The state of a save that goes on.                                         *)
LEMMA SaveStepKeeps ==
  ASSUME FilesShape, NEW s \in Saves, NEW state \in SaveStates, SaveStep(s, state),
         state.key \in Keys
  PROVE  /\ saves' \in [Saves -> SaveStates] /\ saves'[s] = state
         /\ \A q \in Saves : q # s => saves'[q] = saves[q]
         /\ \A q \in Saves : saves'[q].pc # "idle" => saves'[q].key \in Keys
  BY DEF FilesShape, SaveStep

LEMMA FilesInitInv == FilesInit => FilesInv
<1> SUFFICES ASSUME FilesInit PROVE FilesInv
  OBVIOUS
<1>1. NoSave \in SaveStates /\ NoSave.pc = "idle"
  BY DEF NoSave, SaveStates, Expiries, Never
<1>2. FilesShape
  BY <1>1 DEF FilesInit, FilesShape, Expiries, Nothing
<1>3. FilesHaveOwners /\ Scheduled
  BY DEF FilesInit, FilesHaveOwners, Scheduled
<1> QED BY <1>2, <1>3 DEF FilesInv
-----------------------------------------------------------------------------
LEMMA StartInv ==
  ASSUME FilesInv, NEW enable \in BOOLEAN, NEW unread, StartFileServer(enable, unread)
  PROVE  FilesInv'
<1>1. /\ fsPhase' = "cleaning" /\ fsEnable' = enable
      /\ todo' = IF enable THEN {k \in Keys \ unread : metas[k] # Nothing} ELSE {}
      /\ failed' = IF enable THEN failed \cup unread ELSE failed
      /\ UNCHANGED <<disk, metas, tasks, saves, now, cutOff>>
  BY DEF StartFileServer
<1>2. FilesShape'
  BY <1>1 DEF FilesInv, FilesShape
<1>3. FilesHaveOwners'
  BY <1>1 DEF FilesInv, FilesHaveOwners
<1>4. Scheduled'
  <2> SUFFICES ASSUME enable, NEW k \in Keys, metas[k] \in Nat, k \notin failed'
               PROVE  k \in todo'
    BY <1>1 DEF Scheduled
  <2> QED BY <1>1 DEF Nothing
<1> QED BY <1>2, <1>3, <1>4 DEF FilesInv

LEMMA CleanUpInv ==
  ASSUME FilesInv, NEW k \in Keys, CleanUp(k)
  PROVE  FilesInv'
<1>1. /\ fsPhase = "cleaning" /\ todo' = todo \ {k}
      /\ tasks' = tasks \cup Cleaner(k, metas[k], 0)
      /\ UNCHANGED <<fsPhase, fsEnable, disk, metas, saves, now, cutOff, failed>>
  BY DEF CleanUp
<1>2. /\ Cleaner(k, metas[k], 0) \subseteq Tasks
      /\ metas[k] \in Nat => \E t \in Cleaner(k, metas[k], 0) :
                               t.key = k /\ t.at = metas[k] /\ t.pc \in {"timer", "inline"}
  BY CleanerArms DEF FilesInv, FilesShape
<1>3. FilesShape'
  BY <1>1, <1>2 DEF FilesInv, FilesShape
<1>4. FilesHaveOwners'
  BY <1>1 DEF FilesInv, FilesHaveOwners
<1>5. Scheduled'
  <2> SUFFICES ASSUME fsEnable, NEW l \in Keys, metas[l] \in Nat, l \notin failed
               PROVE  l \in todo' \/ Timed(l)' \/ Pending(l)'
    BY <1>1 DEF Scheduled
  <2>1. l \in todo \/ Timed(l) \/ Pending(l)
    BY <1>1 DEF FilesInv, Scheduled
  <2>2. Timed(l) => Timed(l)'
    BY <1>1 DEF Timed
  <2>3. Pending(l) => Pending(l)'
    BY <1>1 DEF Pending
  <2>4. l = k => Timed(l)'
    BY <1>1, <1>2 DEF Timed
  <2> QED BY <1>1, <2>1, <2>2, <2>3, <2>4
<1> QED BY <1>3, <1>4, <1>5 DEF FilesInv

(* The end of the start, and time: no task, save or metadata changes, and    *)
(* the store is not enabled by it.                                           *)
LEMMA StillInv ==
  ASSUME FilesInv, UNCHANGED <<disk, metas, tasks, saves, cutOff, failed, todo>>,
         now' \in Nat,
         fsPhase' # "down" => fsPhase # "down",
         fsPhase' = "up" => todo = {},
         fsEnable' => fsEnable
  PROVE  FilesInv'
<1>1. FilesShape'
  BY DEF FilesInv, FilesShape
<1>2. FilesHaveOwners'
  BY DEF FilesInv, FilesHaveOwners
<1>3. Scheduled'
  BY DEF FilesInv, Scheduled, Timed, Pending
<1> QED BY <1>1, <1>2, <1>3 DEF FilesInv
-----------------------------------------------------------------------------
(* Saving: the save that goes on is the only one that changes.              *)
LEMMA WriteFileInv ==
  ASSUME FilesInv, NEW s \in Saves, NEW i \in Idents, WriteFile(s, i)
  PROVE  FilesInv'
<1> DEFINE state(p) == [saves[s] EXCEPT !.pc = p, !.key = i]
<1>1. /\ saves[s].pc = "idle" /\ fsPhase = "up"
      /\ UNCHANGED <<fsPhase, fsEnable, metas, tasks, todo, now, cutOff>>
  BY DEF WriteFile
<1>2. PICK p \in {"written", "done"} :
        /\ SaveStep(s, state(p))
        /\ disk \subseteq disk' /\ disk' \subseteq disk \cup {i}
        /\ failed \subseteq failed'
        /\ p = "done" => i \in failed'
  BY DEF WriteFile
<1>3. saves[s] \in SaveStates /\ i \in Keys
  BY KeysKnown DEF FilesInv, FilesShape
<1>4. state(p) \in SaveStates /\ state(p).pc = p /\ state(p).key = i
  BY <1>3 DEF SaveStates
<1>5. /\ saves' \in [Saves -> SaveStates] /\ saves'[s].pc = p /\ saves'[s].key = i
      /\ \A q \in Saves : q # s => saves'[q] = saves[q]
      /\ \A q \in Saves : saves'[q].pc # "idle" => saves'[q].key \in Keys
  <2>1. FilesShape
    BY DEF FilesInv
  <2> HIDE DEF state
  <2> QED BY <1>2, <1>3, <1>4, <2>1, SaveStepKeeps
<1>6. FilesShape'
  BY <1>1, <1>2, <1>5 DEF FilesInv, FilesShape
<1>7. FilesHaveOwners'
  <2> SUFFICES ASSUME NEW j \in disk'
               PROVE  \/ metas'[j] # Nothing
                      \/ \E q \in Saves : saves'[q].key = j /\ saves'[q].pc = "written"
                      \/ \E t \in tasks' : t.key = j /\ t.pc \in {"remove", "inlineRemove"}
                      \/ j \in cutOff' \cup failed'
    BY DEF FilesHaveOwners
  <2>1. CASE j = i
    BY <2>1, <1>2, <1>5
  <2>2. CASE j # i
    <3>1. j \in disk
      BY <2>2, <1>2
    <3>2. CASE \E q \in Saves : saves[q].key = j /\ saves[q].pc = "written"
      <4>1. PICK q \in Saves : saves[q].key = j /\ saves[q].pc = "written"
        BY <3>2
      <4>2. q # s
        BY <4>1, <1>1
      <4> QED BY <4>1, <4>2, <1>5
    <3> QED BY <3>1, <3>2, <1>1, <1>2 DEF FilesInv, FilesHaveOwners
  <2> QED BY <2>1, <2>2
<1>8. Scheduled'
  <2> SUFFICES ASSUME fsEnable, NEW l \in Keys, metas[l] \in Nat, l \notin failed'
               PROVE  l \in todo \/ Timed(l)' \/ Pending(l)'
    BY <1>1 DEF Scheduled
  <2>1. l \in todo \/ Timed(l) \/ Pending(l)
    BY <1>1, <1>2 DEF FilesInv, Scheduled
  <2>2. Timed(l) => Timed(l)'
    BY <1>1 DEF Timed
  <2>3. Pending(l) => Pending(l)'
    BY <1>1, <1>5 DEF Pending
  <2> QED BY <2>1, <2>2, <2>3
<1> QED BY <1>6, <1>7, <1>8 DEF FilesInv

LEMMA PutMetaInv ==
  ASSUME FilesInv, NEW s \in Saves, NEW ttl \in TTLs, PutMeta(s, ttl)
  PROVE  FilesInv'
<1> DEFINE k == saves[s].key
           state == [saves[s] EXCEPT !.pc = "put", !.expiry = Expiry(ttl)]
<1>1. /\ saves[s].pc = "written"
      /\ SaveStep(s, state)
      /\ UNCHANGED <<fsPhase, fsEnable, disk, tasks, todo, now, cutOff>>
      /\ \/ metas' = [metas EXCEPT ![k] = Expiry(ttl)] /\ UNCHANGED failed
         \/ failed' = failed \cup {k} /\ UNCHANGED metas
  BY DEF PutMeta
<1>2. saves[s] \in SaveStates /\ k \in Keys
  BY <1>1 DEF FilesInv, FilesShape
<1>3. Expiry(ttl) \in Expiries /\ Expiry(ttl) # Nothing
  BY ExpiryKnown DEF FilesInv, FilesShape
<1>4. state \in SaveStates /\ state.pc = "put" /\ state.key = k /\ state.expiry = Expiry(ttl)
  BY <1>2, <1>3 DEF SaveStates
<1>5. /\ saves' \in [Saves -> SaveStates]
      /\ saves'[s].pc = "put" /\ saves'[s].key = k /\ saves'[s].expiry = Expiry(ttl)
      /\ \A q \in Saves : q # s => saves'[q] = saves[q]
      /\ \A q \in Saves : saves'[q].pc # "idle" => saves'[q].key \in Keys
  <2>1. FilesShape
    BY DEF FilesInv
  <2> HIDE DEF state, k
  <2> QED BY <1>1, <1>2, <1>4, <2>1, SaveStepKeeps
<1> HIDE DEF state, k
<1>6. /\ metas' \in [Keys -> Expiries] /\ failed \subseteq failed'
      /\ \A l \in Keys : l # k => metas'[l] = metas[l]
      /\ k \in failed' \/ metas'[k] = Expiry(ttl)
      /\ metas'[k] = metas[k] \/ metas'[k] = Expiry(ttl)
  BY <1>1, <1>2, <1>3 DEF FilesInv, FilesShape
<1>7. FilesShape'
  BY <1>1, <1>5, <1>6 DEF FilesInv, FilesShape
<1>8. FilesHaveOwners'
  <2> SUFFICES ASSUME NEW j \in disk'
               PROVE  \/ metas'[j] # Nothing
                      \/ \E q \in Saves : saves'[q].key = j /\ saves'[q].pc = "written"
                      \/ \E t \in tasks' : t.key = j /\ t.pc \in {"remove", "inlineRemove"}
                      \/ j \in cutOff' \cup failed'
    BY DEF FilesHaveOwners
  <2>1. CASE j = k
    BY <2>1, <1>3, <1>6
  <2>2. CASE j # k
    <3>1. j \in disk /\ j \in Keys
      BY <1>1, KeysKnown DEF FilesInv, FilesShape
    <3>2. CASE \E q \in Saves : saves[q].key = j /\ saves[q].pc = "written"
      <4>1. PICK q \in Saves : saves[q].key = j /\ saves[q].pc = "written"
        BY <3>2
      <4>2. q # s
        BY <4>1, <2>2 DEF k
      <4> QED BY <4>1, <4>2, <1>5
    <3> QED BY <3>1, <3>2, <2>2, <1>1, <1>6 DEF FilesInv, FilesHaveOwners
  <2> QED BY <2>1, <2>2
<1>9. Scheduled'
  <2> SUFFICES ASSUME fsPhase # "down", fsEnable, NEW l \in Keys, metas'[l] \in Nat, l \notin failed'
               PROVE  l \in todo \/ Timed(l)' \/ Pending(l)'
    BY <1>1 DEF Scheduled
  <2>1. CASE l = k
    BY <2>1, <1>5, <1>6 DEF Pending
  <2>2. CASE l # k
    <3>1. l \in todo \/ Timed(l) \/ Pending(l)
      BY <2>2, <1>6 DEF FilesInv, Scheduled
    <3>2. Timed(l) => Timed(l)'
      BY <2>2, <1>1, <1>6 DEF Timed
    <3>3. Pending(l) => Pending(l)'
      BY <2>2, <1>1, <1>5, <1>6 DEF Pending
    <3> QED BY <3>1, <3>2, <3>3
  <2> QED BY <2>1, <2>2
<1> QED BY <1>7, <1>8, <1>9 DEF FilesInv

LEMMA PutInfoInv ==
  ASSUME FilesInv, NEW s \in Saves, NEW k \in InfoIdents, NEW ttl \in TTLs, PutInfo(s, k, ttl)
  PROVE  FilesInv'
<1>1. /\ saves[s].pc = "idle" /\ fsPhase = "up"
      /\ UNCHANGED <<fsPhase, fsEnable, disk, tasks, todo, now, cutOff, failed>>
  BY DEF PutInfo
<1>2. Expiry(ttl) \in Expiries /\ Expiry(ttl) # Nothing /\ k \in Keys /\ k \notin disk
  BY ExpiryKnown, KeysKnown, FilesAssumption DEF FilesInv, FilesShape
<1>3. PICK state \in SaveStates :
        /\ SaveStep(s, state) /\ state.key = k
        /\ \/ state.pc = "done" /\ UNCHANGED metas
           \/ /\ state.pc = "put" /\ state.expiry = Expiry(ttl)
              /\ metas' = [metas EXCEPT ![k] = Expiry(ttl)]
  <2>1. CASE /\ metas' = [metas EXCEPT ![k] = Expiry(ttl)]
             /\ SaveStep(s, [pc |-> "put", key |-> k, expiry |-> Expiry(ttl)])
    <3>1. [pc |-> "put", key |-> k, expiry |-> Expiry(ttl)] \in SaveStates
      BY <1>2 DEF SaveStates
    <3> QED BY <2>1, <3>1
  <2>2. CASE SaveStep(s, [pc |-> "done", key |-> k, expiry |-> Never]) /\ UNCHANGED metas
    <3>1. [pc |-> "done", key |-> k, expiry |-> Never] \in SaveStates
      BY <1>2 DEF SaveStates, Expiries
    <3> QED BY <2>2, <3>1
  <2> QED BY <2>1, <2>2 DEF PutInfo
<1>4. /\ saves' \in [Saves -> SaveStates] /\ saves'[s] = state
      /\ \A q \in Saves : q # s => saves'[q] = saves[q]
      /\ \A q \in Saves : saves'[q].pc # "idle" => saves'[q].key \in Keys
  <2>1. FilesShape
    BY DEF FilesInv
  <2> QED BY <1>2, <1>3, <2>1, SaveStepKeeps
<1>5. /\ metas' \in [Keys -> Expiries]
      /\ \A l \in Keys : l # k => metas'[l] = metas[l]
      /\ \/ UNCHANGED metas
         \/ metas'[k] = Expiry(ttl) /\ saves'[s].pc = "put" /\ saves'[s].expiry = Expiry(ttl)
  BY <1>2, <1>3, <1>4 DEF FilesInv, FilesShape
<1>6. FilesShape'
  BY <1>1, <1>4, <1>5 DEF FilesInv, FilesShape
<1>7. FilesHaveOwners'
  <2> SUFFICES ASSUME NEW j \in disk
               PROVE  \/ metas'[j] # Nothing
                      \/ \E q \in Saves : saves'[q].key = j /\ saves'[q].pc = "written"
                      \/ \E t \in tasks : t.key = j /\ t.pc \in {"remove", "inlineRemove"}
                      \/ j \in cutOff \cup failed
    BY <1>1 DEF FilesHaveOwners
  <2>1. j \in Keys /\ j # k
    BY <1>2, KeysKnown DEF FilesInv, FilesShape
  <2>2. CASE \E q \in Saves : saves[q].key = j /\ saves[q].pc = "written"
    <3>1. PICK q \in Saves : saves[q].key = j /\ saves[q].pc = "written"
      BY <2>2
    <3>2. q # s
      BY <3>1, <1>1
    <3> QED BY <3>1, <3>2, <1>4
  <2> QED BY <2>1, <2>2, <1>5 DEF FilesInv, FilesHaveOwners
<1>8. Scheduled'
  <2> SUFFICES ASSUME fsEnable, NEW l \in Keys, metas'[l] \in Nat, l \notin failed
               PROVE  l \in todo \/ Timed(l)' \/ Pending(l)'
    BY <1>1 DEF Scheduled
  <2>1. CASE metas'[l] = metas[l]
    <3>1. l \in todo \/ Timed(l) \/ Pending(l)
      BY <2>1, <1>1 DEF FilesInv, Scheduled
    <3>2. Timed(l) => Timed(l)'
      BY <2>1, <1>1 DEF Timed
    <3>3. Pending(l) => Pending(l)'
      BY <2>1, <1>1, <1>4 DEF Pending
    <3> QED BY <3>1, <3>2, <3>3
  <2>2. CASE metas'[l] # metas[l]
    BY <2>2, <1>3, <1>4, <1>5 DEF Pending
  <2> QED BY <2>1, <2>2
<1> QED BY <1>6, <1>7, <1>8 DEF FilesInv

LEMMA ArmTimerInv ==
  ASSUME FilesInv, NEW s \in Saves, ArmTimer(s)
  PROVE  FilesInv'
<1> DEFINE k == saves[s].key
           at == saves[s].expiry
           state == [saves[s] EXCEPT !.pc = "done"]
<1>1. /\ saves[s].pc = "put"
      /\ tasks' = tasks \cup Cleaner(k, at, s)
      /\ SaveStep(s, state)
      /\ UNCHANGED <<fsPhase, fsEnable, disk, metas, todo, now, cutOff, failed>>
  BY DEF ArmTimer
<1>2. saves[s] \in SaveStates /\ k \in Keys /\ now \in Nat
  BY <1>1 DEF FilesInv, FilesShape
<1>3. at \in Expiries /\ state \in SaveStates /\ state.pc = "done" /\ state.key = k
  BY <1>2 DEF SaveStates
<1>4. /\ saves' \in [Saves -> SaveStates] /\ saves'[s] = state
      /\ \A q \in Saves : q # s => saves'[q] = saves[q]
      /\ \A q \in Saves : saves'[q].pc # "idle" => saves'[q].key \in Keys
  <2>1. FilesShape
    BY DEF FilesInv
  <2> HIDE DEF state, k
  <2> QED BY <1>1, <1>2, <1>3, <2>1, SaveStepKeeps
<1>5. /\ Cleaner(k, at, s) \subseteq Tasks
      /\ at \in Nat => \E t \in Cleaner(k, at, s) :
                         t.key = k /\ t.at = at /\ t.pc \in {"timer", "inline"}
  <2> HIDE DEF k, at
  <2> QED BY <1>2, <1>3, CleanerArms
<1>6. FilesShape'
  BY <1>1, <1>4, <1>5 DEF FilesInv, FilesShape
<1>7. FilesHaveOwners'
  <2> SUFFICES ASSUME NEW j \in disk
               PROVE  \/ metas[j] # Nothing
                      \/ \E q \in Saves : saves'[q].key = j /\ saves'[q].pc = "written"
                      \/ \E t \in tasks' : t.key = j /\ t.pc \in {"remove", "inlineRemove"}
                      \/ j \in cutOff \cup failed
    BY <1>1 DEF FilesHaveOwners
  <2>1. CASE \E q \in Saves : saves[q].key = j /\ saves[q].pc = "written"
    <3>1. PICK q \in Saves : saves[q].key = j /\ saves[q].pc = "written"
      BY <2>1
    <3>2. q # s
      BY <3>1, <1>1
    <3> QED BY <3>1, <3>2, <1>4
  <2> QED BY <2>1, <1>1 DEF FilesInv, FilesHaveOwners
<1>8. Scheduled'
  <2> SUFFICES ASSUME fsPhase # "down", fsEnable, NEW l \in Keys, metas[l] \in Nat, l \notin failed
               PROVE  l \in todo \/ Timed(l)' \/ Pending(l)'
    BY <1>1 DEF Scheduled
  <2>1. l \in todo \/ Timed(l) \/ Pending(l)
    BY DEF FilesInv, Scheduled
  <2>2. Timed(l) => Timed(l)'
    BY <1>1 DEF Timed
  <2>3. CASE Pending(l)
    <3>1. PICK q \in Saves : saves[q].pc = "put" /\ saves[q].key = l /\ saves[q].expiry = metas[l]
      BY <2>3 DEF Pending
    <3>2. CASE q # s
      BY <3>1, <3>2, <1>1, <1>4 DEF Pending
    <3>3. CASE q = s
      <4>1. PICK t \in Cleaner(k, at, s) : t.key = k /\ t.at = at /\ t.pc \in {"timer", "inline"}
        BY <3>1, <3>3, <1>5
      <4>2. t \in tasks' /\ t.key = l /\ t.at <= metas'[l]
        BY <4>1, <3>1, <3>3, <1>1
      <4> QED BY <4>1, <4>2 DEF Timed
    <3> QED BY <3>2, <3>3
  <2> QED BY <2>1, <2>2, <2>3
<1> QED BY <1>6, <1>7, <1>8 DEF FilesInv
-----------------------------------------------------------------------------
(* Deleting: the task that goes on is the only one that changes.             *)
LEMMA AfterDeleteKnown ==
  ASSUME tasks \subseteq Tasks, NEW t \in tasks
  PROVE  AfterDelete(t) \subseteq Tasks
<1>1. t \in Tasks /\ [t EXCEPT !.pc = "timer"] \in Tasks
  BY DEF Tasks
<1> QED BY <1>1 DEF AfterDelete

LEMMA DeleteMetaInv ==
  ASSUME FilesInv, NEW t \in tasks, DeleteMeta(t)
  PROVE  FilesInv'
<1> DEFINE remove == [t EXCEPT !.pc = IF t \in Inline THEN "inlineRemove" ELSE "remove"]
<1>1. /\ t.pc \in {"inline", "timer"}
      /\ UNCHANGED <<fsPhase, fsEnable, disk, saves, todo, now, cutOff>>
  BY DEF DeleteMeta
<1>2. /\ t \in Tasks /\ t.key \in Keys
      /\ remove \in Tasks /\ remove.key = t.key /\ remove.pc \in {"remove", "inlineRemove"}
  BY DEF FilesInv, FilesShape, Tasks
<1>3. PICK more \in SUBSET Tasks :
        /\ tasks' = (tasks \ {t}) \cup more
        /\ t.key \in InfoIdents \/ DisabledForFiles(t) \/ remove \in more
  <2>1. AfterDelete(t) \subseteq Tasks
    BY AfterDeleteKnown DEF FilesInv, FilesShape
  <2> HIDE DEF remove
  <2>2. CASE t.key \in InfoIdents \/ DisabledForFiles(t)
    <3>1. tasks' = (tasks \ {t}) \cup AfterDelete(t)
      BY <2>2 DEF DeleteMeta
    <3> QED BY <3>1, <2>1, <2>2
  <2>3. CASE ~(t.key \in InfoIdents \/ DisabledForFiles(t))
    <3>1. tasks' = (tasks \ {t}) \cup {remove}
      BY <2>3 DEF DeleteMeta, remove
    <3> QED BY <3>1, <1>2
  <2> QED BY <2>2, <2>3
<1> HIDE DEF remove
<1>4. /\ metas' \in [Keys -> Expiries] /\ failed \subseteq failed'
      /\ \A l \in Keys : l # t.key => metas'[l] = metas[l]
      /\ DisabledForFiles(t) => UNCHANGED metas
      /\ DisabledForFiles(t) \/ metas'[t.key] = Nothing \/ t.key \in failed'
  <2>1. CASE DisabledForFiles(t)
    <3>1. UNCHANGED <<metas, failed>>
      BY <2>1 DEF DeleteMeta
    <3> QED BY <3>1, <2>1 DEF FilesInv, FilesShape
  <2>2. CASE /\ ~DisabledForFiles(t)
             /\ metas' = [metas EXCEPT ![t.key] = Nothing] /\ UNCHANGED failed
    BY <2>2, <1>2 DEF FilesInv, FilesShape, Expiries
  <2>3. CASE /\ ~DisabledForFiles(t)
             /\ failed' = failed \cup {t.key} /\ UNCHANGED metas
    BY <2>3 DEF FilesInv, FilesShape
  <2> QED BY <2>1, <2>2, <2>3 DEF DeleteMeta
<1>5. FilesShape'
  BY <1>1, <1>3, <1>4 DEF FilesInv, FilesShape
<1>6. FilesHaveOwners'
  <2> SUFFICES ASSUME NEW j \in disk
               PROVE  \/ metas'[j] # Nothing
                      \/ \E q \in Saves : saves[q].key = j /\ saves[q].pc = "written"
                      \/ \E u \in tasks' : u.key = j /\ u.pc \in {"remove", "inlineRemove"}
                      \/ j \in cutOff \cup failed'
    BY <1>1 DEF FilesHaveOwners
  <2>1. j \in Keys /\ j \notin InfoIdents
    BY KeysKnown, FilesAssumption DEF FilesInv, FilesShape
  <2>2. \A u \in tasks : u.pc \in {"remove", "inlineRemove"} => u \in tasks'
    BY <1>1, <1>3
  <2>3. CASE j # t.key \/ metas' = metas
    BY <2>1, <2>2, <2>3, <1>4 DEF FilesInv, FilesHaveOwners
  <2>4. CASE j = t.key /\ metas' # metas
    BY <2>1, <2>4, <1>2, <1>3, <1>4
  <2> QED BY <2>3, <2>4
<1>7. Scheduled'
  <2> SUFFICES ASSUME fsPhase # "down", fsEnable, NEW l \in Keys, metas'[l] \in Nat, l \notin failed'
               PROVE  l \in todo \/ Timed(l)' \/ Pending(l)'
    BY <1>1 DEF Scheduled
  <2>1. l # t.key /\ metas'[l] = metas[l]
    BY <1>4 DEF DisabledForFiles, Nothing
  <2>2. l \in todo \/ Timed(l) \/ Pending(l)
    BY <2>1, <1>4 DEF FilesInv, Scheduled
  <2>3. Timed(l) => Timed(l)'
    BY <2>1, <1>3 DEF Timed
  <2>4. Pending(l) => Pending(l)'
    BY <2>1, <1>1 DEF Pending
  <2> QED BY <2>2, <2>3, <2>4
<1> QED BY <1>5, <1>6, <1>7 DEF FilesInv

LEMMA RemoveFileInv ==
  ASSUME FilesInv, NEW t \in tasks, RemoveFile(t)
  PROVE  FilesInv'
<1>1. /\ t.pc \in {"remove", "inlineRemove"}
      /\ disk' \subseteq disk /\ failed \subseteq failed'
      /\ t.key \in disk' => t.key \in failed'
      /\ tasks' = (tasks \ {t}) \cup AfterDelete(t)
      /\ UNCHANGED <<fsPhase, fsEnable, metas, saves, todo, now, cutOff>>
  BY DEF RemoveFile, RemovedFile
<1>2. AfterDelete(t) \subseteq Tasks
  BY AfterDeleteKnown DEF FilesInv, FilesShape
<1>3. FilesShape'
  BY <1>1, <1>2 DEF FilesInv, FilesShape
<1>4. FilesHaveOwners'
  <2> SUFFICES ASSUME NEW j \in disk'
               PROVE  \/ metas[j] # Nothing
                      \/ \E q \in Saves : saves[q].key = j /\ saves[q].pc = "written"
                      \/ \E u \in tasks' : u.key = j /\ u.pc \in {"remove", "inlineRemove"}
                      \/ j \in cutOff \cup failed'
    BY <1>1 DEF FilesHaveOwners
  <2>1. CASE j = t.key
    BY <2>1, <1>1
  <2>2. CASE j # t.key
    <3>1. \A u \in tasks : u.key = j => u \in tasks'
      BY <2>2, <1>1
    <3> QED BY <3>1, <1>1 DEF FilesInv, FilesHaveOwners
  <2> QED BY <2>1, <2>2
<1>5. Scheduled'
  <2> SUFFICES ASSUME fsPhase # "down", fsEnable, NEW l \in Keys, metas[l] \in Nat, l \notin failed'
               PROVE  l \in todo \/ Timed(l)' \/ Pending(l)'
    BY <1>1 DEF Scheduled
  <2>1. l \in todo \/ Timed(l) \/ Pending(l)
    BY <1>1 DEF FilesInv, Scheduled
  <2>2. Timed(l) => Timed(l)'
    BY <1>1 DEF Timed
  <2>3. Pending(l) => Pending(l)'
    BY <1>1 DEF Pending
  <2> QED BY <2>1, <2>2, <2>3
<1> QED BY <1>3, <1>4, <1>5 DEF FilesInv
-----------------------------------------------------------------------------
LEMMA CrashInv ==
  ASSUME FilesInv, Crash
  PROVE  FilesInv'
<1>1. /\ fsPhase' = "down" /\ tasks' = {} /\ todo' = {}
      /\ saves' = [s \in Saves |-> IF saves[s].pc = "idle" THEN saves[s]
                                   ELSE [saves[s] EXCEPT !.pc = "done"]]
      /\ cutOff' = cutOff \cup {i \in disk : metas[i] = Nothing}
      /\ UNCHANGED <<disk, metas, now, failed>>
  BY DEF Crash
<1>2. \A s \in Saves : saves'[s] \in SaveStates /\ (saves'[s].pc # "idle" => saves'[s].key \in Keys)
  <2> SUFFICES ASSUME NEW s \in Saves
               PROVE  saves'[s] \in SaveStates /\ (saves'[s].pc # "idle" => saves'[s].key \in Keys)
    OBVIOUS
  <2>1. saves[s] \in SaveStates
    BY DEF FilesInv, FilesShape
  <2>2. CASE saves[s].pc = "idle"
    BY <2>1, <2>2, <1>1
  <2>3. CASE saves[s].pc # "idle"
    <3> DEFINE state == [saves[s] EXCEPT !.pc = "done"]
    <3>1. state \in SaveStates /\ state.key = saves[s].key
      BY <2>1 DEF SaveStates
    <3>2. saves'[s] = state /\ saves[s].key \in Keys
      BY <2>3, <1>1 DEF FilesInv, FilesShape
    <3> HIDE DEF state
    <3> QED BY <3>1, <3>2
  <2> QED BY <2>2, <2>3
<1>3. saves' \in [Saves -> SaveStates]
  <2>1. DOMAIN saves' = Saves /\ saves' = [s \in Saves |-> saves'[s]]
    BY <1>1
  <2> QED BY <1>2, <2>1
<1>4. FilesShape'
  BY <1>1, <1>2, <1>3 DEF FilesInv, FilesShape
<1>5. FilesHaveOwners'
  BY <1>1 DEF FilesHaveOwners
<1>6. Scheduled'
  BY <1>1 DEF Scheduled
<1> QED BY <1>4, <1>5, <1>6 DEF FilesInv
-----------------------------------------------------------------------------
LEMMA FilesStepInv ==
  ASSUME FilesInv, [FilesNext]_filesVars
  PROVE  FilesInv'
<1>1. ASSUME NEW enable \in BOOLEAN, NEW unread, StartFileServer(enable, unread)
      PROVE  FilesInv'
  BY <1>1, StartInv
<1>2. ASSUME NEW k \in Keys, CleanUp(k)
      PROVE  FilesInv'
  BY <1>2, CleanUpInv
<1>3. ASSUME NEW public \in BOOLEAN, EndStart(public)
      PROVE  FilesInv'
  <2>1. UNCHANGED <<disk, metas, tasks, saves, cutOff, failed, todo>> /\ now' = now
    BY <1>3 DEF EndStart
  <2>2. fsPhase = "cleaning" /\ todo = {} /\ (fsEnable' => fsEnable)
    BY <1>3 DEF EndStart
  <2> QED BY <2>1, <2>2, StillInv DEF FilesInv, FilesShape
<1>4. ASSUME NEW s \in Saves, NEW i \in Idents, WriteFile(s, i)
      PROVE  FilesInv'
  BY <1>4, WriteFileInv
<1>5. ASSUME NEW s \in Saves, NEW k \in InfoIdents, NEW ttl \in TTLs, PutInfo(s, k, ttl)
      PROVE  FilesInv'
  BY <1>5, PutInfoInv
<1>6. ASSUME NEW s \in Saves, NEW ttl \in TTLs, PutMeta(s, ttl)
      PROVE  FilesInv'
  BY <1>6, PutMetaInv
<1>7. ASSUME NEW s \in Saves, ArmTimer(s)
      PROVE  FilesInv'
  BY <1>7, ArmTimerInv
<1>8. ASSUME NEW t \in tasks, DeleteMeta(t) \/ RemoveFile(t)
      PROVE  FilesInv'
  BY <1>8, DeleteMetaInv, RemoveFileInv
<1>9. CASE Crash
  BY <1>9, CrashInv
<1>10. CASE Tick
  <2>1. /\ UNCHANGED <<disk, metas, tasks, saves, cutOff, failed, todo>>
        /\ UNCHANGED <<fsPhase, fsEnable>> /\ now' = now + 1
    BY <1>10 DEF Tick
  <2> QED BY <2>1, StillInv DEF FilesInv, FilesShape
<1>11. CASE UNCHANGED filesVars
  <2>1. /\ UNCHANGED <<disk, metas, tasks, saves, cutOff, failed, todo>>
        /\ UNCHANGED <<fsPhase, fsEnable, now>>
    BY <1>11 DEF filesVars
  <2> QED BY <2>1, StillInv DEF FilesInv, FilesShape
<1> QED BY <1>1, <1>2, <1>3, <1>4, <1>5, <1>6, <1>7, <1>8, <1>9, <1>10, <1>11
        DEF FilesNext, SaveWork, TaskWork

THEOREM FilesInvariant == FilesSpec => []FilesInv
<1>1. FilesInit => FilesInv
  BY FilesInitInv
<1>2. FilesInv /\ [FilesNext]_filesVars => FilesInv'
  BY FilesStepInv
<1> QED BY <1>1, <1>2, PTL DEF FilesSpec

LEMMA FilesAreSafe == FilesInv => FilesHaveOwners /\ ExpiryIsScheduled
  BY DEF FilesInv, FilesShape, Scheduled, Timed, Pending, ExpiryIsScheduled

(* A file on disk is somebody's: for any crashes, failing writes, re-uploads *)
(* and restarts of SaveFile, DeleteFile and the clean-ups at start.          *)
THEOREM FilesHaveOwnersCorrect == FilesSpec => []FilesHaveOwners
<1> QED BY FilesAreSafe, FilesInvariant, PTL

(* While the store is enabled, whatever expires is scheduled to go.          *)
THEOREM ExpiryIsScheduledCorrect == FilesSpec => []ExpiryIsScheduled
<1> QED BY FilesAreSafe, FilesInvariant, PTL
-----------------------------------------------------------------------------
(***************************************************************************)
(* The webhook server.  Both results rest on one inductive invariant:      *)
(* which of the two tables knows a callback at which moment.               *)
(***************************************************************************)
Stages == {"none", "lookup", "dropped", "store", "enqueue", "queued", "parse", "done"}

IngestShape ==
  /\ request \in [Requests -> [pc : Stages, body : Callbacks \cup {NoCallback}, stale : BOOLEAN]]
  /\ \A r \in Requests : request[r].pc # "none" => request[r].body \in Callbacks
  /\ messageQueue \in Seq(Requests)
  /\ since \in [Data -> 0..2]
  /\ epoch \in Nat
  /\ \A h \in handled : h[1] \in Requests /\ h[2] \in Nat /\ h[2] <= epoch

(* What is queued or handled has passed its look-up and was no retry.        *)
Fresh(r) == request[r].pc \notin {"none", "lookup", "dropped"} /\ ~request[r].stale
HandledFresh == \A h \in handled : Fresh(h[1])
QueuedFresh == \A i \in 1..Len(messageQueue) : Fresh(messageQueue[i])

IsGroupMessage(b) == b.type = "GROUP_AT_MESSAGE_CREATE"

(* processedIDs knows every group message handled since it was emptied.      *)
Remembered ==
  \A h \in handled :
    h[2] = epoch /\ IsGroupMessage(Body(h[1])) => Body(h[1]).id \in processedIDs

(* dataMap has all data that went into it less than two clean-ups ago, and   *)
(* takes it for no older: overlapping callbacks may store it once more.      *)
AgesKnown ==
  \A d \in Data : since[d] < 2 => d \in DOMAIN dataMap /\ dataMap[d] \in 0 .. since[d]

RetriesDropped == \A r \in Requests : request[r].stale => request[r].pc = "dropped"

IngestInv ==
  /\ IngestShape /\ HandledFresh /\ QueuedFresh /\ Remembered
  /\ AgesKnown /\ RetriesDropped /\ GroupMessageOnce
-----------------------------------------------------------------------------
LEMMA GroupMessagesAreParsed == "GROUP_AT_MESSAGE_CREATE" \in ParsedTypes
<1>1. "GroupATMessage" \in DOMAIN EventParseFuncMap
  BY DEF EventParseFuncMap
<1>2. "GROUP_AT_MESSAGE_CREATE" \in EventParseFuncMap["GroupATMessage"]
  BY DEF EventParseFuncMap
<1> QED BY <1>1, <1>2 DEF ParsedTypes

LEMMA IngestInitInv == IngestInit => IngestInv
<1> SUFFICES ASSUME IngestInit PROVE IngestInv
  OBVIOUS
<1> USE DEF IngestInit, NoRequest
<1>1. IngestShape
  BY DEF IngestShape, Stages
<1>2. HandledFresh /\ QueuedFresh /\ Remembered /\ GroupMessageOnce
  BY DEF HandledFresh, QueuedFresh, Remembered, GroupMessageOnce
<1>3. AgesKnown /\ RetriesDropped
  BY DEF AgesKnown, RetriesDropped
<1> QED BY <1>1, <1>2, <1>3 DEF IngestInv

(* A request past its look-up moves on from one stage to another.            *)
LEMMA GoesKeeps ==
  ASSUME IngestInv, NEW r \in Requests, NEW pc \in Stages \ {"none", "lookup", "dropped"}, Goes(r, pc),
         request[r].pc \notin {"none", "lookup", "dropped"}
  PROVE  /\ request' \in [Requests -> [pc : Stages, body : Callbacks \cup {NoCallback},
                                       stale : BOOLEAN]]
         /\ \A q \in Requests : request'[q].body = request[q].body
                                /\ request'[q].stale = request[q].stale
         /\ \A q \in Requests : request'[q].pc # "none" => request[q].pc # "none"
         /\ \A q \in Requests : Fresh(q) => Fresh(q)'
         /\ RetriesDropped'
<1>1. request \in [Requests -> [pc : Stages, body : Callbacks \cup {NoCallback}, stale : BOOLEAN]]
  BY DEF IngestInv, IngestShape
<1>2. /\ request' \in [Requests -> [pc : Stages, body : Callbacks \cup {NoCallback},
                                    stale : BOOLEAN]]
      /\ \A q \in Requests : request'[q].body = request[q].body
                             /\ request'[q].stale = request[q].stale
      /\ request'[r].pc = pc
      /\ \A q \in Requests : q # r => request'[q].pc = request[q].pc
  BY <1>1 DEF Goes
<1>3. ~request[r].stale
  BY DEF IngestInv, RetriesDropped
<1>4. \A q \in Requests : request'[q].pc # "none" => request[q].pc # "none"
  BY <1>2
<1>5. \A q \in Requests : Fresh(q) => Fresh(q)'
  BY <1>2 DEF Fresh
<1>6. RetriesDropped'
  BY <1>2, <1>3 DEF IngestInv, RetriesDropped
<1> QED BY <1>2, <1>4, <1>5, <1>6

(* GroupMessageOnce only looks at bodies and at what was handled.            *)
LEMMA NothingHandled ==
  ASSUME IngestInv, UNCHANGED <<handled, epoch>>, processedIDs' = processedIDs,
         \A q \in Requests : request[q].pc # "none" => request'[q].body = request[q].body
  PROVE  Remembered' /\ GroupMessageOnce'
<1>1. \A h \in handled : h[1] \in Requests /\ request'[h[1]].body = request[h[1]].body
  BY DEF IngestInv, IngestShape, HandledFresh, Fresh
<1>2. Remembered'
  BY <1>1 DEF IngestInv, Remembered, Body, IsGroupMessage
<1>3. GroupMessageOnce'
  BY <1>1 DEF IngestInv, GroupMessageOnce, Body
<1> QED BY <1>2, <1>3

(* What is queued and what was handled stays fresh.                          *)
LEMMA StaysFresh ==
  ASSUME IngestInv, \A q \in Requests : Fresh(q) => Fresh(q)', UNCHANGED <<messageQueue, handled>>
  PROVE  HandledFresh' /\ QueuedFresh'
<1>1. \A i \in 1..Len(messageQueue) : messageQueue[i] \in Requests
  BY DEF IngestInv, IngestShape
<1>2. \A h \in handled : h[1] \in Requests
  BY DEF IngestInv, IngestShape
<1>3. HandledFresh'
  BY <1>2 DEF IngestInv, HandledFresh
<1>4. QueuedFresh'
  BY <1>1 DEF IngestInv, QueuedFresh
<1> QED BY <1>3, <1>4

(* A request that is not past its look-up arrives or is looked up: neither   *)
(* queued nor handled, it may change as it likes.                            *)
LEMMA EarlyInv ==
  ASSUME IngestInv, NEW r \in Requests, request[r].pc \in {"none", "lookup"},
         request' \in [Requests -> [pc : Stages, body : Callbacks \cup {NoCallback},
                                   stale : BOOLEAN]],
         \A q \in Requests : q # r => request'[q] = request[q],
         request'[r].body \in Callbacks,
         request'[r].stale => request'[r].pc = "dropped",
         request[r].pc # "none" => request'[r].body = request[r].body,
         UNCHANGED <<dataMap, messageQueue, processedIDs, since, epoch, handled>>
  PROVE  IngestInv'
<1>1. IngestShape'
  BY DEF IngestInv, IngestShape
<1>2. HandledFresh' /\ QueuedFresh'
  <2>1. \A q \in Requests : Fresh(q) => Fresh(q)'
    BY DEF Fresh
  <2> QED BY <2>1, StaysFresh
<1>3. Remembered' /\ GroupMessageOnce'
  <2>1. \A q \in Requests : request[q].pc # "none" => request'[q].body = request[q].body
    OBVIOUS
  <2> QED BY <2>1, NothingHandled
<1>4. AgesKnown' /\ RetriesDropped'
  BY DEF IngestInv, AgesKnown, RetriesDropped
<1> QED BY <1>1, <1>2, <1>3, <1>4 DEF IngestInv

LEMMA CallbackInv ==
  ASSUME IngestInv, NEW r \in Requests, NEW b \in Callbacks, Callback(r, b)
  PROVE  IngestInv'
<1> DEFINE arrived == [pc |-> "lookup", body |-> b, stale |-> FALSE]
<1>1. /\ request[r].pc = "none" /\ request' = [request EXCEPT ![r] = arrived]
      /\ UNCHANGED <<dataMap, messageQueue, processedIDs, since, epoch, handled>>
  BY DEF Callback, At
<1>2. arrived \in [pc : Stages, body : Callbacks \cup {NoCallback}, stale : BOOLEAN]
  BY DEF Stages
<1>3. /\ request' \in [Requests -> [pc : Stages, body : Callbacks \cup {NoCallback},
                                    stale : BOOLEAN]]
      /\ \A q \in Requests : q # r => request'[q] = request[q]
      /\ request'[r] = arrived
  BY <1>1, <1>2 DEF IngestInv, IngestShape
<1> QED BY <1>1, <1>3, EarlyInv

(* What is looked up in time is found, whatever was cleaned up meanwhile.    *)
LEMMA LookUpInv ==
  ASSUME IngestInv, NEW r \in Requests, LookUp(r)
  PROVE  IngestInv'
<1> DEFINE d == request[r].body.data
<1>1. request[r].pc = "lookup" /\ request[r].body \in Callbacks /\ d \in Data
  BY DEF LookUp, At, IngestInv, IngestShape, Data
<1>2. PICK pc \in Stages, stale \in BOOLEAN :
        /\ request' = [request EXCEPT ![r] = [@ EXCEPT !.pc = pc, !.stale = stale]]
        /\ stale => since[d] < 2
        /\ d \in DOMAIN dataMap => pc = "dropped"
  <2> DEFINE pc == IF d \in DOMAIN dataMap THEN "dropped" ELSE "store"
             stale == since[d] < 2
  <2>1. pc \in Stages /\ (d \in DOMAIN dataMap => pc = "dropped")
    BY DEF Stages
  <2>2. stale \in BOOLEAN /\ (stale => since[d] < 2)
    OBVIOUS
  <2>3. request' = [request EXCEPT ![r] = [@ EXCEPT !.pc = pc, !.stale = stale]]
    BY DEF LookUp, Body
  <2> HIDE DEF pc, stale
  <2> QED BY <2>1, <2>2, <2>3
<1>3. stale => pc = "dropped"
  BY <1>1, <1>2 DEF IngestInv, AgesKnown
<1>4. request \in [Requests -> [pc : Stages, body : Callbacks \cup {NoCallback}, stale : BOOLEAN]]
  BY DEF IngestInv, IngestShape
<1>5. /\ request' \in [Requests -> [pc : Stages, body : Callbacks \cup {NoCallback},
                                    stale : BOOLEAN]]
      /\ \A q \in Requests : q # r => request'[q] = request[q]
      /\ request'[r].pc = pc /\ request'[r].stale = stale
      /\ request'[r].body = request[r].body
  BY <1>2, <1>4
<1>6. UNCHANGED <<dataMap, messageQueue, processedIDs, since, epoch, handled>>
  BY DEF LookUp
<1> QED BY <1>1, <1>3, <1>5, <1>6, EarlyInv

(* A request moves on, and what the invariant says of the queue and of       *)
(* dataMap holds again.                                                      *)
LEMMA MoveInv ==
  ASSUME IngestInv, NEW r \in Requests, NEW pc \in Stages \ {"none", "lookup", "dropped"}, Goes(r, pc),
         request[r].pc \notin {"none", "lookup", "dropped"},
         UNCHANGED <<processedIDs, epoch, handled>>,
         messageQueue' \in Seq(Requests),
         \A i \in 1..Len(messageQueue') : Fresh(messageQueue'[i]),
         since' \in [Data -> 0..2],
         AgesKnown'
  PROVE  IngestInv'
<1>1. /\ request' \in [Requests -> [pc : Stages, body : Callbacks \cup {NoCallback},
                                    stale : BOOLEAN]]
      /\ \A q \in Requests : request'[q].body = request[q].body
                             /\ request'[q].stale = request[q].stale
      /\ \A q \in Requests : request'[q].pc # "none" => request[q].pc # "none"
      /\ \A q \in Requests : Fresh(q) => Fresh(q)'
      /\ RetriesDropped'
  BY GoesKeeps
<1>2. IngestShape'
  BY <1>1 DEF IngestInv, IngestShape
<1>3. HandledFresh'
  BY <1>1 DEF IngestInv, IngestShape, HandledFresh
<1>4. QueuedFresh'
  <2>1. \A i \in 1..Len(messageQueue') : messageQueue'[i] \in Requests
    OBVIOUS
  <2> QED BY <1>1, <2>1 DEF QueuedFresh
<1>5. Remembered' /\ GroupMessageOnce'
  BY <1>1, NothingHandled
<1> QED BY <1>1, <1>2, <1>3, <1>4, <1>5 DEF IngestInv

LEMMA StoreDataInv ==
  ASSUME IngestInv, NEW r \in Requests, Store(r)
  PROVE  IngestInv'
<1> DEFINE d == Body(r).data
<1>1. /\ request[r].pc = "store" /\ Goes(r, "enqueue")
      /\ dataMap' = [e \in DOMAIN dataMap \cup {d} |-> IF e = d THEN 0 ELSE dataMap[e]]
      /\ since' = IF d \in DOMAIN dataMap THEN since ELSE [since EXCEPT ![d] = 0]
      /\ UNCHANGED <<messageQueue, processedIDs, epoch, handled>>
  BY DEF Store, At
<1>2. "enqueue" \in Stages \ {"none", "lookup", "dropped"}
  BY DEF Stages
<1>3. since \in [Data -> 0..2] /\ messageQueue' \in Seq(Requests)
  BY <1>1 DEF IngestInv, IngestShape
<1> HIDE DEF d
<1>4. since' \in [Data -> 0..2] /\ \A e \in Data : 
        since'[e] = since[e] \/ (e = d /\ since'[e] = 0)
  <2>1. 0 \in 0..2
    OBVIOUS
  <2>2. CASE d \in DOMAIN dataMap
    BY <2>2, <1>1, <1>3
  <2>3. CASE d \notin DOMAIN dataMap
    BY <2>1, <2>3, <1>1, <1>3
  <2> QED BY <2>2, <2>3
<1>5. AgesKnown'
  <2> SUFFICES ASSUME NEW e \in Data, since'[e] < 2
               PROVE  e \in DOMAIN dataMap' /\ dataMap'[e] \in 0 .. since'[e]
    BY DEF AgesKnown
  <2>1. CASE e = d
    <3>1. since'[e] \in 0..2
      BY <1>4
    <3> QED BY <2>1, <3>1, <1>1
  <2>2. CASE e # d
    <3>1. since'[e] = since[e]
      BY <2>2, <1>4
    <3>2. e \in DOMAIN dataMap /\ dataMap[e] \in 0 .. since[e]
      BY <3>1 DEF IngestInv, AgesKnown
    <3> QED BY <2>2, <3>1, <3>2, <1>1
  <2> QED BY <2>1, <2>2
<1>6. \A i \in 1..Len(messageQueue') : Fresh(messageQueue'[i])
  BY <1>1 DEF IngestInv, QueuedFresh
<1> QED BY <1>1, <1>2, <1>3, <1>4, <1>5, <1>6, MoveInv

LEMMA EnqueueInv ==
  ASSUME IngestInv, NEW r \in Requests, Enqueue(r)
  PROVE  IngestInv'
<1>1. /\ request[r].pc = "enqueue" /\ Goes(r, "queued")
      /\ messageQueue' = Append(messageQueue, r)
      /\ UNCHANGED <<dataMap, processedIDs, since, epoch, handled>>
  BY DEF Enqueue, At
<1>2. "queued" \in Stages \ {"none", "lookup", "dropped"} /\ Fresh(r)
  BY <1>1 DEF Stages, IngestInv, RetriesDropped, Fresh
<1>3. messageQueue' \in Seq(Requests) /\ since' \in [Data -> 0..2] /\ AgesKnown'
  BY <1>1 DEF IngestInv, IngestShape, AgesKnown
<1>4. \A i \in 1..Len(messageQueue') : Fresh(messageQueue'[i])
  BY <1>1, <1>2 DEF IngestInv, IngestShape, QueuedFresh
<1> QED BY <1>1, <1>2, <1>3, <1>4, MoveInv

LEMMA ListenInv ==
  ASSUME IngestInv, ListenMessageAndHandle
  PROVE  IngestInv'
<1>1. /\ messageQueue # << >> /\ messageQueue' = Tail(messageQueue)
      /\ Goes(Head(messageQueue), "parse")
      /\ UNCHANGED <<dataMap, processedIDs, since, epoch, handled>>
  BY DEF ListenMessageAndHandle
<1>2. messageQueue \in Seq(Requests)
  BY DEF IngestInv, IngestShape
<1>3. Head(messageQueue) \in Requests /\ Fresh(Head(messageQueue))
  BY <1>1, <1>2 DEF IngestInv, QueuedFresh
<1>4. request[Head(messageQueue)].pc \notin {"none", "lookup", "dropped"}
  BY <1>3 DEF Fresh
<1>5. "parse" \in Stages \ {"none", "lookup", "dropped"}
  BY DEF Stages
<1>6. messageQueue' \in Seq(Requests) /\ since' \in [Data -> 0..2] /\ AgesKnown'
  BY <1>1, <1>2 DEF IngestInv, IngestShape, AgesKnown
<1>7. \A i \in 1..Len(messageQueue') : Fresh(messageQueue'[i])
  BY <1>1, <1>2 DEF IngestInv, QueuedFresh
<1> QED BY <1>1, <1>3, <1>4, <1>5, <1>6, <1>7, MoveInv

(* Parse in short: what is handled now, if it is a group message, was not    *)
(* known before and is known now.                                            *)
LEMMA ParseOutcome ==
  ASSUME NEW r \in Requests, Parse(r)
  PROVE  /\ processedIDs \subseteq processedIDs'
         /\ \/ handled' = handled
            \/ /\ handled' = handled \cup {<<r, epoch>>}
               /\ IsGroupMessage(Body(r)) =>
                    Body(r).id \notin processedIDs /\ Body(r).id \in processedIDs'
<1> DEFINE parsed == Body(r).data \notin Undecodable
           slots == Handled(Body(r).type, parsed, WebHookHandlers)
           claims == parsed /\ Body(r).type = "GROUP_AT_MESSAGE_CREATE"
<1>1. /\ processedIDs' = IF claims THEN Claimed(Body(r)) ELSE processedIDs
      /\ handled' = IF slots # {} /\ (claims => Unclaimed(Body(r)))
                    THEN handled \cup {<<r, epoch>>} ELSE handled
  BY Zenon DEF Parse
<1>2. IsGroupMessage(Body(r)) /\ slots # {} => claims
  BY GroupMessagesAreParsed, Zenon DEF IsGroupMessage, Handled
<1> HIDE DEF claims, slots, parsed
<1>3. processedIDs \subseteq processedIDs'
  BY <1>1 DEF Claimed
<1>4. CASE slots # {} /\ (claims => Unclaimed(Body(r)))
  BY <1>1, <1>2, <1>3, <1>4, Zenon DEF Claimed, Unclaimed
<1>5. CASE ~(slots # {} /\ (claims => Unclaimed(Body(r))))
  BY <1>1, <1>3, <1>5
<1> QED BY <1>4, <1>5

LEMMA ParseInv ==
  ASSUME IngestInv, NEW r \in Requests, Parse(r)
  PROVE  IngestInv'
<1>1. /\ request[r].pc = "parse" /\ Goes(r, "done")
      /\ UNCHANGED <<dataMap, messageQueue, since, epoch>>
  BY DEF Parse, At
<1>2. "done" \in Stages \ {"none", "lookup", "dropped"}
  BY DEF Stages
<1>3. Fresh(r)
  BY <1>1 DEF IngestInv, RetriesDropped, Fresh
<1>4. /\ request' \in [Requests -> [pc : Stages, body : Callbacks \cup {NoCallback},
                                    stale : BOOLEAN]]
      /\ \A q \in Requests : request'[q].body = request[q].body
                             /\ request'[q].stale = request[q].stale
      /\ \A q \in Requests : request'[q].pc # "none" => request[q].pc # "none"
      /\ \A q \in Requests : Fresh(q) => Fresh(q)'
      /\ RetriesDropped'
  BY <1>1, <1>2, GoesKeeps
<1>5. /\ processedIDs \subseteq processedIDs'
      /\ \/ handled' = handled
         \/ /\ handled' = handled \cup {<<r, epoch>>}
            /\ IsGroupMessage(Body(r)) =>
                 Body(r).id \notin processedIDs /\ Body(r).id \in processedIDs'
  BY ParseOutcome
<1>6. /\ \A h \in handled : h[1] \in Requests /\ h[2] \in Nat /\ h[2] <= epoch
      /\ epoch \in Nat
  BY DEF IngestInv, IngestShape
<1>7. IngestShape'
  <2>1. \A h \in handled' : h[1] \in Requests /\ h[2] \in Nat /\ h[2] <= epoch
    BY <1>5, <1>6
  <2> QED BY <2>1, <1>1, <1>4 DEF IngestInv, IngestShape
<1>8. \A q \in Requests : Fresh(q) => Fresh(q)'
  BY <1>4
<1>9. HandledFresh' /\ QueuedFresh'
  <2>1. \A h \in handled' : h[1] \in Requests /\ Fresh(h[1])
    BY <1>3, <1>5, <1>6 DEF IngestInv, HandledFresh
  <2>2. \A i \in 1..Len(messageQueue') : messageQueue'[i] \in Requests /\ Fresh(messageQueue'[i])
    BY <1>1 DEF IngestInv, IngestShape, QueuedFresh
  <2> QED BY <2>1, <2>2, <1>8 DEF HandledFresh, QueuedFresh
<1>10. \A q \in Requests : Body(q)' = Body(q)
  BY <1>4 DEF Body
<1>11. Remembered'
  <2> SUFFICES ASSUME NEW h \in handled', h[2] = epoch, IsGroupMessage(Body(h[1])')
               PROVE  Body(h[1])'.id \in processedIDs'
    BY <1>1 DEF Remembered, Body, IsGroupMessage
  <2>1. CASE h \in handled
    <3>1. h[1] \in Requests
      BY <2>1, <1>6
    <3>2. Body(h[1])' = Body(h[1])
      BY <3>1, <1>10
    <3>3. Body(h[1]).id \in processedIDs
      BY <2>1, <3>2 DEF IngestInv, Remembered
    <3> QED BY <3>2, <3>3, <1>5
  <2>2. CASE h = <<r, epoch>> /\ h \notin handled
    BY <2>2, <1>5, <1>10
  <2> QED BY <2>1, <2>2, <1>5
<1>12. GroupMessageOnce'
  <2> SUFFICES ASSUME NEW h \in handled', NEW k \in handled',
                      Body(h[1])' = Body(k[1])', IsGroupMessage(Body(h[1])'),
                      h[1] # k[1]
               PROVE  h[2] # k[2]
    BY DEF GroupMessageOnce, Body, IsGroupMessage
  <2>1. h[1] \in Requests /\ k[1] \in Requests
    BY <1>5, <1>6
  <2>2. Body(h[1]) = Body(k[1]) /\ IsGroupMessage(Body(h[1]))
    BY <2>1, <1>10
  <2>3. CASE h \in handled /\ k \in handled
    BY <2>2, <2>3 DEF IngestInv, GroupMessageOnce, IsGroupMessage
  <2>4. \A g \in handled : Body(g[1]) = Body(r) /\ IsGroupMessage(Body(r))
                           /\ handled' = handled \cup {<<r, epoch>>} /\ handled' # handled
                             => g[2] # epoch
    BY <1>5 DEF IngestInv, Remembered
  <2>5. CASE h = <<r, epoch>> /\ h \notin handled
    BY <2>1, <2>2, <2>4, <2>5, <1>5
  <2>6. CASE k = <<r, epoch>> /\ k \notin handled
    BY <2>1, <2>2, <2>4, <2>6, <1>5
  <2> QED BY <2>3, <2>5, <2>6, <1>5
<1>13. AgesKnown' /\ RetriesDropped'
  BY <1>1, <1>4 DEF IngestInv, AgesKnown
<1> QED BY <1>7, <1>9, <1>11, <1>12, <1>13 DEF IngestInv

(* A clean-up of dataMap makes every entry one older, and drops it at two.   *)
LEMMA CleanUpDataMapInv ==
  ASSUME IngestInv, CleanUpDataMap
  PROVE  IngestInv'
<1>1. /\ dataMap' = [d \in Cleaned |-> 1]
      /\ since' = [d \in Data |-> IF since[d] = 2 THEN 2 ELSE since[d] + 1]
      /\ UNCHANGED <<request, messageQueue, processedIDs, epoch, handled>>
  BY DEF CleanUpDataMap
<1>2. since' \in [Data -> 0..2]
  <2>1. \A d \in Data : since[d] \in 0..2
    BY DEF IngestInv, IngestShape
  <2>2. \A d \in Data : (IF since[d] = 2 THEN 2 ELSE since[d] + 1) \in 0..2
    BY <2>1
  <2> QED BY <1>1, <2>2
<1>3. IngestShape'
  BY <1>1, <1>2 DEF IngestInv, IngestShape
<1>4. HandledFresh' /\ QueuedFresh'
  BY <1>1 DEF IngestInv, HandledFresh, QueuedFresh, Fresh
<1>5. Remembered' /\ GroupMessageOnce'
  BY <1>1, NothingHandled
<1>6. AgesKnown'
  <2> SUFFICES ASSUME NEW d \in Data, since'[d] < 2
               PROVE  d \in DOMAIN dataMap' /\ dataMap'[d] \in 0 .. since'[d]
    BY DEF AgesKnown
  <2>1. since[d] \in 0..2 /\ since'[d] = IF since[d] = 2 THEN 2 ELSE since[d] + 1
    BY <1>1 DEF IngestInv, IngestShape
  <2>2. since[d] = 0 /\ since'[d] = 1
    BY <2>1
  <2>3. d \in DOMAIN dataMap /\ dataMap[d] = 0
    BY <2>2 DEF IngestInv, AgesKnown
  <2>4. d \in Cleaned
    BY <2>3 DEF Cleaned
  <2> QED BY <1>1, <2>2, <2>4
<1>7. RetriesDropped'
  BY <1>1 DEF IngestInv, RetriesDropped
<1> QED BY <1>3, <1>4, <1>5, <1>6, <1>7 DEF IngestInv

(* Emptying processedIDs begins a new epoch, in which nothing was handled.   *)
LEMMA CleanProcessedIDsInv ==
  ASSUME IngestInv, CleanProcessedIDs
  PROVE  IngestInv'
<1>1. /\ epoch' = epoch + 1
      /\ UNCHANGED <<request, dataMap, messageQueue, since, handled>>
  BY DEF CleanProcessedIDs
<1>2. epoch \in Nat /\ \A h \in handled : h[2] \in Nat /\ h[2] <= epoch
  BY DEF IngestInv, IngestShape
<1>3. epoch' \in Nat /\ \A h \in handled : h[2] <= epoch' /\ h[2] # epoch'
  BY <1>1, <1>2
<1>4. IngestShape'
  BY <1>1, <1>3 DEF IngestInv, IngestShape
<1>5. Remembered'
  BY <1>1, <1>3 DEF Remembered
<1>6. HandledFresh' /\ QueuedFresh' /\ GroupMessageOnce'
  BY <1>1 DEF IngestInv, HandledFresh, QueuedFresh, Fresh, GroupMessageOnce, Body
<1>7. AgesKnown' /\ RetriesDropped'
  BY <1>1 DEF IngestInv, AgesKnown, RetriesDropped
<1> QED BY <1>4, <1>5, <1>6, <1>7 DEF IngestInv

(* The server stops and starts, or nothing happens: none of this is touched. *)
LEMMA OthersInv ==
  ASSUME IngestInv,
         UNCHANGED <<request, dataMap, messageQueue, processedIDs, since, epoch, handled>>
  PROVE  IngestInv'
  BY DEF IngestInv, IngestShape, HandledFresh, QueuedFresh, Fresh, Remembered, IsGroupMessage,
         AgesKnown, RetriesDropped, GroupMessageOnce, Body

LEMMA IngestStepInv == IngestInv /\ [IngestNext]_ingestVars => IngestInv'
<1> SUFFICES ASSUME IngestInv, [IngestNext]_ingestVars PROVE IngestInv'
  OBVIOUS
<1>1. ASSUME NEW r \in Requests, NEW b \in Callbacks, Callback(r, b) PROVE IngestInv'
  BY <1>1, CallbackInv
<1>2. ASSUME NEW r \in Requests, Goroutine(r) PROVE IngestInv'
  BY <1>2, LookUpInv, StoreDataInv, ParseInv DEF Goroutine
<1>3. ASSUME NEW r \in Requests, Enqueue(r) PROVE IngestInv'
  BY <1>3, EnqueueInv
<1>4. CASE ListenMessageAndHandle
  BY <1>4, ListenInv
<1>5. CASE CleanUpDataMap
  BY <1>5, CleanUpDataMapInv
<1>6. CASE CleanProcessedIDs
  BY <1>6, CleanProcessedIDsInv
<1>7. CASE ListenFails \/ Restart \/ UNCHANGED ingestVars
  BY <1>7, OthersInv DEF ListenFails, Restart, ingestVars
<1> QED
  BY <1>1, <1>2, <1>3, <1>4, <1>5, <1>6, <1>7 DEF IngestNext
-----------------------------------------------------------------------------
LEMMA CallbacksAreSafe == IngestInv => GroupMessageOnce /\ RetryIsDropped
<1> SUFFICES ASSUME IngestInv, NEW r \in Requests, request[r].stale
             PROVE  /\ request[r].pc = "dropped"
                    /\ \A h \in handled : h[1] # r
  BY DEF IngestInv, RetryIsDropped, At
<1>1. request[r].pc = "dropped"
  BY DEF IngestInv, RetriesDropped
<1>2. \A h \in handled : h[1] # r
  BY DEF IngestInv, HandledFresh, Fresh
<1> QED BY <1>1, <1>2

(* A group message is handled once for all the callbacks it comes in, as     *)
(* long as processedIDs is not emptied in between, however many requests     *)
(* overlap.                                                                  *)
THEOREM GroupMessageOnceCorrect == IngestSpec => []GroupMessageOnce
<1> QED
  BY IngestInitInv, IngestStepInv, CallbacksAreSafe, PTL DEF IngestSpec

(* A callback that is looked up less than two clean-ups after its data went  *)
(* into dataMap is dropped, whenever the clean-ups come and whatever became  *)
(* of the server in between (readMessageToQueue, cleanupDataMap).            *)
THEOREM RetryIsDroppedCorrect == IngestSpec => []RetryIsDropped
<1> QED
  BY IngestInitInv, IngestStepInv, CallbacksAreSafe, PTL DEF IngestSpec

-----------------------------------------------------------------------------
(***************************************************************************)
(* The types of the parts.                                                 *)
(***************************************************************************)
(* What FilesShape leaves open.                                              *)
FilesRest ==
  /\ fsPhase \in {"down", "cleaning", "up"} /\ fsEnable \in BOOLEAN
  /\ todo \in SUBSET Keys /\ now \in 0 .. MaxTime
  /\ cutOff \in SUBSET Idents /\ failed \in SUBSET Keys

LEMMA FilesTypes == FilesShape /\ FilesRest => FilesTypeOK
  BY DEF FilesShape, FilesRest, FilesTypeOK, SaveStates

LEMMA FilesRestInit == FilesInit => FilesRest
<1> SUFFICES ASSUME FilesInit PROVE FilesRest
  OBVIOUS
<1>1. fsPhase = "down" /\ fsEnable = FALSE
  BY DEF FilesInit
<1>2. todo = {} /\ cutOff = {} /\ failed = {} /\ now = 0
  BY DEF FilesInit
<1>3. now \in 0 .. MaxTime
  BY <1>2, FilesAssumption
<1> QED BY <1>1, <1>2, <1>3 DEF FilesRest

(* A step fails for known keys only.                                         *)
LEMMA FilesRestStep ==
  ASSUME FilesInv, FilesRest, [FilesNext]_filesVars
  PROVE  FilesRest'
<1> USE DEF FilesRest
<1>1. ASSUME NEW enable \in BOOLEAN, NEW unread \in {{}, Idents, InfoIdents, Keys},
             StartFileServer(enable, unread)
      PROVE  FilesRest'
  <2>1. unread \subseteq Keys
    BY KeysKnown
  <2> QED BY <1>1, <2>1 DEF StartFileServer
<1>2. ASSUME NEW k \in Keys, CleanUp(k)
      PROVE  FilesRest'
  BY <1>2 DEF CleanUp
<1>3. ASSUME NEW public \in BOOLEAN, EndStart(public)
      PROVE  FilesRest'
  <2>1. fsEnable' \in BOOLEAN
    BY <1>3 DEF EndStart
  <2> QED BY <1>3, <2>1 DEF EndStart
<1>4. ASSUME NEW s \in Saves, NEW i \in Idents, WriteFile(s, i)
      PROVE  FilesRest'
  BY <1>4, KeysKnown DEF WriteFile
<1>5. ASSUME NEW s \in Saves, NEW k \in InfoIdents, NEW ttl \in TTLs, PutInfo(s, k, ttl)
      PROVE  FilesRest'
  BY <1>5 DEF PutInfo
<1>6. ASSUME NEW s \in Saves, NEW ttl \in TTLs, PutMeta(s, ttl)
      PROVE  FilesRest'
  <2>1. saves[s].key \in Keys
    BY <1>6 DEF PutMeta, FilesInv, FilesShape
  <2> QED BY <1>6, <2>1 DEF PutMeta
<1>7. ASSUME NEW s \in Saves, ArmTimer(s)
      PROVE  FilesRest'
  BY <1>7 DEF ArmTimer
<1>8. ASSUME NEW t \in tasks, DeleteMeta(t) \/ RemoveFile(t)
      PROVE  FilesRest'
  <2>1. t.key \in Keys
    BY DEF FilesInv, FilesShape, Tasks
  <2> QED BY <1>8, <2>1 DEF DeleteMeta, RemoveFile
<1>9. CASE Crash
  <2>1. disk \subseteq Idents
    BY DEF FilesInv, FilesShape
  <2> QED BY <1>9, <2>1 DEF Crash
<1>10. CASE Tick
  BY <1>10, FilesAssumption DEF Tick
<1>11. CASE UNCHANGED filesVars
  BY <1>11 DEF filesVars
<1> QED BY <1>1, <1>2, <1>3, <1>4, <1>5, <1>6, <1>7, <1>8, <1>9, <1>10, <1>11
        DEF FilesNext, SaveWork, TaskWork

LEMMA TokenTypeInit == TokenInit => TokenTypeOK
  BY TokenAssumption DEF TokenInit, TokenTypeOK

(* The channel holds no more reasons than it has room for, and the           *)
(* goroutine of the token never ends.                                        *)
LEMMA TokenTypeStep ==
  ASSUME TokenTypeOK, [TokenNext]_tokenVars
  PROVE  TokenTypeOK'
<1> USE DEF TokenTypeOK
<1>1. CASE FirstQuery \/ Query
  BY <1>1 DEF FirstQuery, Query, Queried, AfterQuery
<1>2. CASE Timer
  BY <1>2 DEF Timer
<1>3. CASE Forced
  BY <1>3, TokenAssumption DEF Forced
<1>4. ASSUME NEW f \in Forcers, ForceBegins(f)
      PROVE  TokenTypeOK'
  BY <1>4 DEF ForceBegins
<1>5. ASSUME NEW f \in Forcers, ForceSends(f)
      PROVE  TokenTypeOK'
  BY <1>5, TokenAssumption DEF ForceSends
<1>6. CASE Expire \/ EndpointChanges
  BY <1>6 DEF Expire, EndpointChanges
<1>7. CASE UNCHANGED tokenVars
  BY <1>7 DEF tokenVars
<1> QED BY <1>1, <1>2, <1>3, <1>4, <1>5, <1>6, <1>7 DEF TokenNext


(* What IngestShape leaves open: the queue within its capacity, the tables   *)
(* with what the platform sends, an epoch for no more than each clean-up.    *)
IngestRest ==
  /\ listening \in BOOLEAN
  /\ \A d \in DOMAIN dataMap : d \in Data /\ dataMap[d] \in {0, 1}
  /\ Len(messageQueue) <= QueueSize
  /\ processedIDs \subseteq {b.id : b \in Callbacks}
  /\ upsets \in 0 .. MaxUpsets /\ epoch <= upsets
  /\ handled \subseteq Requests \X (0 .. MaxUpsets)

LEMMA IngestTypes == IngestShape /\ IngestRest => IngestTypeOK
<1> SUFFICES ASSUME IngestShape, IngestRest PROVE IngestTypeOK
  OBVIOUS
<1>1. epoch \in 0 .. MaxUpsets
  BY IngestAssumption DEF IngestShape, IngestRest
<1> QED BY <1>1 DEF IngestShape, IngestRest, IngestTypeOK, Stages

LEMMA IngestRestInit == IngestInit => IngestRest
<1> SUFFICES ASSUME IngestInit PROVE IngestRest
  OBVIOUS
<1>1. listening = TRUE /\ DOMAIN dataMap = {} /\ processedIDs = {} /\ handled = {}
  BY DEF IngestInit
<1>2. upsets = 0 /\ epoch = 0 /\ messageQueue = << >>
  BY DEF IngestInit
<1>3. Len(messageQueue) <= QueueSize /\ upsets \in 0 .. MaxUpsets /\ epoch <= upsets
  BY <1>2, IngestAssumption
<1> QED BY <1>1, <1>3 DEF IngestRest

LEMMA BodyKnown ==
  ASSUME IngestShape, NEW r \in Requests, request[r].pc # "none"
  PROVE  Body(r) \in Callbacks /\ Body(r).data \in Data /\ Body(r).id \in {b.id : b \in Callbacks}
<1>1. Body(r) \in Callbacks
  BY DEF IngestShape, Body
<1> QED BY <1>1 DEF Data

LEMMA IngestRestStep ==
  ASSUME IngestShape, IngestRest, [IngestNext]_ingestVars
  PROVE  IngestRest'
<1>1. ASSUME NEW r \in Requests, NEW b \in Callbacks, Callback(r, b)
      PROVE  IngestRest'
  BY <1>1 DEF Callback, IngestRest
<1>2. ASSUME NEW r \in Requests, LookUp(r)
      PROVE  IngestRest'
  BY <1>2 DEF LookUp, IngestRest
<1>3. ASSUME NEW r \in Requests, Store(r)
      PROVE  IngestRest'
  <2>1. Body(r).data \in Data
    BY <1>3, BodyKnown DEF Store, At
  <2>2. \A d \in DOMAIN dataMap' : d \in Data /\ dataMap'[d] \in {0, 1}
    BY <1>3, <2>1 DEF Store, IngestRest
  <2> QED BY <1>3, <2>2 DEF Store, IngestRest
<1>4. ASSUME NEW r \in Requests, Enqueue(r)
      PROVE  IngestRest'
  <2>1. Len(messageQueue') = Len(messageQueue) + 1 /\ Len(messageQueue) \in Nat
    BY <1>4 DEF Enqueue, IngestShape
  <2>2. Len(messageQueue') <= QueueSize
    BY <1>4, <2>1, IngestAssumption DEF Enqueue
  <2> QED BY <1>4, <2>2 DEF Enqueue, IngestRest
<1>5. ASSUME NEW r \in Requests, Parse(r)
      PROVE  IngestRest'
  <2>1. Body(r).id \in {b.id : b \in Callbacks}
    BY <1>5, BodyKnown DEF Parse, At
  <2>2. processedIDs' \in {processedIDs, processedIDs \cup {Body(r).id}}
    BY <1>5 DEF Parse, Claimed
  <2>3. handled' \in {handled, handled \cup {<<r, epoch>>}}
    BY <1>5 DEF Parse
  <2>4. epoch \in 0 .. MaxUpsets
    BY IngestAssumption DEF IngestShape, IngestRest
  <2>5. UNCHANGED <<listening, dataMap, messageQueue, upsets, epoch>>
    BY <1>5 DEF Parse
  <2> QED BY <2>1, <2>2, <2>3, <2>4, <2>5 DEF IngestRest
<1>6. CASE ListenMessageAndHandle
  <2>1. Len(messageQueue') = Len(messageQueue) - 1 /\ Len(messageQueue) \in Nat
    BY <1>6 DEF ListenMessageAndHandle, IngestShape
  <2>2. Len(messageQueue') <= QueueSize
    BY <2>1, IngestAssumption DEF IngestRest
  <2> QED BY <1>6, <2>2 DEF ListenMessageAndHandle, IngestRest
<1>7. Upset => upsets' \in 0 .. MaxUpsets /\ epoch <= upsets' /\ epoch + 1 <= upsets'
  BY IngestAssumption DEF Upset, IngestRest, IngestShape
<1>8. CASE CleanUpDataMap
  <2>1. \A d \in DOMAIN dataMap' : d \in Data /\ dataMap'[d] \in {0, 1}
    BY <1>8 DEF CleanUpDataMap, Cleaned, IngestRest
  <2> QED BY <1>7, <1>8, <2>1 DEF CleanUpDataMap, IngestRest
<1>9. CASE CleanProcessedIDs
  BY <1>7, <1>9 DEF CleanProcessedIDs, IngestRest
<1>10. CASE ListenFails
  BY <1>7, <1>10 DEF ListenFails, IngestRest
<1>11. CASE Restart
  BY <1>11 DEF Restart, IngestRest
<1>12. CASE UNCHANGED ingestVars
  BY <1>12 DEF ingestVars, IngestRest
<1> QED BY <1>1, <1>2, <1>3, <1>4, <1>5, <1>6, <1>8, <1>9, <1>10, <1>11, <1>12
        DEF IngestNext, Goroutine
-----------------------------------------------------------------------------
(***************************************************************************)
(* The parts side by side.                                                 *)
(***************************************************************************)
PartsInv ==
  /\ FilesInv /\ FilesRest
  /\ TokenTypeOK
  /\ IngestInv /\ IngestRest

(* A step of MCParts is a step of one part, or none, for each of them.       *)
LEMMA PartsStep ==
  ASSUME [PartsNext]_partsVars
  PROVE  [FilesNext]_filesVars /\ [TokenNext]_tokenVars /\ [IngestNext]_ingestVars
  BY DEF PartsNext, partsVars, OnlyFiles, OnlyToken, OnlyIngest

LEMMA PartsInvInit == PartsInit => PartsInv
  BY FilesInitInv, FilesRestInit, TokenTypeInit, IngestInitInv, IngestRestInit
  DEF PartsInit, PartsInv

LEMMA PartsInvStep == PartsInv /\ [PartsNext]_partsVars => PartsInv'
<1> SUFFICES ASSUME PartsInv, [PartsNext]_partsVars PROVE PartsInv'
  OBVIOUS
<1>1. [FilesNext]_filesVars /\ [TokenNext]_tokenVars /\ [IngestNext]_ingestVars
  BY PartsStep
<1>2. FilesInv' /\ FilesRest'
  BY <1>1, FilesStepInv, FilesRestStep DEF PartsInv
<1>3. TokenTypeOK'
  BY <1>1, TokenTypeStep DEF PartsInv
<1>4. IngestInv' /\ IngestRest'
  <2>1. IngestInv /\ IngestRest /\ IngestShape
    BY DEF PartsInv, IngestInv
  <2> QED BY <1>1, <2>1, IngestStepInv, IngestRestStep
<1> QED BY <1>2, <1>3, <1>4 DEF PartsInv

THEOREM PartsInvariant == PartsSpec => []PartsInv
<1> QED BY PartsInvInit, PartsInvStep, PTL DEF PartsSpec

(* The file store, the access token and the webhook server keep to their     *)
(* types: messageQueue and forceUpToken to their capacities, the tables of   *)
(* the webhook server to what was sent, the clean-ups to known files.        *)
THEOREM PartsTypeCorrect == PartsSpec => []PartsTypeOK
<1>1. PartsInv => PartsTypeOK
  BY FilesTypes, IngestTypes DEF PartsInv, FilesInv, IngestInv, PartsTypeOK
<1> QED BY <1>1, PartsInvariant, PTL

(* The file store and the webhook server keep their promises beside each     *)
(* other as they do alone.                                                   *)
THEOREM PartsSafe ==
  PartsSpec => [](/\ FilesHaveOwners /\ ExpiryIsScheduled
                  /\ GroupMessageOnce /\ RetryIsDropped)
<1>1. PartsInv => /\ FilesHaveOwners /\ ExpiryIsScheduled
                  /\ GroupMessageOnce /\ RetryIsDropped
  BY FilesAreSafe, CallbacksAreSafe DEF PartsInv
<1> QED BY <1>1, PartsInvariant, PTL
=============================================================================
