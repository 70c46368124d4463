------------------------------ MODULE FileStore ------------------------------
(***************************************************************************)
(* The local file store (fileserver): an uploaded file, its metadata in one *)
(* LevelDB and the timer that deletes both, and the media handles          *)
(* ("file infos") of the platform in another LevelDB with timers of their  *)
(* own.  Files and databases survive the process, timers do not: the       *)
(* clean-up at start arms them again.  A file is its identifier, the hash  *)
(* of owner and content, so the same content is saved to the same place;   *)
(* metadata is the time it expires at.                                     *)
(***************************************************************************)
EXTENDS Integers, FiniteSets

CONSTANTS
  Idents,     \* identifiers of files
  InfoIdents, \* identifiers of media handles
  Saves,      \* the calls of SaveFile and SaveFileInfo of a run
  TTLs,       \* lifetimes a configuration or the platform may give (0: for ever)
  MaxTime     \* bound: the clock stops there

ASSUME FilesAssumption ==
  /\ TTLs \subseteq Nat /\ MaxTime \in Nat
  /\ Idents \cap InfoIdents = {} /\ 0 \notin Saves

VARIABLES
  fsPhase,    \* the process: down, in StartFileServer, or up
  fsEnable,   \* instance.Enable
  disk,       \* the identifiers a file of data/files stands for
  metas,      \* MetaDB and FileInfoDB: when an identifier expires
  tasks,      \* pending timers and the deletions they are carrying out
  saves,      \* the calls of SaveFile and SaveFileInfo
  todo,       \* metadata the clean-up at start has still to look at
  now,        \* the clock
  cutOff,     \* history: files left without metadata by a crash
  failed      \* history: identifiers a disk or database operation failed for

filesVars == <<fsPhase, fsEnable, disk, metas, tasks, saves, todo, now, cutOff, failed>>

Nothing == -2      \* no metadata
Never == -1        \* TTL 0
Expiries == Nat \cup {Nothing, Never}
Keys == Idents \cup InfoIdents

NoSave == [pc |-> "idle", key |-> CHOOSE k \in Keys : TRUE, expiry |-> Never]

Tasks == [key : Keys, at : Nat, by : Saves \cup {0},
          pc : {"timer", "remove", "inline", "inlineRemove"}]

FilesTypeOK ==
  /\ fsPhase \in {"down", "cleaning", "up"} /\ fsEnable \in BOOLEAN
  /\ disk \in SUBSET Idents
  /\ metas \in [Keys -> Expiries]
  /\ tasks \in SUBSET Tasks
  /\ saves \in [Saves -> [pc : {"idle", "written", "put", "done"},
                          key : Keys \cup {NoSave.key}, expiry : Expiries]]
  /\ todo \in SUBSET Keys
  /\ now \in 0..MaxTime
  /\ cutOff \in SUBSET Idents /\ failed \in SUBSET Keys

FilesInit ==
  /\ fsPhase = "down" /\ fsEnable = FALSE
  /\ disk = {} /\ metas = [k \in Keys |-> Nothing]
  /\ tasks = {} /\ saves = [s \in Saves |-> NoSave]
  /\ todo = {} /\ now = 0 /\ cutOff = {} /\ failed = {}

Expiry(ttl) == IF ttl = 0 THEN Never ELSE now + ttl
-----------------------------------------------------------------------------
(* fileCleaner and fileInfoCleaner: nothing for what never expires.  What    *)
(* has expired is deleted by the caller and then, expireAt - now having     *)
(* wrapped around, by a timer of a negative duration, which fires at once.   *)
CleanerUnexpired(k, at, s) ==
  IF at \in {Nothing, Never} \/ at <= now THEN {}
  ELSE {[key |-> k, at |-> at, by |-> s, pc |-> "timer"]}

CleanerOfEverything(k, at, s) ==
  IF at = Nothing THEN {}
  ELSE {[key |-> k, at |-> at, by |-> s, pc |-> IF at <= now THEN "inline" ELSE "timer"]}

Cleaner(k, at, s) ==
  IF at \in {Nothing, Never} THEN {}
  ELSE {[key |-> k, at |-> at, by |-> s,
         pc |-> IF at <= now THEN "inline" ELSE "timer"]}

Inline == {t \in tasks : t.pc \in {"inline", "inlineRemove"}}

(* What is left of a task when its deletion is over.                         *)
AfterDelete(t) == IF t \in Inline THEN {[t EXCEPT !.pc = "timer"]} ELSE {}

DisabledForFiles(t) == t.key \in Idents /\ ~fsEnable

(* DeleteFile, first half, or DeleteFileInfo: the metadata goes, or an error *)
(* is logged.  DeleteFile does nothing while the store is not enabled.       *)
DeleteMeta(t) ==
  /\ \/ t.pc = "inline"
     \/ t.pc = "timer" /\ t.at <= now
  /\ IF DisabledForFiles(t)
     THEN UNCHANGED <<metas, failed>>
     ELSE \/ metas' = [metas EXCEPT ![t.key] = Nothing] /\ UNCHANGED failed
          \/ failed' = failed \cup {t.key} /\ UNCHANGED metas
  /\ tasks' = (tasks \ {t}) \cup
       IF t.key \in InfoIdents \/ DisabledForFiles(t) THEN AfterDelete(t)
       ELSE {[t EXCEPT !.pc = IF t \in Inline THEN "inlineRemove" ELSE "remove"]}
  /\ UNCHANGED <<fsPhase, fsEnable, disk, saves, todo, now, cutOff>>

(* DeleteFile, second half: os.Remove, whatever became of the metadata.  Its *)
(* error is only logged, and the file stays.                                 *)
RemovedFileKept(k) == IF metas[k] = Nothing THEN disk ELSE disk \ {k}

RemovedFile(k) == disk \ {k}

RemoveFile(t) ==
  /\ t.pc \in {"remove", "inlineRemove"}
  /\ \/ disk' = RemovedFile(t.key) /\ UNCHANGED failed
     \/ failed' = failed \cup {t.key} /\ UNCHANGED disk
  /\ tasks' = (tasks \ {t}) \cup AfterDelete(t)
  /\ UNCHANGED <<fsPhase, fsEnable, metas, saves, todo, now, cutOff>>
-----------------------------------------------------------------------------
(* StartFileServer: the databases are open and the instance is as the        *)
(* configuration says; both clean-ups run only if it is enabled.  (With a    *)
(* database that does not open there is no instance, as before the start; of *)
(* one that cannot be read nothing is cleaned up.)                           *)
StartFileServer(enable, unread) ==
  /\ fsPhase = "down"
  /\ fsPhase' = "cleaning" /\ fsEnable' = enable
  /\ todo' = IF enable THEN {k \in Keys \ unread : metas[k] # Nothing} ELSE {}
  /\ failed' = IF enable THEN failed \cup unread ELSE failed
  /\ UNCHANGED <<disk, metas, tasks, saves, now, cutOff>>

(* One turn of the loop of metaDBCleanup or fileInfoDBCleanup.               *)
CleanUp(k) ==
  /\ fsPhase = "cleaning" /\ k \in todo /\ Inline = {}
  /\ k \in InfoIdents => todo \cap Idents = {}
  /\ todo' = todo \ {k}
  /\ tasks' = tasks \cup Cleaner(k, metas[k], 0)
  /\ UNCHANGED <<fsPhase, fsEnable, disk, metas, saves, now, cutOff, failed>>

(* Without a public URL the store is disabled after its timers were armed.   *)
EndStart(public) ==
  /\ fsPhase = "cleaning" /\ todo = {} /\ Inline = {}
  /\ fsPhase' = "up" /\ fsEnable' = (fsEnable /\ public)
  /\ UNCHANGED <<disk, metas, tasks, saves, todo, now, cutOff, failed>>
-----------------------------------------------------------------------------
SaveStep(s, state) == saves' = [saves EXCEPT ![s] = state]

(* SaveFile writes the file.  A failed write is an error to the caller and   *)
(* may leave a file nobody owns.                                             *)
WriteFile(s, i) ==
  /\ fsPhase = "up" /\ fsEnable /\ saves[s].pc = "idle"
  /\ \/ /\ disk' = disk \cup {i}
        /\ SaveStep(s, [saves[s] EXCEPT !.pc = "written", !.key = i])
        /\ UNCHANGED failed
     \/ /\ disk' \in {disk, disk \cup {i}}
        /\ SaveStep(s, [saves[s] EXCEPT !.pc = "done", !.key = i])
        /\ failed' = failed \cup {i}
  /\ UNCHANGED <<fsPhase, fsEnable, metas, tasks, todo, now, cutOff>>

(* SaveFile stores the metadata; an error is only logged.                    *)
PutMeta(s, ttl) ==
  /\ saves[s].pc = "written"
  /\ SaveStep(s, [saves[s] EXCEPT !.pc = "put", !.expiry = Expiry(ttl)])
  /\ \/ metas' = [metas EXCEPT ![saves[s].key] = Expiry(ttl)] /\ UNCHANGED failed
     \/ failed' = failed \cup {saves[s].key} /\ UNCHANGED metas
  /\ UNCHANGED <<fsPhase, fsEnable, disk, tasks, todo, now, cutOff>>

(* SaveFileInfo stores a handle, also when the store is not enabled; on an   *)
(* error it ends without a timer.                                            *)
PutInfo(s, k, ttl) ==
  /\ fsPhase = "up" /\ saves[s].pc = "idle"
  /\ \/ /\ metas' = [metas EXCEPT ![k] = Expiry(ttl)]
        /\ SaveStep(s, [pc |-> "put", key |-> k, expiry |-> Expiry(ttl)])
     \/ /\ SaveStep(s, [pc |-> "done", key |-> k, expiry |-> Never])
        /\ UNCHANGED metas
  /\ UNCHANGED <<fsPhase, fsEnable, disk, tasks, todo, now, cutOff, failed>>

(* The timer of this save.  A timer an earlier save of the same content set  *)
(* is not stopped.                                                           *)
ArmTimer(s) ==
  /\ saves[s].pc = "put"
  /\ tasks' = tasks \cup Cleaner(saves[s].key, saves[s].expiry, s)
  /\ SaveStep(s, [saves[s] EXCEPT !.pc = "done"])
  /\ UNCHANGED <<fsPhase, fsEnable, disk, metas, todo, now, cutOff, failed>>
-----------------------------------------------------------------------------
Crash ==
  /\ fsPhase # "down"
  /\ fsPhase' = "down" /\ fsEnable' = FALSE
  /\ tasks' = {} /\ todo' = {}
  /\ saves' = [s \in Saves |-> IF saves[s].pc = "idle" THEN saves[s]
                               ELSE [saves[s] EXCEPT !.pc = "done"]]
  /\ cutOff' = cutOff \cup {i \in disk : metas[i] = Nothing}
  /\ UNCHANGED <<disk, metas, now, failed>>

Tick ==
  /\ now < MaxTime
  /\ now' = now + 1
  /\ UNCHANGED <<fsPhase, fsEnable, disk, metas, tasks, saves, todo, cutOff, failed>>

TaskWork == \E t \in tasks : DeleteMeta(t) \/ RemoveFile(t)
SaveWork == \E s \in Saves : (\E ttl \in TTLs : PutMeta(s, ttl)) \/ ArmTimer(s)

FilesNext ==
  \/ \E enable \in BOOLEAN, unread \in {{}, Idents, InfoIdents, Keys} :
       StartFileServer(enable, unread)
  \/ \E k \in Keys : CleanUp(k)
  \/ \E public \in BOOLEAN : EndStart(public)
  \/ \E s \in Saves : \/ \E i \in Idents : WriteFile(s, i)
                      \/ \E k \in InfoIdents, ttl \in TTLs : PutInfo(s, k, ttl)
  \/ SaveWork \/ TaskWork
  \/ Crash \/ Tick

(* Goroutines run, timers fire and time passes.                              *)
FilesFairness ==
  /\ WF_filesVars(TaskWork) /\ WF_filesVars(SaveWork) /\ WF_filesVars(Tick)

FilesSpec == FilesInit /\ [][FilesNext]_filesVars /\ FilesFairness
-----------------------------------------------------------------------------
(* A file on disk is always somebody's: it has metadata, a save is about to *)
(* write that, or a deletion is about to remove the file; else it would     *)
(* stay for ever.  Only a crash between the writes of SaveFile or of        *)
(* DeleteFile, or a failing disk or database, leaves a file behind.         *)
FilesHaveOwners ==
  \A i \in disk :
    \/ metas[i] # Nothing
    \/ \E s \in Saves : saves[s].key = i /\ saves[s].pc = "written"
    \/ \E t \in tasks : t.key = i /\ t.pc \in {"remove", "inlineRemove"}
    \/ i \in cutOff \cup failed

(* While the store is enabled, whatever expires has a timer that fires no   *)
(* later than that, or is about to get it: after re-uploads, which leave    *)
(* older timers running, and after a restart, which forgets them all.       *)
ExpiryIsScheduled ==
  fsPhase = "up" /\ fsEnable =>
    \A k \in Keys : metas[k] \in Nat /\ k \notin failed =>
      \/ \E t \in tasks : t.key = k /\ t.at <= metas[k]
      \/ \E s \in Saves : saves[s].key = k /\ saves[s].pc = "put"

(* While the store is enabled, a file that expires is deleted in the end.   *)
ExpiredFilesGo ==
  \A i \in Idents :
    fsPhase = "up" /\ fsEnable /\ i \in disk /\ metas[i] \in 0..MaxTime
      ~> i \notin disk \/ fsPhase = "down" \/ i \in failed
=============================================================================
