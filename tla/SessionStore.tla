---------------------------- MODULE SessionStore ----------------------------
(***************************************************************************)
(* The session store (config/sessions/store.ts): one JSON file that several *)
(* processes read, change and replace, a lock file beside it, and in each  *)
(* process a cache of what was last read, valid while the file's time of   *)
(* modification is the one that was seen with it.                          *)
(*                                                                         *)
(* A store is the set of the changes it contains; whether a change is in   *)
(* the file is all that the properties tell apart.  The file's time of     *)
(* modification is the number of the write that made it: no two writes are *)
(* taken to fall on one tick of the file system's clock.  What a process   *)
(* does in one synchronous stretch is not interleaved with its own calls,  *)
(* but its reads are with file operations, of any process, that are under  *)
(* way in the thread pool.                                                 *)
(***************************************************************************)
EXTENDS Naturals, FiniteSets

CONSTANTS
    Calls,           \* the calls; each makes one change, or only loads
    Processes, Home, \* the process each call runs in
    Kind,            \* what each call does
    Enforces,        \* session.maintenance.mode is enforce: the file is rotated
    Ages,            \* a lock may come to look older than staleMs
    MaxCrashes,      \* bound: crashes of processes
    Nobody

\* update: updateSessionStore, which reads the file under the lock.
\* patch: updateSessionStoreEntry and updateLastRoute, which take the cache.
\* save: loadSessionStore, then saveSessionStore of the whole (heartbeat-runner.ts).
Kinds == {"load", "update", "patch", "save"}

ASSUME StoreAssumption ==
    /\ Home \in [Calls -> Processes] /\ Kind \in [Calls -> Kinds]
    /\ Enforces \in BOOLEAN /\ Ages \in BOOLEAN
    /\ MaxCrashes \in Nat /\ Nobody \notin Calls

VARIABLES
    file,      \* the store on disk and its time; time 0 when there is no file
    cache,     \* of each process: what it last read, or {}
    loading,   \* of each process: a load between its read and its stat, or {}
    lock,      \* the call that made the lock file, or Nobody
    old,       \* the lock file is older than staleMs
    phase,     \* of each call: where it stands
    copy,      \* of each call: the changes in its copy of the store
    written,   \* history: the changes that were written
    upsets,    \* history: what the lock does not protect from
    crashes

locking == <<lock, old>>
memory == <<cache, loading>>
vars == <<file, cache, loading, lock, old, phase, copy, written, upsets, crashes>>

AtWork == {"locked", "read", "saving"}
Phases == AtWork \cup
          {"new", "waiting", "evicting", "releasing", "done", "failed", "dead"}
Store == [has : SUBSET Calls, time : Nat]
NoFile == [has |-> {}, time |-> 0]

TypeOK ==
    /\ file \in Store
    /\ cache \in [Processes -> SUBSET Store]
    /\ loading \in [Processes -> SUBSET [by : Calls, read : Store]]
    /\ lock \in Calls \cup {Nobody} /\ old \in BOOLEAN
    /\ phase \in [Calls -> Phases] /\ copy \in [Calls -> SUBSET Calls]
    /\ written \subseteq Calls
    /\ upsets \subseteq {"evicted", "torn", "unlocked", "halfway"}
    /\ crashes \in 0..MaxCrashes

Init ==
    /\ file = NoFile
    /\ cache = [p \in Processes |-> {}] /\ loading = [p \in Processes |-> {}]
    /\ lock = Nobody /\ old = FALSE
    /\ phase = [c \in Calls |-> "new"] /\ copy = [c \in Calls |-> {}]
    /\ written = {} /\ upsets = {} /\ crashes = 0

Goes(c, next) == phase' = [phase EXCEPT ![c] = next]
\* The JavaScript of a process runs only while none of its loads does.
Idle(c) == loading[Home[c]] = {}
Upset(what, happens) == upsets' = upsets \cup (IF happens THEN {what} ELSE {})

-----------------------------------------------------------------------------
(* loadSessionStore.                                                       *)

\* A load is the first thing that a save or a reader does, and the first that
\* a patch does under the lock.
Loads(c) == \/ phase[c] = "new" /\ Kind[c] \in {"load", "save"}
            \/ phase[c] = "locked" /\ Kind[c] = "patch"
Loaded(c, has) ==
    /\ copy' = [copy EXCEPT ![c] = has]
    /\ Goes(c, CASE Kind[c] = "load" -> "done"
                 [] Kind[c] = "save" -> "waiting"
                 [] Kind[c] = "patch" -> "read")

LoadCached_AnyTime(c) ==
    /\ Loads(c) /\ Idle(c)
    /\ \E s \in cache[Home[c]] : Loaded(c, s.has)
    /\ UNCHANGED <<file, memory, locking, written, upsets, crashes>>
LoadCached(c) ==
    /\ Loads(c) /\ Idle(c)
    /\ \E s \in cache[Home[c]] : s.time = file.time /\ Loaded(c, s.has)
    /\ UNCHANGED <<file, memory, locking, written, upsets, crashes>>

\* No cache, the wrong time, or a cache older than its TTL: the file is read.
LoadFile(c) ==
    /\ Loads(c) /\ Idle(c)
    /\ loading' = [loading EXCEPT ![Home[c]] = {[by |-> c, read |-> file]}]
    /\ UNCHANGED <<file, cache, locking, phase, copy, written, upsets, crashes>>

\* What was read is cached with the time that the file has by now; another
\* write may have come in between.
EndLoad(p) ==
    /\ \E l \in loading[p] :
          /\ Loaded(l.by, l.read.has)
          /\ cache' = [cache EXCEPT ![p] =
                {[l.read EXCEPT !.time = IF file.time = 0 THEN @ ELSE file.time]}]
          /\ Upset("torn", file.time \notin {0, l.read.time})
    /\ loading' = [loading EXCEPT ![p] = {}]
    /\ UNCHANGED <<file, locking, written, crashes>>

-----------------------------------------------------------------------------
(* withSessionStoreLock.                                                   *)

Begin(c) ==
    /\ phase[c] = "new" /\ Kind[c] \in {"update", "patch"} /\ Idle(c)
    /\ Goes(c, "waiting")
    /\ UNCHANGED <<file, memory, locking, copy, written, upsets, crashes>>

\* open(lockPath, "wx")
TakeLock_NotExclusive(c) ==
    /\ phase[c] = "waiting"
    /\ lock' = c /\ old' = FALSE
    /\ Goes(c, "locked")
    /\ UNCHANGED <<file, memory, copy, written, upsets, crashes>>
TakeLock(c) ==
    /\ phase[c] = "waiting" /\ lock = Nobody
    /\ lock' = c /\ old' = FALSE
    /\ Goes(c, "locked")
    /\ UNCHANGED <<file, memory, copy, written, upsets, crashes>>

GiveUp(c) ==
    /\ phase[c] = "waiting" /\ lock # Nobody /\ Idle(c)
    /\ Goes(c, "failed")
    /\ UNCHANGED <<file, memory, locking, copy, written, upsets, crashes>>

FindStale(c) ==
    /\ phase[c] = "waiting" /\ lock # Nobody /\ old
    /\ Goes(c, "evicting")
    /\ UNCHANGED <<file, memory, locking, copy, written, upsets, crashes>>

\* An unlink takes whatever lock is there by now.
Unlink(c) ==
    /\ lock' = Nobody /\ old' = FALSE
    /\ Upset("evicted", lock \notin {c, Nobody} /\ phase[lock] \in AtWork)
Evict(c) ==
    /\ phase[c] = "evicting"
    /\ Unlink(c)
    /\ Goes(c, "waiting")
    /\ UNCHANGED <<file, memory, copy, written, crashes>>

Release(c) ==
    /\ phase[c] = "releasing"
    /\ Unlink(c)
    /\ Goes(c, "done")
    /\ UNCHANGED <<file, memory, copy, written, crashes>>

-----------------------------------------------------------------------------
(* The work under the lock.                                                *)

ReadStore(c) ==
    /\ phase[c] = "locked" /\ Kind[c] = "update" /\ Idle(c)
    /\ copy' = [copy EXCEPT ![c] = file.has]
    /\ Goes(c, "read")
    /\ UNCHANGED <<file, memory, locking, written, upsets, crashes>>

\* There is nothing to change, or the mutator throws: the finally runs.
LeaveAlone_KeepsLock(c) ==
    /\ phase[c] = "read" /\ Idle(c)
    /\ Goes(c, "done")
    /\ UNCHANGED <<file, memory, locking, copy, written, upsets, crashes>>
LeaveAlone(c) ==
    /\ phase[c] = "read" /\ Idle(c)
    /\ Goes(c, "releasing")
    /\ UNCHANGED <<file, memory, locking, copy, written, upsets, crashes>>

\* saveSessionStoreUnlocked up to its first await.
StartSave(c) ==
    /\ \/ phase[c] = "read"
       \/ phase[c] = "locked" /\ Kind[c] = "save"
    /\ Idle(c)
    /\ copy' = [copy EXCEPT ![c] = @ \cup {c}]
    /\ cache' = [cache EXCEPT ![Home[c]] = {}]
    /\ Goes(c, "saving")
    /\ UNCHANGED <<file, loading, locking, written, upsets, crashes>>

\* A file that is too large is moved away before the new one is written.
RotateSessionFile(c) ==
    /\ phase[c] = "saving" /\ Enforces /\ file.time # 0
    /\ file' = NoFile
    /\ UNCHANGED <<memory, locking, phase, copy, written, upsets, crashes>>

\* The rename of the temporary file.
Replace(c) ==
    /\ phase[c] = "saving"
    /\ file' = [has |-> copy[c], time |-> Cardinality(written) + 1]
    /\ written' = written \cup {c}
    /\ Upset("unlocked", Kind[c] = "save" /\ ~(written \subseteq copy[c]))
    /\ Goes(c, "releasing")
    /\ UNCHANGED <<memory, locking, copy, crashes>>

\* Moved away, and not written.
Halfway == file.time = 0 /\ written # {}
WriteFails(c) ==
    /\ phase[c] = "saving"
    /\ Upset("halfway", Halfway)
    /\ Goes(c, "releasing")
    /\ UNCHANGED <<file, memory, locking, copy, written, crashes>>

-----------------------------------------------------------------------------
(* The environment.                                                        *)

LockAges ==
    /\ Ages /\ lock # Nobody /\ ~old
    /\ old' = TRUE
    /\ UNCHANGED <<file, memory, lock, phase, copy, written, upsets, crashes>>

\* Calls under way end with their process; its lock file stays.
Crash(p) ==
    LET dying == {c \in Calls : /\ Home[c] = p
                                /\ \/ phase[c] \notin {"new", "done", "failed", "dead"}
                                   \/ \E l \in loading[p] : c = l.by} IN
    /\ crashes < MaxCrashes /\ dying # {}
    /\ phase' = [c \in Calls |-> IF c \in dying THEN "dead" ELSE phase[c]]
    /\ cache' = [cache EXCEPT ![p] = {}] /\ loading' = [loading EXCEPT ![p] = {}]
    /\ Upset("halfway", Halfway)
    /\ crashes' = crashes + 1
    /\ UNCHANGED <<file, locking, copy, written>>

Next ==
    \/ \E c \in Calls :
          \/ LoadCached(c) \/ LoadFile(c)
          \/ Begin(c) \/ TakeLock(c) \/ GiveUp(c) \/ FindStale(c) \/ Evict(c) \/ Release(c)
          \/ ReadStore(c) \/ LeaveAlone(c) \/ StartSave(c)
          \/ RotateSessionFile(c) \/ Replace(c) \/ WriteFails(c)
    \/ \E p \in Processes : EndLoad(p) \/ Crash(p)
    \/ LockAges

Spec == Init /\ [][Next]_vars

-----------------------------------------------------------------------------
(* What makes the store correct.                                           *)

\* "Always re-read inside the lock to avoid clobbering concurrent writers"
\* (store.ts:574): a change that was written is in the file.
ChangesSurvive == file.time # 0 => written \subseteq file.has

\* It is, unless one of four things happened: a lock was taken from a call at
\* work; a load cached what it had read with the time of a later write; a store
\* that had been loaded without the lock was saved as a whole; or the file was
\* moved away by a call that did not come to write the new one.
LossHasCause == ChangesSurvive \/ upsets # {}

\* The lock lets one call at a time work on the file, unless a lock was taken
\* from a call at work.
OneAtWork ==
    "evicted" \notin upsets =>
        \A c, d \in Calls : phase[c] \in AtWork /\ phase[d] \in AtWork => c = d

\* No lock file outlives its call, except by a crash; whatever the call throws.
LockIsReleased ==
    lock # Nobody => phase[lock] \in AtWork \cup {"releasing", "dead"}

\* The lock does both: it keeps calls apart, and gives way when they are done.
LockIsSound == OneAtWork /\ LockIsReleased
=============================================================================
