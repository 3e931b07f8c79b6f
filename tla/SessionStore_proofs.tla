------------------------- MODULE SessionStore_proofs -------------------------
(***************************************************************************)
(* That the lock of the session store excludes and is given back, and that *)
(* a change is lost only for one of the four causes the model names: for   *)
(* any number of calls, processes and crashes.                             *)
(***************************************************************************)
EXTENDS SessionStore, FiniteSetTheorems, TLAPS

-----------------------------------------------------------------------------
(* The invariant.                                                          *)

\* A load has a call of its process behind it, which does nothing else.
LoadsAreWaitedFor ==
    \A p \in Processes : \A l \in loading[p] : Home[l.by] = p /\ Loads(l.by)

\* As long as no lock was taken from a call at work, who is at work holds it.
WorkersHoldLock ==
    "evicted" \notin upsets => \A c \in Calls : phase[c] \in AtWork => lock = c

\* What was read is what the file had at its time, and later writes have later
\* times: a store with the file's time has the file's changes.
Current(s) ==
    /\ s.time <= Cardinality(written)
    /\ s.time = file.time /\ s.time # 0 => s.has = file.has

WritersAreDone ==
    /\ IsFiniteSet(written)
    /\ file.time <= Cardinality(written)
    /\ \A c \in written : phase[c] \in {"releasing", "done", "dead"}
    /\ \A c \in Calls : phase[c] = "saving" => c \in copy[c]

\* Only a call at work keeps the file away.
FileIsThere ==
    written # {} /\ file.time = 0 => \E c \in Calls : phase[c] = "saving"

\* A copy made under the lock has every change that was written.
CopiesAreFresh ==
    \A c \in Calls :
        phase[c] = "read" \/ (phase[c] = "saving" /\ Kind[c] # "save")
            => written \subseteq copy[c]

LoadsAreCurrent ==
    \A p \in Processes : \A l \in loading[p] :
        Current(l.read) /\ (phase[l.by] = "locked" => l.read = file)

CachesAreCurrent == \A p \in Processes : \A s \in cache[p] : Current(s)

\* What holds until the first upset.
Undisturbed ==
    ChangesSurvive /\ FileIsThere /\ CopiesAreFresh /\ LoadsAreCurrent /\ CachesAreCurrent

StoreInv ==
    /\ TypeOK /\ LockIsReleased /\ LoadsAreWaitedFor /\ WorkersHoldLock
    /\ WritersAreDone
    /\ upsets = {} => Undisturbed

-----------------------------------------------------------------------------
(* The proofs.                                                             *)

\* Every step keeps the types; the number of writes stays a number.
LEMMA TypesKept ==
    ASSUME TypeOK, LoadsAreWaitedFor, IsFiniteSet(written), [Next]_vars
    PROVE  TypeOK' /\ IsFiniteSet(written)'
<1>. USE StoreAssumption DEF TypeOK, Store, Phases, AtWork
<1>1. ASSUME NEW c \in Calls, LoadCached(c) PROVE TypeOK' /\ IsFiniteSet(written)'
    BY <1>1 DEF LoadCached, Loaded, Loads, Goes, locking, memory
<1>2. ASSUME NEW c \in Calls, LoadFile(c) PROVE TypeOK' /\ IsFiniteSet(written)'
    BY <1>2 DEF LoadFile, Loads, locking
<1>3. ASSUME NEW c \in Calls, Begin(c) PROVE TypeOK' /\ IsFiniteSet(written)'
    BY <1>3 DEF Begin, Goes, memory, locking
<1>4. ASSUME NEW c \in Calls, TakeLock(c) PROVE TypeOK' /\ IsFiniteSet(written)'
    BY <1>4 DEF TakeLock, Goes, memory
<1>5. ASSUME NEW c \in Calls, GiveUp(c) PROVE TypeOK' /\ IsFiniteSet(written)'
    BY <1>5 DEF GiveUp, Goes, memory, locking
<1>6. ASSUME NEW c \in Calls, FindStale(c) PROVE TypeOK' /\ IsFiniteSet(written)'
    BY <1>6 DEF FindStale, Goes, memory, locking
<1>7. ASSUME NEW c \in Calls, Evict(c) PROVE TypeOK' /\ IsFiniteSet(written)'
    BY <1>7 DEF Evict, Goes, Unlink, Upset, memory
<1>8. ASSUME NEW c \in Calls, Release(c) PROVE TypeOK' /\ IsFiniteSet(written)'
    BY <1>8 DEF Release, Goes, Unlink, Upset, memory
<1>9. ASSUME NEW c \in Calls, ReadStore(c) PROVE TypeOK' /\ IsFiniteSet(written)'
    BY <1>9 DEF ReadStore, Goes, memory, locking
<1>10. ASSUME NEW c \in Calls, LeaveAlone(c)
       PROVE  TypeOK' /\ IsFiniteSet(written)'
    BY <1>10 DEF LeaveAlone, Goes, memory, locking
<1>11. ASSUME NEW c \in Calls, StartSave(c) PROVE TypeOK' /\ IsFiniteSet(written)'
    BY <1>11 DEF StartSave, Goes, locking
<1>12. ASSUME NEW c \in Calls, RotateSessionFile(c)
       PROVE  TypeOK' /\ IsFiniteSet(written)'
    BY <1>12 DEF RotateSessionFile, NoFile, memory, locking
<1>13. ASSUME NEW c \in Calls, Replace(c) PROVE TypeOK' /\ IsFiniteSet(written)'
    <2>1. Cardinality(written) \in Nat /\ IsFiniteSet(written \cup {c})
        BY FS_CardinalityType, FS_AddElement
    <2>. QED
        BY <1>13, <2>1 DEF Replace, Goes, Upset, memory, locking
<1>14. ASSUME NEW c \in Calls, WriteFails(c)
       PROVE  TypeOK' /\ IsFiniteSet(written)'
    BY <1>14 DEF WriteFails, Goes, Upset, Halfway, memory, locking
<1>15. ASSUME NEW p \in Processes, EndLoad(p)
       PROVE  TypeOK' /\ IsFiniteSet(written)'
    <2>1. PICK l \in loading[p] :
             /\ Loaded(l.by, l.read.has)
             /\ cache' = [cache EXCEPT ![p] =
                 {[l.read EXCEPT !.time = IF file.time = 0 THEN @ ELSE file.time]}]
        BY <1>15 DEF EndLoad
    <2>2. l.by \in Calls /\ l.read \in Store /\ file.time \in Nat
        OBVIOUS
    <2>3. [l.read EXCEPT !.time = IF file.time = 0 THEN @ ELSE file.time] \in Store
        BY <2>2
    <2>4. cache' \in [Processes -> SUBSET Store]
        BY <2>1, <2>3
    <2>5. phase' \in [Calls -> Phases] /\ copy' \in [Calls -> SUBSET Calls]
        BY <2>1, <2>2 DEF Loaded, Goes, LoadsAreWaitedFor, Loads
    <2>. QED
        BY <1>15, <2>4, <2>5 DEF EndLoad, Upset, locking
<1>16. ASSUME NEW p \in Processes, Crash(p) PROVE TypeOK' /\ IsFiniteSet(written)'
    BY <1>16 DEF Crash, Upset, Halfway, locking
<1>17. CASE LockAges
    BY <1>17 DEF LockAges, memory
<1>18. CASE UNCHANGED vars
    BY <1>18 DEF vars, memory, locking
<1>. QED
    BY <1>1, <1>2, <1>3, <1>4, <1>5, <1>6, <1>7, <1>8, <1>9, <1>10, <1>11,
       <1>12, <1>13, <1>14, <1>15, <1>16, <1>17, <1>18
    DEF Next

\* Every step keeps what the lock is about, evictions included.
LEMMA LockKept ==
    ASSUME TypeOK, LockIsReleased, LoadsAreWaitedFor, WorkersHoldLock, [Next]_vars
    PROVE  LockIsReleased' /\ LoadsAreWaitedFor' /\ WorkersHoldLock'
<1>. USE StoreAssumption DEF TypeOK, AtWork, Kinds, Phases
<1>1. ASSUME NEW c \in Calls, LoadCached(c)
      PROVE  LockIsReleased' /\ LoadsAreWaitedFor' /\ WorkersHoldLock'
    BY <1>1
    DEF LoadCached, Loaded, Loads, Goes, locking, memory, LockIsReleased,
        LoadsAreWaitedFor, WorkersHoldLock, Idle
<1>2. ASSUME NEW c \in Calls, LoadFile(c)
      PROVE  LockIsReleased' /\ LoadsAreWaitedFor' /\ WorkersHoldLock'
    BY <1>2
    DEF LoadFile, Loads, locking, LockIsReleased, LoadsAreWaitedFor,
        WorkersHoldLock, Idle
<1>3. ASSUME NEW c \in Calls, Begin(c)
      PROVE  LockIsReleased' /\ LoadsAreWaitedFor' /\ WorkersHoldLock'
    BY <1>3
    DEF Begin, Goes, memory, locking, LockIsReleased, LoadsAreWaitedFor,
        WorkersHoldLock, Loads, Idle
<1>4. ASSUME NEW c \in Calls, TakeLock(c)
      PROVE  LockIsReleased' /\ LoadsAreWaitedFor' /\ WorkersHoldLock'
    BY <1>4
    DEF TakeLock, Goes, memory, LockIsReleased, LoadsAreWaitedFor,
        WorkersHoldLock, Loads, Idle
<1>5. ASSUME NEW c \in Calls, GiveUp(c)
      PROVE  LockIsReleased' /\ LoadsAreWaitedFor' /\ WorkersHoldLock'
    BY <1>5
    DEF GiveUp, Goes, memory, locking, LockIsReleased, LoadsAreWaitedFor,
        WorkersHoldLock, Loads, Idle
<1>6. ASSUME NEW c \in Calls, FindStale(c)
      PROVE  LockIsReleased' /\ LoadsAreWaitedFor' /\ WorkersHoldLock'
    BY <1>6
    DEF FindStale, Goes, memory, locking, LockIsReleased, LoadsAreWaitedFor,
        WorkersHoldLock, Loads, Idle
<1>7. ASSUME NEW c \in Calls, Evict(c)
      PROVE  LockIsReleased' /\ LoadsAreWaitedFor' /\ WorkersHoldLock'
    BY <1>7
    DEF Evict, Goes, Unlink, Upset, memory, LockIsReleased, LoadsAreWaitedFor,
        WorkersHoldLock, Loads, Idle
<1>8. ASSUME NEW c \in Calls, Release(c)
      PROVE  LockIsReleased' /\ LoadsAreWaitedFor' /\ WorkersHoldLock'
    BY <1>8
    DEF Release, Goes, Unlink, Upset, memory, LockIsReleased,
        LoadsAreWaitedFor, WorkersHoldLock, Loads, Idle
<1>9. ASSUME NEW c \in Calls, ReadStore(c)
      PROVE  LockIsReleased' /\ LoadsAreWaitedFor' /\ WorkersHoldLock'
    BY <1>9
    DEF ReadStore, Goes, memory, locking, LockIsReleased, LoadsAreWaitedFor,
        WorkersHoldLock, Loads, Idle
<1>10. ASSUME NEW c \in Calls, LeaveAlone(c)
       PROVE  LockIsReleased' /\ LoadsAreWaitedFor' /\ WorkersHoldLock'
    BY <1>10
    DEF LeaveAlone, Goes, memory, locking, LockIsReleased, LoadsAreWaitedFor,
        WorkersHoldLock, Loads, Idle
<1>11. ASSUME NEW c \in Calls, StartSave(c)
       PROVE  LockIsReleased' /\ LoadsAreWaitedFor' /\ WorkersHoldLock'
    BY <1>11
    DEF StartSave, Goes, locking, LockIsReleased, LoadsAreWaitedFor,
        WorkersHoldLock, Loads, Idle
<1>12. ASSUME NEW c \in Calls, RotateSessionFile(c)
       PROVE  LockIsReleased' /\ LoadsAreWaitedFor' /\ WorkersHoldLock'
    BY <1>12
    DEF RotateSessionFile, NoFile, memory, locking, LockIsReleased,
        LoadsAreWaitedFor, WorkersHoldLock, Loads, Idle
<1>13. ASSUME NEW c \in Calls, Replace(c)
       PROVE  LockIsReleased' /\ LoadsAreWaitedFor' /\ WorkersHoldLock'
    BY <1>13
    DEF Replace, Goes, Upset, memory, locking, LockIsReleased,
        LoadsAreWaitedFor, WorkersHoldLock, Loads, Idle
<1>14. ASSUME NEW c \in Calls, WriteFails(c)
       PROVE  LockIsReleased' /\ LoadsAreWaitedFor' /\ WorkersHoldLock'
    BY <1>14
    DEF WriteFails, Goes, Upset, Halfway, memory, locking, LockIsReleased,
        LoadsAreWaitedFor, WorkersHoldLock, Loads, Idle
<1>15. ASSUME NEW p \in Processes, EndLoad(p)
       PROVE  LockIsReleased' /\ LoadsAreWaitedFor' /\ WorkersHoldLock'
    BY <1>15
    DEF EndLoad, Loaded, Loads, Goes, Upset, locking, LockIsReleased,
        LoadsAreWaitedFor, WorkersHoldLock, Idle
<1>16. ASSUME NEW p \in Processes, Crash(p)
       PROVE  LockIsReleased' /\ LoadsAreWaitedFor' /\ WorkersHoldLock'
    BY <1>16
    DEF Crash, Upset, Halfway, locking, LockIsReleased, LoadsAreWaitedFor,
        WorkersHoldLock, Loads, Idle
<1>17. CASE LockAges
    BY <1>17
    DEF LockAges, memory, LockIsReleased, LoadsAreWaitedFor, WorkersHoldLock,
        Loads, Idle
<1>18. CASE UNCHANGED vars
    BY <1>18
    DEF vars, memory, locking, LockIsReleased, LoadsAreWaitedFor,
        WorkersHoldLock, Loads, Idle
<1>. QED
    BY <1>1, <1>2, <1>3, <1>4, <1>5, <1>6, <1>7, <1>8, <1>9, <1>10, <1>11,
       <1>12, <1>13, <1>14, <1>15, <1>16, <1>17, <1>18
    DEF Next

\* Every step keeps the writers done and the times in order.
LEMMA WritersKept ==
    ASSUME TypeOK, LockIsReleased, LoadsAreWaitedFor, WritersAreDone, [Next]_vars
    PROVE  WritersAreDone'
<1>. USE StoreAssumption DEF TypeOK, AtWork, Kinds, Phases, Store
<1>1. ASSUME NEW c \in Calls, LoadCached(c) PROVE WritersAreDone'
    BY <1>1
    DEF LoadCached, Loaded, Loads, Goes, locking, memory, WritersAreDone,
        LoadsAreWaitedFor
<1>2. ASSUME NEW c \in Calls, LoadFile(c) PROVE WritersAreDone'
    BY <1>2 DEF LoadFile, Loads, locking, WritersAreDone, LoadsAreWaitedFor
<1>3. ASSUME NEW c \in Calls, Begin(c) PROVE WritersAreDone'
    BY <1>3
    DEF Begin, Goes, memory, locking, WritersAreDone, LoadsAreWaitedFor, Loads
<1>4. ASSUME NEW c \in Calls, TakeLock(c) PROVE WritersAreDone'
    BY <1>4 DEF TakeLock, Goes, memory, WritersAreDone, LoadsAreWaitedFor, Loads
<1>5. ASSUME NEW c \in Calls, GiveUp(c) PROVE WritersAreDone'
    BY <1>5
    DEF GiveUp, Goes, memory, locking, WritersAreDone, LoadsAreWaitedFor,
        Loads
<1>6. ASSUME NEW c \in Calls, FindStale(c) PROVE WritersAreDone'
    BY <1>6
    DEF FindStale, Goes, memory, locking, WritersAreDone, LoadsAreWaitedFor,
        Loads
<1>7. ASSUME NEW c \in Calls, Evict(c) PROVE WritersAreDone'
    BY <1>7
    DEF Evict, Goes, Unlink, Upset, memory, WritersAreDone, LoadsAreWaitedFor,
        Loads
<1>8. ASSUME NEW c \in Calls, Release(c) PROVE WritersAreDone'
    BY <1>8
    DEF Release, Goes, Unlink, Upset, memory, WritersAreDone,
        LoadsAreWaitedFor, Loads
<1>9. ASSUME NEW c \in Calls, ReadStore(c) PROVE WritersAreDone'
    BY <1>9
    DEF ReadStore, Goes, memory, locking, WritersAreDone, LoadsAreWaitedFor,
        Loads
<1>10. ASSUME NEW c \in Calls, LeaveAlone(c) PROVE WritersAreDone'
    BY <1>10
    DEF LeaveAlone, Goes, memory, locking, WritersAreDone, LoadsAreWaitedFor,
        Loads
<1>11. ASSUME NEW c \in Calls, StartSave(c) PROVE WritersAreDone'
    BY <1>11
    DEF StartSave, Goes, locking, WritersAreDone, LoadsAreWaitedFor, Loads
<1>12. ASSUME NEW c \in Calls, RotateSessionFile(c) PROVE WritersAreDone'
    <2>1. Cardinality(written) \in Nat
        BY FS_CardinalityType DEF WritersAreDone
    <2>. QED
        BY <1>12, <2>1
        DEF RotateSessionFile, NoFile, WritersAreDone, memory, locking
<1>13. ASSUME NEW c \in Calls, Replace(c) PROVE WritersAreDone'
    <2>0. c \notin written /\ IsFiniteSet(written)
        BY <1>13 DEF Replace, WritersAreDone
    <2>1. Cardinality(written) \in Nat /\ IsFiniteSet(written \cup {c})
        BY <2>0, FS_CardinalityType, FS_AddElement
    <2>2. Cardinality(written \cup {c}) = Cardinality(written) + 1
        BY <2>0, FS_AddElement
    <2>. QED
        BY <1>13, <2>0, <2>1, <2>2
        DEF Replace, Goes, WritersAreDone, memory, locking
<1>14. ASSUME NEW c \in Calls, WriteFails(c) PROVE WritersAreDone'
    BY <1>14
    DEF WriteFails, Goes, Upset, Halfway, memory, locking, WritersAreDone,
        LoadsAreWaitedFor, Loads
<1>15. ASSUME NEW p \in Processes, EndLoad(p) PROVE WritersAreDone'
    BY <1>15
    DEF EndLoad, Loaded, Loads, Goes, Upset, locking, WritersAreDone,
        LoadsAreWaitedFor
<1>16. ASSUME NEW p \in Processes, Crash(p) PROVE WritersAreDone'
    BY <1>16
    DEF Crash, Upset, Halfway, locking, WritersAreDone, LoadsAreWaitedFor,
        Loads
<1>17. CASE LockAges
    BY <1>17 DEF LockAges, memory, WritersAreDone, LoadsAreWaitedFor, Loads
<1>18. CASE UNCHANGED vars
    BY <1>18 DEF vars, memory, locking, WritersAreDone, LoadsAreWaitedFor, Loads
<1>. QED
    BY <1>1, <1>2, <1>3, <1>4, <1>5, <1>6, <1>7, <1>8, <1>9, <1>10, <1>11,
       <1>12, <1>13, <1>14, <1>15, <1>16, <1>17, <1>18
    DEF Next

\* Without an upset, a step loses no change, and nothing that is read is out of date.
LEMMA UndisturbedKept ==
    ASSUME TypeOK, LockIsReleased, LoadsAreWaitedFor, WorkersHoldLock,
           WritersAreDone, Undisturbed, upsets = {}, upsets' = {}, [Next]_vars
    PROVE  Undisturbed'
<1>. USE StoreAssumption DEF TypeOK, AtWork, Kinds, Phases, Store
<1>1. ASSUME NEW c \in Calls, LoadCached(c) PROVE Undisturbed'
    BY <1>1
    DEF LoadCached, Loaded, Loads, Goes, locking, memory, Undisturbed,
        ChangesSurvive, FileIsThere, CopiesAreFresh, LoadsAreCurrent,
        CachesAreCurrent, Current, LoadsAreWaitedFor, WorkersHoldLock, Idle
<1>2. ASSUME NEW c \in Calls, LoadFile(c) PROVE Undisturbed'
    <2>1. /\ loading' = [loading EXCEPT ![Home[c]] = {[by |-> c, read |-> file]}]
          /\ UNCHANGED <<file, cache, phase, copy, written>>
        BY <1>2 DEF LoadFile
    <2>2. Current(file) /\ \A s \in Store : Current(s)' <=> Current(s)
        BY <2>1 DEF Current, WritersAreDone
    <2>3. ChangesSurvive' /\ FileIsThere' /\ CopiesAreFresh' /\ CachesAreCurrent'
        BY <2>1, <2>2
        DEF Undisturbed, ChangesSurvive, FileIsThere, CopiesAreFresh,
                          CachesAreCurrent
    <2>4. ASSUME NEW q \in Processes, NEW l \in loading'[q]
          PROVE  Current(l.read)' /\ (phase'[l.by] = "locked" => l.read = file')
        <3>1. CASE l \in loading[q]
            BY <2>1, <2>2, <3>1 DEF Undisturbed, LoadsAreCurrent
        <3>2. CASE l = [by |-> c, read |-> file]
            BY <2>1, <2>2, <3>2
        <3>. QED
            BY <2>1, <2>4, <3>1, <3>2
    <2>. QED
        BY <2>3, <2>4 DEF Undisturbed, LoadsAreCurrent
<1>3. ASSUME NEW c \in Calls, Begin(c) PROVE Undisturbed'
    BY <1>3
    DEF Begin, Goes, memory, locking, Undisturbed, ChangesSurvive,
        FileIsThere, CopiesAreFresh, LoadsAreCurrent, CachesAreCurrent,
        Current, LoadsAreWaitedFor, Loads, WorkersHoldLock, Idle
<1>4. ASSUME NEW c \in Calls, TakeLock(c) PROVE Undisturbed'
    BY <1>4
    DEF TakeLock, Goes, memory, Undisturbed, ChangesSurvive, FileIsThere,
        CopiesAreFresh, LoadsAreCurrent, CachesAreCurrent, Current,
        LoadsAreWaitedFor, Loads, WorkersHoldLock, Idle
<1>5. ASSUME NEW c \in Calls, GiveUp(c) PROVE Undisturbed'
    BY <1>5
    DEF GiveUp, Goes, memory, locking, Undisturbed, ChangesSurvive,
        FileIsThere, CopiesAreFresh, LoadsAreCurrent, CachesAreCurrent,
        Current, LoadsAreWaitedFor, Loads, WorkersHoldLock, Idle
<1>6. ASSUME NEW c \in Calls, FindStale(c) PROVE Undisturbed'
    BY <1>6
    DEF FindStale, Goes, memory, locking, Undisturbed, ChangesSurvive,
        FileIsThere, CopiesAreFresh, LoadsAreCurrent, CachesAreCurrent,
        Current, LoadsAreWaitedFor, Loads, WorkersHoldLock, Idle
<1>7. ASSUME NEW c \in Calls, Evict(c) PROVE Undisturbed'
    BY <1>7
    DEF Evict, Goes, Unlink, Upset, memory, Undisturbed, ChangesSurvive,
        FileIsThere, CopiesAreFresh, LoadsAreCurrent, CachesAreCurrent,
        Current, LoadsAreWaitedFor, Loads, WorkersHoldLock, Idle
<1>8. ASSUME NEW c \in Calls, Release(c) PROVE Undisturbed'
    BY <1>8
    DEF Release, Goes, Unlink, Upset, memory, Undisturbed, ChangesSurvive,
        FileIsThere, CopiesAreFresh, LoadsAreCurrent, CachesAreCurrent,
        Current, LoadsAreWaitedFor, Loads, WorkersHoldLock, Idle
<1>9. ASSUME NEW c \in Calls, ReadStore(c) PROVE Undisturbed'
    BY <1>9
    DEF ReadStore, Goes, memory, locking, Undisturbed, ChangesSurvive,
        FileIsThere, CopiesAreFresh, LoadsAreCurrent, CachesAreCurrent,
        Current, LoadsAreWaitedFor, Loads, WorkersHoldLock, Idle
<1>10. ASSUME NEW c \in Calls, LeaveAlone(c) PROVE Undisturbed'
    BY <1>10
    DEF LeaveAlone, Goes, memory, locking, Undisturbed, ChangesSurvive,
        FileIsThere, CopiesAreFresh, LoadsAreCurrent, CachesAreCurrent,
        Current, LoadsAreWaitedFor, Loads, WorkersHoldLock, Idle
<1>11. ASSUME NEW c \in Calls, StartSave(c) PROVE Undisturbed'
    BY <1>11
    DEF StartSave, Goes, locking, Undisturbed, ChangesSurvive, FileIsThere,
        CopiesAreFresh, LoadsAreCurrent, CachesAreCurrent, Current,
        LoadsAreWaitedFor, Loads, WorkersHoldLock, Idle
<1>12. ASSUME NEW c \in Calls, RotateSessionFile(c) PROVE Undisturbed'
    BY <1>12
    DEF RotateSessionFile, NoFile, memory, locking, Undisturbed,
        ChangesSurvive, FileIsThere, CopiesAreFresh, LoadsAreCurrent,
        CachesAreCurrent, Current, LoadsAreWaitedFor, Loads, WorkersHoldLock,
        Idle
<1>13. ASSUME NEW c \in Calls, Replace(c) PROVE Undisturbed'
    <2>1. Cardinality(written) \in Nat /\ c \notin written /\ IsFiniteSet(written)
        BY <1>13, FS_CardinalityType DEF Replace, WritersAreDone
    <2>2. Cardinality(written \cup {c}) = Cardinality(written) + 1
        BY <2>1, FS_AddElement
    <2>3. /\ file' = [has |-> copy[c], time |-> Cardinality(written) + 1]
          /\ written' = written \cup {c} /\ phase[c] = "saving" /\ c \in copy[c]
          /\ phase' = [phase EXCEPT ![c] = "releasing"]
          /\ UNCHANGED <<cache, loading, lock, copy>>
        BY <1>13 DEF Replace, Goes, WritersAreDone, memory, locking
    <2>4. written \subseteq copy[c]
        BY <1>13, <2>3 DEF Replace, Upset, Undisturbed, CopiesAreFresh
    <2>5. \A d \in Calls : phase[d] \in AtWork => d = c
        BY <2>3 DEF WorkersHoldLock, AtWork
    <2>6. ChangesSurvive' /\ FileIsThere'
        BY <2>1, <2>3, <2>4 DEF ChangesSurvive, FileIsThere
    <2>7. CopiesAreFresh'
        BY <2>3, <2>5 DEF CopiesAreFresh, AtWork
    <2>8. ASSUME NEW s \in Store, Current(s) PROVE Current(s)'
        BY <2>1, <2>2, <2>3, <2>8 DEF Current, Store
    <2>9. LoadsAreCurrent'
        BY <2>3, <2>5, <2>8 DEF LoadsAreCurrent, Undisturbed, AtWork
    <2>10. CachesAreCurrent'
        BY <2>3, <2>8 DEF CachesAreCurrent, Undisturbed
    <2>. QED
        BY <2>6, <2>7, <2>9, <2>10 DEF Undisturbed
<1>14. ASSUME NEW c \in Calls, WriteFails(c) PROVE Undisturbed'
    BY <1>14
    DEF WriteFails, Goes, Upset, Halfway, memory, locking, Undisturbed,
        ChangesSurvive, FileIsThere, CopiesAreFresh, LoadsAreCurrent,
        CachesAreCurrent, Current, LoadsAreWaitedFor, Loads, WorkersHoldLock,
        Idle
<1>15. ASSUME NEW p \in Processes, EndLoad(p) PROVE Undisturbed'
    <2>1. PICK l \in loading[p] :
             /\ Loaded(l.by, l.read.has)
             /\ cache' = [cache EXCEPT ![p] =
                 {[l.read EXCEPT !.time = IF file.time = 0 THEN @ ELSE file.time]}]
             /\ Upset("torn", file.time \notin {0, l.read.time})
        BY <1>15 DEF EndLoad
    <2>2. /\ loading' = [loading EXCEPT ![p] = {}]
          /\ UNCHANGED <<file, lock, written>>
        BY <1>15 DEF EndLoad, locking
    <2>3. l.by \in Calls /\ l.read \in Store /\ Loads(l.by) /\ Current(l.read)
        BY DEF LoadsAreWaitedFor, Undisturbed, LoadsAreCurrent
    <2>4. cache' = [cache EXCEPT ![p] = {l.read}]
        <3>1. file.time \in {0, l.read.time}
            BY <2>1 DEF Upset
        <3>2. [l.read EXCEPT !.time = IF file.time = 0 THEN @ ELSE file.time] = l.read
            BY <2>3, <3>1
        <3>. QED
            BY <2>1, <3>2
    <2>5. ChangesSurvive' /\ CachesAreCurrent'
        BY <2>2, <2>3, <2>4
        DEF Undisturbed, ChangesSurvive, CachesAreCurrent, Current
    <2>6. /\ copy' = [copy EXCEPT ![l.by] = l.read.has]
          /\ phase' = [phase EXCEPT ![l.by] =
                 CASE Kind[l.by] = "load" -> "done" [] Kind[l.by] = "save" -> "waiting"
                   [] Kind[l.by] = "patch" -> "read"]
        BY <2>1 DEF Loaded, Goes
    <2>7. FileIsThere'
        BY <2>2, <2>3, <2>6 DEF Undisturbed, FileIsThere, Loads
    <2>8. LoadsAreCurrent'
        BY <2>2, <2>3, <2>6 DEF Undisturbed, LoadsAreCurrent, Current, Loads
    <2>9. Kind[l.by] = "patch" => written \subseteq l.read.has
        <3>1. SUFFICES ASSUME phase[l.by] = "locked"
                       PROVE  written \subseteq file.has
            BY <2>3 DEF Loads, Undisturbed, LoadsAreCurrent
        <3>2. \A d \in Calls : phase[d] # "saving"
            BY <2>3, <3>1 DEF WorkersHoldLock
        <3>. QED
            BY <3>2 DEF Undisturbed, ChangesSurvive, FileIsThere
    <2>10. CopiesAreFresh'
        BY <2>2, <2>3, <2>6, <2>9 DEF Undisturbed, CopiesAreFresh, Loads
    <2>. QED
        BY <2>5, <2>7, <2>8, <2>10 DEF Undisturbed
<1>16. ASSUME NEW p \in Processes, Crash(p) PROVE Undisturbed'
    BY <1>16
    DEF Crash, Upset, Halfway, locking, Undisturbed, ChangesSurvive,
        FileIsThere, CopiesAreFresh, LoadsAreCurrent, CachesAreCurrent,
        Current, LoadsAreWaitedFor, Loads, WorkersHoldLock, Idle
<1>17. CASE LockAges
    BY <1>17
    DEF LockAges, memory, Undisturbed, ChangesSurvive, FileIsThere,
        CopiesAreFresh, LoadsAreCurrent, CachesAreCurrent, Current,
        LoadsAreWaitedFor, Loads, WorkersHoldLock, Idle
<1>18. CASE UNCHANGED vars
    BY <1>18
    DEF vars, memory, locking, Undisturbed, ChangesSurvive, FileIsThere,
        CopiesAreFresh, LoadsAreCurrent, CachesAreCurrent, Current,
        LoadsAreWaitedFor, Loads, WorkersHoldLock, Idle
<1>. QED
    BY <1>1, <1>2, <1>3, <1>4, <1>5, <1>6, <1>7, <1>8, <1>9, <1>10, <1>11,
       <1>12, <1>13, <1>14, <1>15, <1>16, <1>17, <1>18
    DEF Next

-----------------------------------------------------------------------------
(* The theorems.                                                           *)

\* The invariant holds throughout: each part is kept by every step.
LEMMA StoreInvariant == Spec => []StoreInv
<1>1. ASSUME Init PROVE StoreInv
    <2>1. IsFiniteSet({}) /\ Cardinality({}) = 0
        BY FS_EmptySet
    <2>2. TypeOK
        <3>1. file \in Store
            BY <1>1 DEF Init, NoFile, Store
        <3>2. /\ cache \in [Processes -> SUBSET Store]
              /\ loading \in [Processes -> SUBSET [by : Calls, read : Store]]
            BY <1>1 DEF Init
        <3>3. /\ phase \in [Calls -> Phases] /\ copy \in [Calls -> SUBSET Calls]
              /\ crashes \in 0..MaxCrashes
            BY <1>1, StoreAssumption DEF Init, Phases
        <3>. QED
            BY <1>1, <3>1, <3>2, <3>3 DEF Init, TypeOK
    <2>3. WritersAreDone
        BY <1>1, <2>1 DEF Init, NoFile, WritersAreDone
    <2>4. LockIsReleased /\ LoadsAreWaitedFor /\ WorkersHoldLock
        BY <1>1, StoreAssumption
        DEF Init, LockIsReleased, LoadsAreWaitedFor, WorkersHoldLock, AtWork
    <2>5. Undisturbed
        BY <1>1
        DEF Init, NoFile, Undisturbed, ChangesSurvive, FileIsThere, CopiesAreFresh,
            LoadsAreCurrent, CachesAreCurrent
    <2>. QED
        BY <1>1, <2>2, <2>4, <2>5, <2>3 DEF StoreInv
<1>2. ASSUME StoreInv, [Next]_vars PROVE StoreInv'
    <2>1. TypeOK'
        BY <1>2, TypesKept DEF StoreInv, WritersAreDone
    <2>2. LockIsReleased' /\ LoadsAreWaitedFor' /\ WorkersHoldLock'
        BY <1>2, LockKept DEF StoreInv
    <2>3. WritersAreDone'
        BY <1>2, WritersKept DEF StoreInv
    <2>4. upsets \subseteq upsets'
        BY <1>2
        DEF Next, vars, memory, locking, LoadCached, LoadFile, Begin,
            TakeLock,
            GiveUp, FindStale, Evict, Release, Unlink, ReadStore, LeaveAlone, StartSave,
            RotateSessionFile, Replace, WriteFails, EndLoad, Crash, LockAges, Upset
    <2>5. ASSUME upsets' = {} PROVE Undisturbed'
        <3>1. upsets = {} /\ Undisturbed
            BY <1>2, <2>4, <2>5 DEF StoreInv
        <3>. QED
            BY <1>2, <2>5, <3>1, UndisturbedKept DEF StoreInv
    <2>. QED
        BY <2>1, <2>2, <2>3, <2>5 DEF StoreInv
<1>. QED
    BY <1>1, <1>2, PTL DEF Spec

\* The variables of the store keep their types.
THEOREM StoreTypeCorrect == Spec => []TypeOK
<1>1. StoreInv => TypeOK
    BY DEF StoreInv
<1>. QED
    BY <1>1, StoreInvariant, PTL

\* withSessionStoreLock lets one call at a time work on the file, unless a lock
\* file was evicted from a call that was still at work.
THEOREM StoreLockExcludes == Spec => []OneAtWork
<1>1. StoreInv => OneAtWork
    BY DEF StoreInv, WorkersHoldLock, OneAtWork
<1>. QED
    BY <1>1, StoreInvariant, PTL

\* A lock file belongs to a call that works, is about to remove it, or died.
THEOREM StoreLockIsReleased == Spec => []LockIsReleased
<1>1. StoreInv => LockIsReleased
    BY DEF StoreInv
<1>. QED
    BY <1>1, StoreInvariant, PTL

\* The lock keeps calls apart and gives way, whatever they throw.
THEOREM StoreLockIsSound == Spec => []LockIsSound
<1>1. OneAtWork /\ LockIsReleased => LockIsSound
    BY DEF LockIsSound
<1>. QED
    BY <1>1, StoreLockExcludes, StoreLockIsReleased, PTL

\* A change that was written is in the file, unless one of the four upsets
\* happened: with any number of calls of any kind, in any processes.
THEOREM StoreLossHasCause == Spec => []LossHasCause
<1>1. StoreInv => LossHasCause
    BY DEF StoreInv, Undisturbed, LossHasCause
<1>. QED
    BY <1>1, StoreInvariant, PTL
=============================================================================
