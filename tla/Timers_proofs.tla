---------------------------- MODULE Timers_proofs ----------------------------
(***************************************************************************)
(* Proofs about the two parts of the gateway that timers drive: the cron   *)
(* service (CronService), for any jobs, services and bounds, and then the  *)
(* heartbeat (Heartbeat, by an instance), for any agents and events.       *)
(***************************************************************************)
EXTENDS CronService, Heartbeat, FiniteSetTheorems, TLAPS

-----------------------------------------------------------------------------
(* The cron service: the invariant.                                        *)

\* An enabled job without a next run is a one-shot job that is done:
\* maintenance gives it none either, so it makes no work without a timer.
Settled(j, r) == r.enabled /\ r.next = None => Kind[j] # "every" /\ r.ok
StoreSettled(store) == \A j \in Jobs : store[j] # NoJob => Settled(j, store[j])
JobsSettled == StoreSettled(disk) /\ \A s \in Services : StoreSettled(mem[s])

\* A service that is not up does nothing, a tick has jobs while it runs them,
\* and a service that a reload started has a timer only once it is ready.
\* (The handlers set the timer of the first one earlier.)
Down == {"off", "loading"}
ServiceOK(s) ==
    /\ tick[s].at # "run" => tick[s].todo = {} /\ tick[s].results = {}
    /\ phase[s] \in Down => tick[s].at = "idle" /\ ~timer[s] /\ missed[s] = {}
    /\ s # Primary /\ phase[s] # "ready" => tick[s].at = "idle" /\ ~timer[s]

\* Executions belong to what made them; the lock admits one manual run.
ExecutionOK(e) ==
    /\ phase[e.svc] \notin Down
    /\ e.by = "tick" => tick[e.svc].at = "run"
    /\ e.by = "catchup" => phase[e.svc] = "catchup"
    /\ e.by = "manual" => manual = Primary /\ e.svc = Primary
ExecutionsOK ==
    /\ \A e \in exec : ExecutionOK(e)
    /\ \A e, f \in exec : e.by = "manual" /\ f.by = "manual" => e = f

\* A tick has each of its jobs once: still to run, executing, or with a result.
TickOK(s) ==
    /\ tick[s].todo \cap Resulted(s) = {}
    /\ \A e \in Of(s, "tick") : e.job \notin tick[s].todo \cup Resulted(s)
    /\ \A e, f \in Of(s, "tick") : e.job = f.job => e = f
TickJobs == tick[Primary].todo \cup Resulted(Primary) \cup {e.job : e \in Of(Primary, "tick")}

\* Another service comes up only by a reload, which stops the first one.
ReloadsStop ==
    /\ \A s \in stopped : phase[s] # "off"
    /\ \A s \in Services \ {Primary} : phase[s] # "off" => Primary \in stopped

\* The stores: they are typed, and have only jobs that were added.
StoresOK ==
    /\ disk \in StoreType /\ mem \in [Services -> StoreType] /\ JobsSettled
    /\ \A j \in Jobs \ created : disk[j] = NoJob /\ \A s \in Services : mem[s][j] = NoJob

\* The rest of the types, and the jobs that the rest knows of.
RestTyped ==
    /\ now \in 0..MaxNow
    /\ phase \in [Services -> {"off", "loading", "catchup", "ready"}]
    /\ missed \in [Services -> SUBSET Jobs] /\ fresh \in [Services -> BOOLEAN]
    /\ tick \in [Services -> TickType]
    /\ timer \in [Services -> BOOLEAN]
    /\ manual \in Services \cup {None}
    /\ exec \subseteq Execution
    /\ created \subseteq Jobs /\ stopped \subseteq Services
    /\ faults \in 0..MaxFaults
    /\ finished \in [Jobs -> Times \cup {None}]
    /\ exposed \subseteq Jobs /\ lost \subseteq Jobs
JobsKnown ==
    \A j \in Jobs \ created :
        /\ \A s \in Services : j \notin missed[s] \cup tick[s].todo \cup Resulted(s)
        /\ j \notin Executing /\ finished[j] = None

LifeInv ==
    /\ StoresOK /\ RestTyped /\ JobsKnown /\ ExecutionsOK /\ ReloadsStop
    /\ \A s \in Services : ServiceOK(s) /\ TickOK(s)

\* The rest is about a service that no reload has stopped: it has the file to
\* itself.
Alone == stopped = {}

\* Its memory differs from the file by markers at most.
SameJobs(a, b) ==
    \A j \in Jobs : /\ a[j] = NoJob <=> b[j] = NoJob
                    /\ a[j] # NoJob => /\ a[j].enabled = b[j].enabled
                                       /\ a[j].next = b[j].next
                                       /\ a[j].lastRun = b[j].lastRun
MemoryFollowsFile == Loaded(Primary) => SameJobs(mem[Primary], disk)

\* A marker has an owner, in the file and in memory.
Owned(store) ==
    \A j \in Jobs : store[j] # NoJob /\ store[j].running # None => j \in Underway \cup lost
MarkersOwned == Loaded(Primary) => Owned(disk) /\ Owned(mem[Primary])

\* And a job of the tick has its marker, in the file and in memory, unless it
\* was taken away: a manual run finds it.
Marks(store, js) == \A j \in js : store[j] # NoJob => store[j].running # None
TickJobsMarked ==
    /\ Marks(disk, TickJobs \ exposed) /\ Marks(mem[Primary], TickJobs \ exposed)
    /\ \A e \in exec : e.by = "manual" => e.job \notin TickJobs \ exposed
    /\ fresh[Primary] => TickJobs = {}

\* The file has what ended last, or the tick has it among its results.
Recorded ==
    /\ \A j \in Jobs : (j \notin Resulted(Primary) \cup lost \cup exposed /\ disk[j] # NoJob) =>
          disk[j].lastRun = finished[j]
    /\ \A res \in tick[Primary].results : res.job \notin lost \cup exposed =>
          finished[res.job] = res.start

AloneInv == Alone => MemoryFollowsFile /\ MarkersOwned /\ TickJobsMarked /\ Recorded

\* The first service has a timer if it has work; one that a reload started has
\* one all through its ticks, also if it has none.
TimersSet ==
    /\ SchedulerGoesOn
    /\ \A s \in Services \ {Primary} :
          (s \notin stopped /\ tick[s].at \in {"collect", "run"}) => timer[s]

CronInv == LifeInv /\ AloneInv /\ TimersSet

-----------------------------------------------------------------------------
(* What jobs.ts does to one job.                                           *)

\* Maintenance keeps a job, its last run, and its next run if it has one; a
\* marker it may take away.
LEMMA MaintainedFacts ==
    ASSUME now \in Nat, NEW j \in Jobs, NEW r \in JobType, Settled(j, r)
    PROVE  /\ Maintained(j, r) \in JobType
           /\ Maintained(j, r).enabled = r.enabled
           /\ Maintained(j, r).lastRun = r.lastRun
           /\ Maintained(j, r).running \in {None, r.running}
           /\ r.enabled => Maintained(j, r).next = r.next
           /\ Settled(j, Maintained(j, r))
<1> DEFINE n == Normalized(r)
<1>1. /\ n \in JobType /\ n.enabled = r.enabled /\ n.lastRun = r.lastRun /\ n.ok = r.ok
      /\ n.running \in {None, r.running} /\ (r.enabled => n.next = r.next)
    BY DEF Normalized, JobType, Times
<1>2. n.enabled /\ n.next = None => NextRun(j, n, now) = None
    BY <1>1, CronAssumption DEF NextRun, Settled
<1>. HIDE DEF n
<1>3. Maintained(j, r) =
         IF n.enabled /\ n.next = None THEN [n EXCEPT !.next = NextRun(j, n, now)] ELSE n
    BY DEF Maintained, n
<1>4. Maintained(j, r) = n
    <2>1. CASE n.enabled /\ n.next = None
        <3>1. [n EXCEPT !.next = None] = n
            BY <1>1, <2>1 DEF JobType
        <3>2. QED
            BY <1>2, <1>3, <2>1, <3>1
    <2>2. CASE ~(n.enabled /\ n.next = None)
        BY <1>3, <2>2
    <2>. QED
        BY <2>1, <2>2
<1>. QED
    BY <1>1, <1>4 DEF Settled

\* The next run of an enabled job, unless it is a one-shot job that is done.
LEMMA NextRunFacts ==
    ASSUME NEW t \in Nat, NEW j \in Jobs, NEW r \in JobType
    PROVE  /\ NextRun(j, r, t) \in Nat \cup {None}
           /\ r.enabled /\ NextRun(j, r, t) = None => Kind[j] # "every" /\ r.ok
<1>1. At[j] \in Nat /\ t + 1 \in Nat /\ r.enabled \in BOOLEAN /\ None \notin Nat
    BY CronAssumption DEF JobType
<1>2. CASE ~r.enabled
    BY <1>2 DEF NextRun
<1>3. CASE r.enabled /\ Kind[j] = "every"
    BY <1>1, <1>3 DEF NextRun
<1>4. CASE r.enabled /\ Kind[j] # "every"
    BY <1>1, <1>4 DEF NextRun
<1>. QED
    BY <1>1, <1>2, <1>3, <1>4

\* A recomputation keeps a job and its last run.
LEMMA RecomputedFacts ==
    ASSUME now \in Nat, NEW j \in Jobs, NEW r \in JobType, Settled(j, r)
    PROVE  /\ Recomputed(j, r) \in JobType
           /\ Recomputed(j, r).lastRun = r.lastRun
           /\ Recomputed(j, r).running \in {None, r.running}
           /\ Settled(j, Recomputed(j, r))
<1> DEFINE n == Normalized(r)
<1>1. /\ n \in JobType /\ n.enabled = r.enabled /\ n.lastRun = r.lastRun /\ n.ok = r.ok
      /\ n.running \in {None, r.running} /\ (r.enabled => n.next = r.next)
    BY DEF Normalized, JobType, Times
<1>. HIDE DEF n
<1>2. /\ NextRun(j, n, now) \in Nat \cup {None}
      /\ n.enabled /\ NextRun(j, n, now) = None => Kind[j] # "every" /\ n.ok
    BY <1>1, NextRunFacts
<1>3. Recomputed(j, r) =
         IF n.enabled /\ (n.next = None \/ Due(n))
         THEN [n EXCEPT !.next = NextRun(j, n, now)] ELSE n
    BY DEF Recomputed, n
<1>4. CASE n.enabled /\ (n.next = None \/ Due(n))
    <2>1. Recomputed(j, r) = [n EXCEPT !.next = NextRun(j, n, now)]
        BY <1>3, <1>4
    <2>. QED
        BY <1>1, <1>2, <2>1 DEF JobType, Times, Settled
<1>5. CASE ~(n.enabled /\ (n.next = None \/ Due(n)))
    <2>1. Recomputed(j, r) = n
        BY <1>3, <1>5
    <2>. QED
        BY <1>1, <2>1 DEF Settled
<1>. QED
    BY <1>4, <1>5

\* A result takes the marker away and is the job's last run.
LEMMA AppliedFacts ==
    ASSUME NEW j \in Jobs, NEW r \in JobType, NEW res \in Result
    PROVE  /\ Applied(j, r, res) \in JobType
           /\ Applied(j, r, res).running = None
           /\ Applied(j, r, res).lastRun = res.start
           /\ Settled(j, Applied(j, r, res))
<1> DEFINE a == Applied(j, r, res)
           oneShot == Kind[j] # "every"
           retried == oneShot /\ MayTryAgain(j, r, res)
           next == CASE retried -> BackedOff(res)
                     [] oneShot /\ ~retried -> None
                     [] ~oneShot /\ ~r.enabled -> None
                     [] ~oneShot /\ r.enabled /\ Failed(res.status) -> BackedOff(res)
                     [] ~oneShot /\ r.enabled /\ ~Failed(res.status) -> res.end + 1
           enables == r.enabled /\ (oneShot => retried)
<1>1. /\ res.start \in Nat /\ res.end \in Nat /\ r.enabled \in BOOLEAN /\ r.errors \in 0..(MaxRetries + 1)
      /\ Backoff \in Nat /\ MaxRetries \in Nat /\ None \notin Nat
    BY CronAssumption DEF Result, JobType, Times
<1>2. BackedOff(res) \in Nat /\ res.end + 1 \in Nat
    BY <1>1 DEF BackedOff
<1>3. a = [r EXCEPT !.running = None, !.ok = (res.status = "ok"), !.lastRun = res.start,
                    !.errors = Errors(j, r, res.status), !.enabled = enables, !.next = next]
    BY DEF Applied
<1>4. Errors(j, r, res.status) \in 0..(MaxRetries + 1)
    BY <1>1 DEF Errors
<1>. HIDE DEF a, retried
<1>5. next \in Nat \cup {None} /\ (enables /\ next = None => FALSE)
    <2>1. CASE oneShot /\ retried
        BY <1>1, <1>2, <2>1
    <2>2. CASE oneShot /\ ~retried
        BY <1>1, <1>2, <2>2
    <2>3. CASE ~oneShot /\ ~r.enabled
        BY <1>1, <1>2, <2>3 DEF retried
    <2>4. CASE ~oneShot /\ r.enabled
        BY <1>1, <1>2, <2>4 DEF retried
    <2>. QED
        BY <1>1, <2>1, <2>2, <2>3, <2>4
<1>6. enables \in BOOLEAN
    BY <1>1
<1>. HIDE DEF next, enables, oneShot
<1>. QED
    BY <1>1, <1>3, <1>4, <1>5, <1>6 DEF JobType, Times, Settled, a

-----------------------------------------------------------------------------
(* What the sections do to all the jobs.                                   *)

\* The store has the same jobs with the same last runs, and no new marker.
Milder(old, new) ==
    \A j \in Jobs :
        /\ new[j] = NoJob <=> old[j] = NoJob
        /\ old[j] # NoJob => /\ new[j].lastRun = old[j].lastRun
                             /\ new[j].running \in {None, old[j].running}
Typed(store) == store \in StoreType /\ StoreSettled(store)

\* What a store holds.
LEMMA TypedFacts ==
    ASSUME NEW store, Typed(store), NEW j \in Jobs
    PROVE  store[j] # NoJob => store[j] \in JobType /\ Settled(j, store[j])
BY DEF Typed, StoreType, StoreSettled

\* Maintenance of all the jobs; the jobs that make work stay the same.
LEMMA MaintenanceFacts ==
    ASSUME now \in Nat, NEW store, Typed(store)
    PROVE  /\ Typed(Maintenance(store)) /\ Milder(store, Maintenance(store))
           /\ HasWork(Maintenance(store)) <=> HasWork(store)
<1> DEFINE new == Maintenance(store)
<1>1. ASSUME NEW j \in Jobs
      PROVE  /\ new[j] \in JobType \cup {NoJob}
             /\ new[j] = NoJob <=> store[j] = NoJob
             /\ store[j] # NoJob =>
                   /\ new[j].lastRun = store[j].lastRun
                   /\ new[j].running \in {None, store[j].running}
                   /\ Settled(j, new[j])
                   /\ new[j].enabled = store[j].enabled
                   /\ new[j].enabled => new[j].next = store[j].next
    <2>1. new[j] = IF store[j] = NoJob THEN NoJob ELSE Maintained(j, store[j])
        BY DEF Maintenance
    <2>2. CASE store[j] = NoJob
        BY <2>1, <2>2
    <2>3. CASE store[j] # NoJob
        <3>1. store[j] \in JobType /\ Settled(j, store[j])
            BY <2>3, TypedFacts
        <3>2. new[j] = Maintained(j, store[j])
            BY <2>1, <2>3
        <3>. HIDE DEF new
        <3>3. /\ new[j] \in JobType
              /\ new[j].lastRun = store[j].lastRun
              /\ new[j].running \in {None, store[j].running}
              /\ Settled(j, new[j])
              /\ new[j].enabled = store[j].enabled
              /\ store[j].enabled => new[j].next = store[j].next
            BY <3>1, <3>2, MaintainedFacts
        <3>. QED
            BY <2>3, <3>3, NoJobAssumption
    <2>. QED
        BY <2>2, <2>3
<1>2. new = [j \in Jobs |-> new[j]]
    BY DEF Maintenance
<1>. HIDE DEF new
<1>3. Typed(new)
    BY <1>1, <1>2 DEF Typed, StoreType, StoreSettled
<1>4. Milder(store, new)
    BY <1>1 DEF Milder
<1>5. HasWork(new) <=> HasWork(store)
    BY <1>1 DEF HasWork
<1>. QED
    BY <1>3, <1>4, <1>5 DEF new

\* A recomputation of all the jobs.
LEMMA RecomputeFacts ==
    ASSUME now \in Nat, NEW store, Typed(store)
    PROVE  Typed(Recompute(store)) /\ Milder(store, Recompute(store))
<1> DEFINE new == Recompute(store)
<1>1. ASSUME NEW j \in Jobs
      PROVE  /\ new[j] \in JobType \cup {NoJob}
             /\ new[j] = NoJob <=> store[j] = NoJob
             /\ store[j] # NoJob =>
                   /\ new[j].lastRun = store[j].lastRun
                   /\ new[j].running \in {None, store[j].running}
                   /\ Settled(j, new[j])
    <2>1. new[j] = IF store[j] = NoJob THEN NoJob ELSE Recomputed(j, store[j])
        BY DEF Recompute
    <2>2. CASE store[j] = NoJob
        BY <2>1, <2>2
    <2>3. CASE store[j] # NoJob
        <3>1. store[j] \in JobType /\ Settled(j, store[j])
            BY <2>3, TypedFacts
        <3>2. new[j] = Recomputed(j, store[j])
            BY <2>1, <2>3
        <3>. HIDE DEF new
        <3>3. /\ new[j] \in JobType
              /\ new[j].lastRun = store[j].lastRun
              /\ new[j].running \in {None, store[j].running}
              /\ Settled(j, new[j])
            BY <3>1, <3>2, RecomputedFacts
        <3>. QED
            BY <2>3, <3>3, NoJobAssumption
    <2>. QED
        BY <2>2, <2>3
<1>2. new = [j \in Jobs |-> new[j]]
    BY DEF Recompute
<1>. HIDE DEF new
<1>. QED
    BY <1>1, <1>2 DEF new, Typed, StoreType, StoreSettled, Milder

\* The start forgets the markers of a process that died.
LEMMA UnmarkedFacts ==
    ASSUME NEW store, Typed(store)
    PROVE  /\ Typed(Unmarked(store)) /\ Milder(store, Unmarked(store))
           /\ \A j \in Jobs : Unmarked(store)[j] # NoJob => Unmarked(store)[j].running = None
<1> DEFINE new == Unmarked(store)
<1>1. ASSUME NEW j \in Jobs
      PROVE  /\ new[j] \in JobType \cup {NoJob}
             /\ new[j] = NoJob <=> store[j] = NoJob
             /\ store[j] # NoJob => /\ new[j].lastRun = store[j].lastRun
                                    /\ new[j].running = None
                                    /\ Settled(j, new[j])
    <2>1. new[j] = IF store[j] = NoJob THEN NoJob ELSE [store[j] EXCEPT !.running = None]
        BY DEF Unmarked
    <2>2. CASE store[j] = NoJob
        BY <2>1, <2>2
    <2>3. CASE store[j] # NoJob
        <3>1. store[j] \in JobType /\ Settled(j, store[j])
            BY <2>3, TypedFacts
        <3>2. new[j] = [store[j] EXCEPT !.running = None]
            BY <2>1, <2>3
        <3>. HIDE DEF new
        <3>. QED
            BY <2>3, <3>1, <3>2, NoJobAssumption DEF JobType, Settled
    <2>. QED
        BY <2>2, <2>3
<1>2. new = [j \in Jobs |-> new[j]]
    BY DEF Unmarked
<1>. HIDE DEF new
<1>. QED
    BY <1>1, <1>2 DEF new, Typed, StoreType, StoreSettled, Milder

\* The jobs that a tick takes up get their markers, and nothing else changes.
LEMMA CollectedFacts ==
    ASSUME now \in Nat, NEW store, Typed(store),
           NEW js \in SUBSET Jobs, \A j \in js : store[j] # NoJob
    PROVE  /\ Typed(Collected(js, store)) /\ SameJobs(Collected(js, store), store)
           /\ \A j \in js : Collected(js, store)[j].running # None
           /\ \A j \in Jobs \ js : Collected(js, store)[j] = store[j]
<1> DEFINE new == Collected(js, store)
<1>1. ASSUME NEW j \in Jobs
      PROVE  /\ new[j] \in JobType \cup {NoJob}
             /\ new[j] = NoJob <=> store[j] = NoJob
             /\ store[j] # NoJob => /\ new[j].lastRun = store[j].lastRun
                                    /\ new[j].enabled = store[j].enabled
                                    /\ new[j].next = store[j].next
                                    /\ Settled(j, new[j])
             /\ j \in js => new[j].running # None
             /\ j \notin js => new[j] = store[j]
    <2>1. new[j] = IF j \in js THEN [store[j] EXCEPT !.running = now] ELSE store[j]
        BY DEF Collected
    <2>2. store[j] # NoJob => store[j] \in JobType /\ Settled(j, store[j])
        BY TypedFacts
    <2>3. CASE j \notin js
        BY <2>1, <2>2, <2>3
    <2>4. CASE j \in js
        <3>1. store[j] # NoJob /\ new[j] = [store[j] EXCEPT !.running = now]
            BY <2>1, <2>4
        <3>. HIDE DEF new
        <3>. QED
            BY <2>2, <2>4, <3>1, NoJobAssumption, CronAssumption DEF JobType, Times, Settled
    <2>. QED
        BY <2>3, <2>4
<1>2. new = [j \in Jobs |-> new[j]]
    BY DEF Collected
<1>. HIDE DEF new
<1>3. Typed(new)
    BY <1>1, <1>2 DEF Typed, StoreType, StoreSettled
<1>4. SameJobs(new, store)
    BY <1>1 DEF SameJobs
<1>. QED
    BY <1>1, <1>3, <1>4 DEF new

\* A result reaches its job, if the job is still there.
LEMMA OutcomeFacts ==
    ASSUME NEW store, Typed(store), NEW j \in Jobs, NEW res \in Result
    PROVE  /\ Outcome(store, j, res) \in JobType \cup {NoJob}
           /\ store[j] = NoJob => Outcome(store, j, res) = NoJob
           /\ Outcome(store, j, res) # NoJob =>
                 /\ Outcome(store, j, res).running = None
                 /\ Outcome(store, j, res).lastRun = res.start
                 /\ Settled(j, Outcome(store, j, res))
<1>1. CASE store[j] = NoJob \/ Deletes(j, res)
    BY <1>1 DEF Outcome
<1>2. CASE ~(store[j] = NoJob \/ Deletes(j, res))
    <2>1. Outcome(store, j, res) = Applied(j, store[j], res)
        BY <1>2 DEF Outcome
    <2>2. store[j] \in JobType
        BY <1>2, TypedFacts
    <2>. QED
        BY <1>2, <2>1, <2>2, AppliedFacts
<1>. QED
    BY <1>1, <1>2

\* One job of a store is replaced.
LEMMA ReplacedFacts ==
    ASSUME NEW store, Typed(store), NEW j \in Jobs, NEW r \in JobType \cup {NoJob},
           r # NoJob => Settled(j, r)
    PROVE  /\ Typed([store EXCEPT ![j] = r]) /\ [store EXCEPT ![j] = r][j] = r
           /\ \A k \in Jobs \ {j} : [store EXCEPT ![j] = r][k] = store[k]
BY DEF Typed, StoreType, StoreSettled

\* The results of a tick reach their jobs.
LEMMA ResultingFacts ==
    ASSUME NEW store, Typed(store), NEW s \in Services, tick[s].results \subseteq Result
    PROVE  /\ Typed(Resulting(s, store))
           /\ \A j \in Jobs \ Resulted(s) : Resulting(s, store)[j] = store[j]
           /\ \A j \in Jobs : store[j] = NoJob => Resulting(s, store)[j] = NoJob
           /\ \A j \in Resulted(s) : Resulting(s, store)[j] # NoJob =>
                 /\ Resulting(s, store)[j].running = None
                 /\ \E res \in tick[s].results :
                       res.job = j /\ Resulting(s, store)[j].lastRun = res.start
<1> DEFINE new == Resulting(s, store)
           the(j) == CHOOSE res \in tick[s].results : res.job = j
<1>1. ASSUME NEW j \in Jobs
      PROVE  /\ new[j] \in JobType \cup {NoJob}
             /\ new[j] # NoJob => Settled(j, new[j])
             /\ j \notin Resulted(s) => new[j] = store[j]
             /\ store[j] = NoJob => new[j] = NoJob
             /\ j \in Resulted(s) /\ new[j] # NoJob =>
                   /\ new[j].running = None
                   /\ the(j) \in tick[s].results /\ the(j).job = j
                   /\ new[j].lastRun = the(j).start
    <2>1. CASE j \in Resulted(s)
        <3>1. the(j) \in tick[s].results /\ the(j).job = j
            BY <2>1 DEF Resulted
        <3>2. new[j] = Outcome(store, j, the(j))
            BY <2>1 DEF Resulting, Resulted
        <3>. HIDE DEF new, the
        <3>. QED
            BY <2>1, <3>1, <3>2, OutcomeFacts
    <2>2. CASE j \notin Resulted(s)
        <3>1. new[j] = store[j]
            BY <2>2 DEF Resulting, Resulted
        <3>2. store[j] \in JobType \cup {NoJob}
            BY DEF Typed, StoreType
        <3>. QED
            BY <2>2, <3>1, <3>2, TypedFacts
    <2>. QED
        BY <2>1, <2>2
<1>2. new = [j \in Jobs |-> new[j]]
    BY DEF Resulting
<1>3. Resulted(s) \subseteq Jobs
    BY DEF Resulted, Result
<1>. HIDE DEF new, the
<1>4. Typed(new)
    BY <1>1, <1>2 DEF Typed, StoreType, StoreSettled
<1>. QED
    BY <1>1, <1>3, <1>4 DEF new

-----------------------------------------------------------------------------
(* The life of the services: every step keeps LifeInv.                     *)

\* What the invariant says of the stores and of a tick.
LEMMA LifeFacts ==
    ASSUME LifeInv
    PROVE  /\ now \in Nat /\ Typed(disk) /\ \A s \in Services : Typed(mem[s])
           /\ \A s \in Services : /\ tick[s] \in TickType /\ tick[s].results \subseteq Result
                                  /\ tick[s].todo \subseteq Jobs /\ Resulted(s) \subseteq Jobs
           /\ \A e \in exec : /\ e \in Execution /\ e.svc \in Services /\ e.job \in Jobs
                              /\ e.start \in Nat /\ e.job \in created
           /\ \A s \in Services : \A j \in missed[s] \cup tick[s].todo \cup Resulted(s) :
                 j \in Jobs /\ j \in created
<1>1. /\ now \in Nat /\ Typed(disk) /\ \A s \in Services : Typed(mem[s])
    BY CronAssumption DEF LifeInv, RestTyped, StoresOK, JobsSettled, Typed
<1>2. \A s \in Services : /\ tick[s] \in TickType /\ tick[s].results \subseteq Result
                          /\ tick[s].todo \subseteq Jobs /\ Resulted(s) \subseteq Jobs
    BY DEF LifeInv, RestTyped, TickType, Resulted, Result
<1>3. \A e \in exec : /\ e \in Execution /\ e.svc \in Services /\ e.job \in Jobs
                      /\ e.start \in Nat /\ e.job \in created
    BY DEF LifeInv, RestTyped, JobsKnown, Executing, Execution, Times
<1>4. \A s \in Services : \A j \in missed[s] \cup tick[s].todo \cup Resulted(s) :
         j \in Jobs /\ j \in created
    BY <1>2 DEF LifeInv, RestTyped, JobsKnown
<1>. QED
    BY <1>1, <1>2, <1>3, <1>4

\* persist writes a store to the file and to the memory of its service.
LEMMA PersistKeepsStores ==
    ASSUME StoresOK, NEW s \in Services, NEW store, Typed(store),
           \A j \in Jobs \ created' : store[j] = NoJob, created \subseteq created',
           Persist(s, store)
    PROVE  /\ StoresOK' /\ disk' = store /\ mem'[s] = store
           /\ \A t \in Services \ {s} : mem'[t] = mem[t]
<1>1. disk' = store /\ mem' = [mem EXCEPT ![s] = store]
    BY DEF Persist
<1>2. /\ mem'[s] = store /\ \A t \in Services \ {s} : mem'[t] = mem[t]
      /\ disk' \in StoreType /\ mem' \in [Services -> StoreType]
    BY <1>1 DEF StoresOK, Typed
<1>3. JobsSettled'
    BY <1>1, <1>2 DEF StoresOK, JobsSettled, Typed
<1>4. \A j \in Jobs \ created' : disk'[j] = NoJob /\ \A t \in Services : mem'[t][j] = NoJob
    BY <1>1, <1>2 DEF StoresOK
<1>. QED
    BY <1>1, <1>2, <1>3, <1>4 DEF StoresOK

\* An execution marks its job in memory, if it has the object.
LEMMA MarkKeepsStores ==
    ASSUME StoresOK, now \in Nat, NEW s \in Services, NEW j \in Jobs, NEW live \in BOOLEAN,
           Mark(s, j, live), UNCHANGED <<disk, created>>
    PROVE  /\ StoresOK' /\ SameJobs(mem'[s], mem[s])
           /\ \A t \in Services \ {s} : mem'[t] = mem[t]
           /\ \A k \in Jobs \ {j} : mem'[s][k] = mem[s][k]
           /\ mem'[s][j] # NoJob /\ mem[s][j].running # None => mem'[s][j].running # None
<1>1. mem \in [Services -> StoreType] /\ mem[s][j] \in JobType \cup {NoJob}
    BY DEF StoresOK, StoreType
<1>2. CASE ~(live /\ mem[s][j] # NoJob)
    <2>1. mem' = mem
        BY <1>2 DEF Mark
    <2>2. StoresOK'
        BY <2>1 DEF StoresOK, JobsSettled, StoreSettled, Settled
    <2>. QED
        BY <2>1, <2>2 DEF SameJobs
<1>3. CASE live /\ mem[s][j] # NoJob
    <2> DEFINE r == [mem[s][j] EXCEPT !.running = now]
    <2>1. mem' = [mem EXCEPT ![s] = [mem[s] EXCEPT ![j] = r]]
        BY <1>1, <1>3 DEF Mark, StoreType
    <2>2. r \in JobType /\ r.running = now /\ r.enabled = mem[s][j].enabled
          /\ r.next = mem[s][j].next /\ r.lastRun = mem[s][j].lastRun /\ r.ok = mem[s][j].ok
        BY <1>1, <1>3 DEF JobType, Times
    <2>. HIDE DEF r
    <2>3. r # NoJob /\ Settled(j, r)
        BY <1>3, <2>2, NoJobAssumption DEF StoresOK, JobsSettled, StoreSettled, Settled
    <2>4. mem[s] \in StoreType
        BY <1>1
    <2>5. /\ mem'[s] = [mem[s] EXCEPT ![j] = r]
          /\ mem'[s][j] = r /\ \A k \in Jobs \ {j} : mem'[s][k] = mem[s][k]
          /\ \A t \in Services \ {s} : mem'[t] = mem[t]
        BY <1>1, <2>1, <2>4 DEF StoreType
    <2>6. mem'[s] \in StoreType
        BY <2>2, <2>4, <2>5 DEF StoreType
    <2>7. mem' \in [Services -> StoreType]
        BY <1>1, <2>1, <2>5, <2>6
    <2>8. SameJobs(mem'[s], mem[s])
        BY <1>3, <2>2, <2>3, <2>5 DEF SameJobs
    <2>9. StoreSettled(mem[s]) /\ \A t \in Services : StoreSettled(mem[t])
        BY DEF StoresOK, JobsSettled
    <2>10. StoreSettled(mem'[s])
        BY <2>3, <2>5, <2>9 DEF StoreSettled
    <2>11. JobsSettled'
        <3>1. \A t \in Services : StoreSettled(mem'[t])
            BY <2>5, <2>9, <2>10
        <3>2. StoreSettled(disk')
            BY DEF StoresOK, JobsSettled
        <3>. QED
            BY <3>1, <3>2 DEF JobsSettled
    <2>12. \A k \in Jobs \ created : \A t \in Services : mem'[t][k] = NoJob
        <3>1. \A k \in Jobs : mem[s][k] = NoJob => mem'[s][k] = NoJob
            BY <2>8 DEF SameJobs
        <3>. QED
            BY <2>5, <3>1 DEF StoresOK
    <2>13. StoresOK'
        BY <2>7, <2>11, <2>12 DEF StoresOK
    <2>14. now # None
        BY CronAssumption
    <2>. QED
        BY <2>2, <2>5, <2>8, <2>13, <2>14
<1>. QED
    BY <1>2, <1>3

\* The history of markers that were taken away.
LEMMA ExposeFacts ==
    ASSUME NEW js \in SUBSET Jobs, exposed \subseteq Jobs, Expose(js)
    PROVE  exposed \subseteq exposed' /\ exposed' \subseteq Jobs /\ js \cap Underway \subseteq exposed'
BY DEF Expose

\* What a section clears of markers is a set of jobs.
LEMMA ClearedTyped ==
    ASSUME NEW old, NEW new
    PROVE  Cleared(old, new) \in SUBSET Jobs
BY DEF Cleared

\* A step that concerns the stores, the clock and the timer of the first
\* service only: maintenance and the operations of clients.
LEMMA QuietStepKeepsLife ==
    ASSUME LifeInv, StoresOK', NEW on \in BOOLEAN,
           UNCHANGED <<phase, missed, fresh, tick, manual, exec, finished, stopped, lost, faults>>,
           timer' = timer \/ (Loaded(Primary) /\ timer' = [timer EXCEPT ![Primary] = on]),
           created \subseteq created', created' \subseteq Jobs, exposed' \subseteq Jobs,
           now' \in 0..MaxNow
    PROVE  LifeInv'
<1>1. /\ RestTyped /\ JobsKnown /\ ExecutionsOK /\ ReloadsStop
      /\ \A s \in Services : ServiceOK(s) /\ TickOK(s)
    BY DEF LifeInv
<1>2. RestTyped'
    BY <1>1 DEF RestTyped
<1>3. /\ Executing' = Executing
      /\ \A s \in Services : Resulted(s)' = Resulted(s) /\ Of(s, "tick")' = Of(s, "tick")
    BY DEF Resulted, Executing, Of
<1>4. JobsKnown'
    <2>1. \A j \in Jobs \ created' : j \in Jobs \ created
        OBVIOUS
    <2>. QED
        BY <1>1, <1>3, <2>1 DEF JobsKnown
<1>5. ExecutionsOK' /\ ReloadsStop'
    BY <1>1 DEF ExecutionsOK, ExecutionOK, ReloadsStop
<1>6. ASSUME NEW s \in Services PROVE ServiceOK(s)' /\ TickOK(s)'
    <2>1. TickOK(s)'
        BY <1>1, <1>3 DEF TickOK
    <2>2. ServiceOK(s)'
        BY <1>1 DEF ServiceOK, Loaded, Down, RestTyped
    <2>. QED
        BY <2>1, <2>2
<1>. QED
    BY <1>2, <1>4, <1>5, <1>6 DEF LifeInv

\* The clock.
LEMMA TimePassesKeepsLife ==
    ASSUME LifeInv, TimePasses
    PROVE  LifeInv'
<1>1. StoresOK'
    BY DEF LifeInv, TimePasses, StoresOK, JobsSettled, StoreSettled, Settled
<1>2. /\ UNCHANGED <<phase, missed, fresh, tick, manual, exec, finished, stopped, lost, faults>>
      /\ UNCHANGED <<timer, created, exposed>>
    BY DEF TimePasses, services, history
<1>4. now' \in 0..MaxNow
    <2>1. now \in 0..MaxNow /\ now < MaxNow /\ now' = now + 1 /\ MaxNow \in Nat
        BY CronAssumption DEF TimePasses, LifeInv, RestTyped
    <2>. QED
        BY <2>1
<1>3. created \subseteq Jobs /\ exposed \subseteq Jobs
    BY DEF LifeInv, RestTyped
<1>. QED
    BY <1>1, <1>2, <1>3, <1>4, QuietStepKeepsLife

\* An operation of a client on the jobs: a locked section with its timer.
LEMMA OpKeepsLife ==
    ASSUME LifeInv, NEW store, Typed(store), Op(store),
           \A j \in Jobs \ created' : store[j] = NoJob,
           created \subseteq created', created' \subseteq Jobs, exposed' \subseteq Jobs,
           UNCHANGED <<now, faults, stopped>>
    PROVE  LifeInv'
<1>1. /\ Persist(Primary, store) /\ Loaded(Primary)
      /\ timer' = [timer EXCEPT ![Primary] = HasWork(store)]
      /\ UNCHANGED <<phase, missed, fresh, tick, manual, exec, finished, lost>>
    BY DEF Op
<1>2. StoresOK'
    BY <1>1, PersistKeepsStores, CronAssumption DEF LifeInv
<1>3. HasWork(store) \in BOOLEAN
    BY DEF HasWork
<1>4. now \in 0..MaxNow
    BY DEF LifeInv, RestTyped
<1>. QED
    BY <1>1, <1>2, <1>3, <1>4, QuietStepKeepsLife

\* A service that a step does not concern stays as it is.
LEMMA OthersKept ==
    ASSUME LifeInv, NEW t \in Services,
           tick'[t] = tick[t], phase'[t] = phase[t], missed'[t] = missed[t], timer'[t] = timer[t],
           Of(t, "tick")' = Of(t, "tick")
    PROVE  ServiceOK(t)' /\ TickOK(t)'
<1>1. ServiceOK(t) /\ TickOK(t)
    BY DEF LifeInv
<1>2. ServiceOK(t)'
    BY <1>1 DEF ServiceOK, Down
<1>3. Resulted(t)' = Resulted(t)
    BY DEF Resulted
<1>4. TickOK(t)'
    BY <1>1, <1>3 DEF TickOK
<1>. QED
    BY <1>2, <1>4

\* The stores stay.
LEMMA StoresStay ==
    ASSUME LifeInv, UNCHANGED <<disk, mem, created>>
    PROVE  StoresOK'
BY DEF LifeInv, StoresOK, JobsSettled, StoreSettled, Settled

\* The start: nothing was up.
LEMMA BootKeepsLife ==
    ASSUME LifeInv, Boot
    PROVE  LifeInv'
<1>1. /\ \A s \in Services : phase[s] = "off"
      /\ phase' = [phase EXCEPT ![Primary] = "loading"]
      /\ UNCHANGED <<disk, mem, missed, fresh, tick, timer, manual, exec>>
      /\ UNCHANGED <<now, created, faults, stopped, finished, exposed, lost>>
    BY DEF Boot, world, history
<1>2. StoresOK'
    BY <1>1, StoresStay
<1>3. exec = {}
    BY <1>1, LifeFacts DEF LifeInv, ExecutionsOK, ExecutionOK, Down
<1>4. ExecutionsOK'
    BY <1>1, <1>3 DEF ExecutionsOK
<1>5. RestTyped'
    BY <1>1 DEF LifeInv, RestTyped
<1>6. Executing' = Executing /\ \A s \in Services : Resulted(s)' = Resulted(s)
    BY <1>1 DEF Executing, Resulted
<1>7. JobsKnown'
    BY <1>1, <1>6 DEF LifeInv, JobsKnown
<1>8. \A s \in Services : s # Primary => phase'[s] = "off"
    BY <1>1 DEF LifeInv, RestTyped
<1>9. ReloadsStop'
    BY <1>1, <1>8 DEF LifeInv, RestTyped, ReloadsStop
<1>10. ASSUME NEW s \in Services PROVE ServiceOK(s)' /\ TickOK(s)'
    <2>1. phase'[s] \in Down /\ phase[s] \in Down
        BY <1>1, <1>8, CronAssumption DEF LifeInv, RestTyped, Down
    <2>2. ServiceOK(s)'
        BY <1>1, <2>1 DEF LifeInv, ServiceOK, Down
    <2>3. TickOK(s)'
        BY <1>1, <1>6 DEF LifeInv, TickOK, Of
    <2>. QED
        BY <2>2, <2>3
<1>. QED
    BY <1>2, <1>4, <1>5, <1>7, <1>9, <1>10 DEF LifeInv

\* A section of a start: the phase of its service advances, and its timer is
\* set at the end.
LEMMA StartSectionKeepsLife ==
    ASSUME LifeInv, NEW s \in Services, NEW store, Typed(store), Milder(disk, store),
           Persist(s, store), Expose(Cleared(disk, store)),
           NEW next \in {"catchup", "ready"}, phase' = [phase EXCEPT ![s] = next],
           next = "catchup" => phase[s] = "loading" /\ UNCHANGED <<tick, timer>>,
           next = "ready" => phase[s] = "catchup" /\ Of(s, "catchup") = {},
           NEW js \in SUBSET Jobs, missed' = [missed EXCEPT ![s] = js],
           \A j \in js : store[j] # NoJob,
           fresh' \in [Services -> BOOLEAN],
           NEW live \in BOOLEAN, tick' = tick \/ tick' = [tick EXCEPT ![s].live = live],
           NEW on \in BOOLEAN, timer' = timer \/ timer' = [timer EXCEPT ![s] = on],
           UNCHANGED <<manual, exec, now, created, faults, stopped, finished, lost>>
    PROVE  LifeInv'
<1>1. \A j \in Jobs \ created : store[j] = NoJob
    BY DEF LifeInv, StoresOK, Milder
<1>2. StoresOK' /\ disk' = store
    BY <1>1, PersistKeepsStores DEF LifeInv
<1>3. /\ RestTyped /\ JobsKnown /\ ExecutionsOK /\ ReloadsStop
      /\ \A t \in Services : ServiceOK(t) /\ TickOK(t)
    BY DEF LifeInv
<1>4. \A t \in Services : /\ tick'[t] \in TickType /\ tick'[t].at = tick[t].at
                          /\ tick'[t].todo = tick[t].todo /\ tick'[t].results = tick[t].results
    BY <1>3 DEF RestTyped, TickType
<1>5. \A t \in Services : Resulted(t)' = Resulted(t) /\ Of(t, "tick")' = Of(t, "tick")
    BY <1>4 DEF Resulted, Of
<1>6. /\ phase'[s] = next /\ \A t \in Services \ {s} : phase'[t] = phase[t]
      /\ missed'[s] = js /\ \A t \in Services \ {s} : missed'[t] = missed[t]
      /\ \A t \in Services \ {s} : timer'[t] = timer[t]
    BY <1>3 DEF RestTyped
<1>7. RestTyped'
    <2>1. tick' \in [Services -> TickType]
        BY <1>3, <1>4 DEF RestTyped
    <2>2. exposed' \subseteq Jobs
        BY <1>3, ExposeFacts, ClearedTyped DEF RestTyped
    <2>3. timer' \in [Services -> BOOLEAN] /\ missed' \in [Services -> SUBSET Jobs]
          /\ phase' \in [Services -> {"off", "loading", "catchup", "ready"}]
        BY <1>3 DEF RestTyped
    <2>. QED
        BY <1>3, <2>1, <2>2, <2>3 DEF RestTyped
<1>8. JobsKnown'
    <2>1. \A j \in Jobs \ created : j \notin js
        BY <1>1
    <2>2. Executing' = Executing
        BY DEF Executing
    <2>. QED
        BY <1>3, <1>4, <1>5, <1>6, <2>1, <2>2 DEF JobsKnown
<1>9. ExecutionsOK'
    <2>1. ASSUME NEW e \in exec PROVE ExecutionOK(e)'
        <3>1. ExecutionOK(e) /\ e.svc \in Services
            BY <1>3, LifeFacts DEF ExecutionsOK
        <3>2. CASE e.svc # s
            BY <1>4, <1>6, <3>1, <3>2 DEF ExecutionOK, Down
        <3>3. CASE e.svc = s
            BY <1>4, <1>6, <3>1, <3>3 DEF ExecutionOK, Down, Of
        <3>. QED
            BY <3>2, <3>3
    <2>. QED
        BY <1>3, <2>1 DEF ExecutionsOK
<1>10. ReloadsStop'
    BY <1>3, <1>6 DEF ReloadsStop
<1>11. ASSUME NEW t \in Services PROVE ServiceOK(t)' /\ TickOK(t)'
    <2>1. TickOK(t)'
        BY <1>3, <1>4, <1>5 DEF TickOK
    <2>2. CASE t # s
        BY <1>3, <1>4, <1>6, <2>1, <2>2 DEF ServiceOK, Down
    <2>3. CASE t = s
        <3>1. next = "catchup" => tick'[s].at = "idle" /\ ~timer'[s]
            BY <1>3 DEF ServiceOK, Down
        <3>. QED
            BY <1>3, <1>4, <1>6, <2>1, <2>3, <3>1 DEF ServiceOK, Down
    <2>. QED
        BY <2>1, <2>2, <2>3
<1>. QED
    BY <1>2, <1>7, <1>8, <1>9, <1>10, <1>11 DEF LifeInv

\* The first section of a start.
LEMMA StartLoadKeepsLife ==
    ASSUME LifeInv, NEW s \in Services, StartLoad(s)
    PROVE  LifeInv'
<1> DEFINE js == {j \in Jobs : /\ Runnable(Unmarked(disk)[j])
                               /\ ~(Kind[j] # "every" /\ disk[j].ok)}
<1>1. Typed(Unmarked(disk)) /\ Milder(disk, Unmarked(disk))
    BY LifeFacts, UnmarkedFacts
<1>2. /\ phase[s] = "loading" /\ phase' = [phase EXCEPT ![s] = "catchup"]
      /\ missed' = [missed EXCEPT ![s] = js]
      /\ fresh' = [fresh EXCEPT ![s] = TRUE]
      /\ UNCHANGED <<tick, timer, manual, exec, now, created, faults, stopped, finished, lost>>
      /\ Persist(s, Unmarked(disk)) /\ Expose(Cleared(disk, Unmarked(disk)))
    BY DEF StartLoad, world
<1>3. \A j \in js : Unmarked(disk)[j] # NoJob
    BY DEF Runnable
<1>4. js \in SUBSET Jobs
    OBVIOUS
<1>5. fresh' \in [Services -> BOOLEAN]
    BY <1>2 DEF LifeInv, RestTyped
<1>. HIDE DEF js
<1>. QED
    BY <1>1, <1>2, <1>3, <1>4, <1>5, StartSectionKeepsLife

\* The last section of a start.
LEMMA StartFinishKeepsLife ==
    ASSUME LifeInv, NEW s \in Services, StartFinish(s)
    PROVE  LifeInv'
<1>1. Typed(Recompute(disk)) /\ Milder(disk, Recompute(disk))
    BY LifeFacts, RecomputeFacts
<1>2. /\ phase[s] = "catchup" /\ Of(s, "catchup") = {} /\ phase' = [phase EXCEPT ![s] = "ready"]
      /\ missed[s] = {} /\ UNCHANGED <<missed, fresh>>
      /\ tick' = [tick EXCEPT ![s].live = FALSE]
      /\ timer' = [timer EXCEPT ![s] = HasWork(Recompute(disk))]
      /\ UNCHANGED <<manual, exec, now, created, faults, stopped, finished, lost>>
      /\ Persist(s, Recompute(disk)) /\ Expose(Cleared(disk, Recompute(disk)))
    BY DEF StartFinish, world
<1>3. missed' = [missed EXCEPT ![s] = {}] /\ fresh' \in [Services -> BOOLEAN]
    BY <1>2 DEF LifeInv, RestTyped
<1>4. HasWork(Recompute(disk)) \in BOOLEAN
    BY DEF HasWork
<1> DEFINE store == Recompute(disk)
<1>5. store = Recompute(disk)
    OBVIOUS
<1>. HIDE DEF store
<1>6. PICK on \in BOOLEAN : on = HasWork(store)
    BY <1>4, <1>5
<1>. QED
    BY <1>1, <1>2, <1>3, <1>5, <1>6, StartSectionKeepsLife

\* What begins, and what ends, is an execution like the others.
LEMMA BeganFacts ==
    ASSUME LifeInv, NEW s \in Services, NEW j \in created, NEW by \in {"tick", "catchup", "manual"},
           Began(s, j, by)
    PROVE  \E e \in Execution :
              /\ e.svc = s /\ e.job = j /\ e.by = by /\ e.start = now /\ exec' = exec \cup {e}
              /\ Executing' = Executing \cup {j}
              /\ \A t \in Services, b \in {"tick", "catchup", "manual"} :
                    Of(t, b)' = IF t = s /\ b = by THEN Of(t, b) \cup {e} ELSE Of(t, b)
<1> DEFINE e == [svc |-> s, job |-> j, by |-> by, start |-> now]
<1>1. e \in Execution
    BY LifeFacts DEF Execution, Times, LifeInv, RestTyped
<1>2. e.svc = s /\ e.job = j /\ e.by = by /\ e.start = now /\ exec' = exec \cup {e}
    BY DEF Began
<1>. HIDE DEF e
<1>3. Executing' = Executing \cup {j}
    BY <1>2 DEF Executing
<1>4. ASSUME NEW t \in Services, NEW b \in {"tick", "catchup", "manual"}
      PROVE  Of(t, b)' = IF t = s /\ b = by THEN Of(t, b) \cup {e} ELSE Of(t, b)
    BY <1>2 DEF Of
<1>. QED
    BY <1>1, <1>2, <1>3, <1>4

\* An execution that ends is gone from the executions and is the last of its job.
LEMMA EndedFacts ==
    ASSUME LifeInv, NEW e \in exec, Ended(e), UNCHANGED <<created, missed>>
    PROVE  /\ exec' = exec \ {e} /\ finished' = [finished EXCEPT ![e.job] = e.start]
           /\ Executing' \subseteq Executing
           /\ finished' \in [Jobs -> Times \cup {None}]
           /\ \A j \in Jobs \ created : finished'[j] = None
           /\ \A t \in Services, b \in {"tick", "catchup", "manual"} :
                    Of(t, b)' = Of(t, b) \ {e}
           /\ \A t \in Services, b \in {"tick", "catchup", "manual"} :
                    e.by # b \/ e.svc # t => Of(t, b)' = Of(t, b)
<1>1. exec' = exec \ {e} /\ finished' = [finished EXCEPT ![e.job] = e.start]
    BY DEF Ended
<1>2. e.job \in Jobs /\ e.start \in Times /\ e.job \in created
    BY LifeFacts DEF Times
<1>3. finished \in [Jobs -> Times \cup {None}] /\ \A j \in Jobs \ created : finished[j] = None
    BY DEF LifeInv, RestTyped, JobsKnown
<1>4. finished' \in [Jobs -> Times \cup {None}] /\ \A j \in Jobs \ created : finished'[j] = None
    BY <1>1, <1>2, <1>3
<1>5. \A t \in Services, b \in {"tick", "catchup", "manual"} : Of(t, b)' = Of(t, b) \ {e}
    BY <1>1 DEF Of
<1>6. \A t \in Services, b \in {"tick", "catchup", "manual"} :
         e.by # b \/ e.svc # t => Of(t, b)' = Of(t, b)
    BY <1>1 DEF Of
<1>7. Executing' \subseteq Executing
    BY <1>1 DEF Executing
<1>. QED
    BY <1>1, <1>4, <1>5, <1>6, <1>7

\* The result that an execution leaves.
LEMMA ResultOfFacts ==
    ASSUME LifeInv, NEW e \in exec, NEW status \in Statuses
    PROVE  /\ ResultOf(e, status) \in Result
           /\ ResultOf(e, status).job = e.job /\ ResultOf(e, status).start = e.start
BY LifeFacts DEF ResultOf, Result, Times

\* What a job may end with is a status.
LEMMA StatusesAreKnown ==
    ASSUME NEW j \in Jobs
    PROVE  StatusesOf(j) \subseteq Statuses
BY DEF StatusesOf, Statuses

\* A catch-up begins to execute one of the jobs it has picked.
LEMMA CatchUpBeginKeepsLife ==
    ASSUME LifeInv, NEW s \in Services, NEW j \in Jobs, CatchUpBegin(s, j)
    PROVE  LifeInv'
<1>1. /\ phase[s] = "catchup" /\ j \in missed[s]
      /\ missed' = [missed EXCEPT ![s] = @ \ {j}]
      /\ Mark(s, j, fresh[s]) /\ Began(s, j, "catchup")
      /\ UNCHANGED <<disk, phase, fresh, tick, timer, manual>>
      /\ UNCHANGED <<now, created, faults, stopped, finished, exposed, lost>>
    BY DEF CatchUpBegin, world, history
<1>2. j \in created /\ now \in Nat
    BY <1>1, LifeFacts
<1>3. StoresOK'
    BY <1>1, <1>2, MarkKeepsStores DEF LifeInv, RestTyped
<1>4. PICK e \in Execution :
          /\ e.svc = s /\ e.job = j /\ e.by = "catchup" /\ exec' = exec \cup {e}
          /\ Executing' = Executing \cup {j}
          /\ \A t \in Services : Of(t, "tick")' = Of(t, "tick")
    BY <1>1, <1>2, BeganFacts
<1>5. /\ RestTyped /\ JobsKnown /\ ExecutionsOK /\ ReloadsStop
      /\ \A t \in Services : ServiceOK(t) /\ TickOK(t)
    BY DEF LifeInv
<1>6. /\ missed' \in [Services -> SUBSET Jobs]
      /\ \A t \in Services : missed'[t] \subseteq missed[t]
    BY <1>1, <1>5 DEF RestTyped
<1>7. RestTyped'
    BY <1>1, <1>4, <1>5, <1>6 DEF RestTyped
<1>8. \A t \in Services : Resulted(t)' = Resulted(t)
    BY <1>1 DEF Resulted
<1>9. JobsKnown'
    BY <1>1, <1>2, <1>4, <1>5, <1>6, <1>8 DEF JobsKnown
<1>10. ExecutionsOK'
    BY <1>1, <1>4, <1>5 DEF ExecutionsOK, ExecutionOK, Down
<1>11. ReloadsStop'
    BY <1>1, <1>5 DEF ReloadsStop
<1>12. ASSUME NEW t \in Services PROVE ServiceOK(t)' /\ TickOK(t)'
    <2>1. ServiceOK(t)'
        BY <1>1, <1>5, <1>6 DEF ServiceOK, Down
    <2>2. TickOK(t)'
        BY <1>1, <1>4, <1>5, <1>8 DEF TickOK
    <2>. QED
        BY <2>1, <2>2
<1>. QED
    BY <1>3, <1>7, <1>9, <1>10, <1>11, <1>12 DEF LifeInv

\* What a catch-up and a manual run write when an execution ends.
LEMMA CatchUpStore ==
    ASSUME LifeInv, NEW s \in Services, NEW j \in Jobs, NEW res \in Result, res.job = j
    PROVE  /\ Typed([mem[s] EXCEPT ![j] = Outcome(mem[s], j, res)])
           /\ [mem[s] EXCEPT ![j] = Outcome(mem[s], j, res)][j] = Outcome(mem[s], j, res)
           /\ \A k \in Jobs \ {j} :
                 [mem[s] EXCEPT ![j] = Outcome(mem[s], j, res)][k] = mem[s][k]
           /\ \A k \in Jobs : mem[s][k] = NoJob =>
                 [mem[s] EXCEPT ![j] = Outcome(mem[s], j, res)][k] = NoJob
<1>1. Typed(mem[s])
    BY LifeFacts
<1>2. PICK r \in JobType \cup {NoJob} : r = Outcome(mem[s], j, res)
    BY <1>1, OutcomeFacts
<1>3. (mem[s][j] = NoJob => r = NoJob) /\ (r # NoJob => Settled(j, r))
    BY <1>1, <1>2, OutcomeFacts
<1>4. /\ Typed([mem[s] EXCEPT ![j] = r]) /\ [mem[s] EXCEPT ![j] = r][j] = r
      /\ \A k \in Jobs \ {j} : [mem[s] EXCEPT ![j] = r][k] = mem[s][k]
    BY <1>1, <1>3, ReplacedFacts
<1>. QED
    BY <1>2, <1>3, <1>4

\* An execution of a catch-up ends.
LEMMA CatchUpEndKeepsLife ==
    ASSUME LifeInv, NEW e \in exec, NEW status \in Statuses, CatchUpEnd(e, status)
    PROVE  LifeInv'
<1> DEFINE s == e.svc
           res == ResultOf(e, status)
           applied == [mem[s] EXCEPT ![e.job] = Outcome(mem[s], e.job, res)]
           done == IF fresh[s] \/ Deletes(e.job, res) THEN applied ELSE mem[s]
<1>1. /\ e.by = "catchup" /\ Ended(e) /\ Persist(s, done)
      /\ lost' = (IF fresh[s] THEN lost ELSE lost \cup {e.job})
      /\ UNCHANGED <<phase, missed, fresh, tick, timer, manual>>
      /\ UNCHANGED <<now, created, faults, stopped, exposed>>
    BY DEF CatchUpEnd, services, world
<1>2. s \in Services /\ e.job \in Jobs /\ e.job \in created /\ res \in Result /\ res.job = e.job
    BY LifeFacts, ResultOfFacts
<1>. HIDE DEF s, res
<1>3. Typed(mem[s]) /\ Typed(applied) /\ \A k \in Jobs : mem[s][k] = NoJob => applied[k] = NoJob
    BY <1>2, CatchUpStore, LifeFacts
<1>. HIDE DEF applied
<1>4. Typed(done) /\ \A k \in Jobs \ created : done[k] = NoJob
    BY <1>2, <1>3 DEF LifeInv, StoresOK
<1>. HIDE DEF done
<1>5. StoresOK'
    BY <1>1, <1>2, <1>4, PersistKeepsStores DEF LifeInv
<1>6. /\ exec' = exec \ {e} /\ Executing' \subseteq Executing
      /\ finished' \in [Jobs -> Times \cup {None}]
      /\ \A j \in Jobs \ created : finished'[j] = None
      /\ \A t \in Services : Of(t, "tick")' = Of(t, "tick")
    BY <1>1, EndedFacts
<1>7. /\ RestTyped /\ JobsKnown /\ ExecutionsOK /\ ReloadsStop
      /\ \A t \in Services : ServiceOK(t) /\ TickOK(t)
    BY DEF LifeInv
<1>8. RestTyped'
    BY <1>1, <1>2, <1>6, <1>7 DEF RestTyped
<1>9. \A t \in Services : Resulted(t)' = Resulted(t)
    BY <1>1 DEF Resulted
<1>10. JobsKnown'
    BY <1>1, <1>6, <1>7, <1>9 DEF JobsKnown
<1>11. ExecutionsOK' /\ ReloadsStop'
    BY <1>1, <1>6, <1>7 DEF ExecutionsOK, ExecutionOK, ReloadsStop
<1>12. ASSUME NEW t \in Services PROVE ServiceOK(t)' /\ TickOK(t)'
    BY <1>1, <1>6, OthersKept
<1>. QED
    BY <1>5, <1>8, <1>10, <1>11, <1>12 DEF LifeInv

\* The timer of a service fires.
LEMMA TimerFiresKeepsLife ==
    ASSUME LifeInv, NEW s \in Services, TimerFires(s)
    PROVE  LifeInv'
<1>1. /\ timer[s] /\ tick[s].at = "idle" /\ tick' = [tick EXCEPT ![s].at = "collect"]
      /\ UNCHANGED <<disk, mem, phase, missed, fresh, timer, manual, exec>>
      /\ UNCHANGED <<now, created, faults, stopped, finished, exposed, lost>>
    BY DEF TimerFires, world, history
<1>2. /\ RestTyped /\ JobsKnown /\ ExecutionsOK /\ ReloadsStop
      /\ \A t \in Services : ServiceOK(t) /\ TickOK(t)
    BY DEF LifeInv
<1>3. StoresOK'
    BY <1>1, StoresStay
<1>4. /\ \A t \in Services : /\ tick'[t] \in TickType
                             /\ tick'[t].todo = tick[t].todo /\ tick'[t].results = tick[t].results
      /\ tick'[s].at = "collect" /\ \A t \in Services \ {s} : tick'[t] = tick[t]
    BY <1>1, <1>2 DEF RestTyped, TickType
<1>5. \A t \in Services : Resulted(t)' = Resulted(t)
    BY <1>4 DEF Resulted
<1>6. RestTyped'
    <2>1. tick' \in [Services -> TickType]
        BY <1>1, <1>2, <1>4 DEF RestTyped
    <2>. QED
        BY <1>1, <1>2, <2>1 DEF RestTyped
<1>7. JobsKnown'
    <2>1. Executing' = Executing
        BY <1>1 DEF Executing
    <2>. QED
        BY <1>1, <1>2, <1>4, <1>5, <2>1 DEF JobsKnown
<1>8. ExecutionsOK'
    <2>1. \A e \in exec : e.by = "tick" => e.svc # s
        BY <1>1, <1>2 DEF ExecutionsOK, ExecutionOK
    <2>2. \A e \in exec : e.svc \in Services
        BY LifeFacts
    <2>. QED
        BY <1>1, <1>2, <1>4, <2>1, <2>2 DEF ExecutionsOK, ExecutionOK, Down
<1>9. ReloadsStop'
    BY <1>1, <1>2 DEF ReloadsStop
<1>10. ASSUME NEW t \in Services PROVE ServiceOK(t)' /\ TickOK(t)'
    <2>1. Of(t, "tick")' = Of(t, "tick")
        BY <1>1 DEF Of
    <2>2. TickOK(t)'
        BY <1>2, <1>4, <1>5, <2>1 DEF TickOK
    <2>3. ServiceOK(t)'
        BY <1>1, <1>2, <1>4 DEF ServiceOK, Down
    <2>. QED
        BY <2>2, <2>3
<1>. QED
    BY <1>3, <1>6, <1>7, <1>8, <1>9, <1>10 DEF LifeInv

\* A section of a tick that runs nothing at the moment: what is left of it is
\* a new list of jobs, or nothing.
LEMMA TickSectionKeepsLife ==
    ASSUME LifeInv, NEW s \in Services, StoresOK',
           Of(s, "tick") = {}, tick[s].at # "idle",
           NEW new \in TickType, tick' = [tick EXCEPT ![s] = new],
           new.results = {}, new.at # "run" => new.todo = {}, new.todo \subseteq created,
           NEW on \in BOOLEAN, timer' = timer \/ timer' = [timer EXCEPT ![s] = on],
           fresh' \in [Services -> BOOLEAN], exposed' \subseteq Jobs, lost' \subseteq Jobs,
           faults' \in 0..MaxFaults,
           UNCHANGED <<phase, missed, manual, exec, now, created, stopped, finished>>
    PROVE  LifeInv'
<1>1. /\ RestTyped /\ JobsKnown /\ ExecutionsOK /\ ReloadsStop
      /\ \A t \in Services : ServiceOK(t) /\ TickOK(t)
    BY DEF LifeInv
<1>2. tick'[s] = new /\ \A t \in Services \ {s} : tick'[t] = tick[t]
    BY <1>1 DEF RestTyped
<1>3. \A t \in Services \ {s} : timer'[t] = timer[t]
    BY <1>1 DEF RestTyped
<1>4. \A t \in Services : Of(t, "tick")' = Of(t, "tick")
    BY DEF Of
<1>5. Resulted(s)' = {} /\ \A t \in Services \ {s} : Resulted(t)' = Resulted(t)
    BY <1>2 DEF Resulted
<1>6. RestTyped'
    BY <1>1 DEF RestTyped
<1>7. JobsKnown'
    <2>1. Executing' = Executing
        BY DEF Executing
    <2>. QED
        BY <1>1, <1>2, <1>5, <2>1 DEF JobsKnown
<1>8. ExecutionsOK'
    <2>1. \A e \in exec : e.by = "tick" => e.svc # s
        BY DEF Of
    <2>2. \A e \in exec : e.svc \in Services
        BY LifeFacts
    <2>. QED
        BY <1>1, <1>2, <2>1, <2>2 DEF ExecutionsOK, ExecutionOK, Down
<1>9. ReloadsStop'
    BY <1>1 DEF ReloadsStop
<1>10. ASSUME NEW t \in Services PROVE ServiceOK(t)' /\ TickOK(t)'
    <2>1. CASE t # s
        BY <1>2, <1>3, <1>4, <2>1, OthersKept
    <2>2. CASE t = s
        <3>1. TickOK(s)'
            BY <1>4, <1>5 DEF TickOK
        <3>2. phase[s] \notin Down /\ (s # Primary => phase[s] = "ready")
            BY <1>1 DEF ServiceOK
        <3>3. ServiceOK(s)'
            BY <1>2, <3>2 DEF ServiceOK, Down
        <3>. QED
            BY <2>2, <3>1, <3>3
    <2>. QED
        BY <2>1, <2>2
<1>. QED
    BY <1>6, <1>7, <1>8, <1>9, <1>10 DEF LifeInv

\* The first section of a tick: what it writes, and the jobs it takes up.
LEMMA CollectStore ==
    ASSUME LifeInv, NEW dueJobs, dueJobs = {j \in Jobs : Runnable(disk[j])},
           NEW store, store = IF dueJobs = {} THEN Maintenance(disk) ELSE Collected(dueJobs, disk)
    PROVE  /\ Typed(store) /\ dueJobs \subseteq created
           /\ \A j \in Jobs \ created : store[j] = NoJob
           /\ \A j \in dueJobs : disk[j] # NoJob /\ disk[j].running = None
           /\ HasWork(store) <=> HasWork(disk)
           /\ \A j \in dueJobs : store[j] # NoJob /\ store[j].running # None
           /\ \A j \in Jobs \ dueJobs : store[j] # NoJob => disk[j] # NoJob
           /\ \A j \in Jobs \ dueJobs : store[j] # NoJob => store[j].running \in {None, disk[j].running}
           /\ \A j \in Jobs : store[j] # NoJob => store[j].lastRun = disk[j].lastRun
<1>1. now \in Nat /\ Typed(disk)
    BY LifeFacts
<1>2. \A j \in dueJobs : disk[j] # NoJob /\ disk[j].running = None /\ j \in Jobs
    BY DEF Runnable
<1>3. \A j \in Jobs \ created : disk[j] = NoJob
    BY DEF LifeInv, StoresOK
<1>4. CASE dueJobs = {}
    <2>1. store = Maintenance(disk)
        BY <1>4
    <2>2. Typed(store) /\ Milder(disk, store) /\ (HasWork(store) <=> HasWork(disk))
        BY <1>1, <2>1, MaintenanceFacts
    <2>. QED
        BY <1>3, <1>4, <2>2 DEF Milder
<1>5. CASE dueJobs # {}
    <2>1. store = Collected(dueJobs, disk)
        BY <1>5
    <2>2. /\ Typed(store) /\ SameJobs(store, disk)
          /\ \A j \in dueJobs : store[j].running # None
          /\ \A j \in Jobs \ dueJobs : store[j] = disk[j]
        BY <1>1, <1>2, <2>1, CollectedFacts
    <2>3. HasWork(store) <=> HasWork(disk)
        BY <2>2 DEF SameJobs, HasWork
    <2>. QED
        BY <1>2, <1>3, <2>2, <2>3 DEF SameJobs
<1>. QED
    BY <1>4, <1>5

\* The first section of a tick.
LEMMA CollectKeepsLife ==
    ASSUME LifeInv, NEW s \in Services, Collect(s)
    PROVE  LifeInv'
<1>1. PICK dueJobs : dueJobs = {j \in Jobs : Runnable(disk[j])}
    OBVIOUS
<1>2. PICK store : store = IF dueJobs = {} THEN Maintenance(disk) ELSE Collected(dueJobs, disk)
    OBVIOUS
<1> DEFINE new == [at |-> IF dueJobs = {} THEN "sweep" ELSE "run", todo |-> dueJobs,
                   results |-> {}, live |-> TRUE]
<1>3. /\ tick[s].at = "collect" /\ Persist(s, store) /\ Expose(Cleared(disk, store)) /\ Detach(s)
      /\ tick' = [tick EXCEPT ![s] = new]
      /\ UNCHANGED <<phase, missed, timer, manual, exec, finished, lost>>
      /\ UNCHANGED <<now, created, faults, stopped>>
    BY <1>1, <1>2 DEF Collect, world
<1>4. /\ Typed(store) /\ dueJobs \subseteq created
      /\ \A j \in Jobs \ created : store[j] = NoJob
    BY <1>1, <1>2, CollectStore
<1>5. StoresOK'
    BY <1>3, <1>4, PersistKeepsStores DEF LifeInv
<1>6. Of(s, "tick") = {}
    BY <1>3 DEF LifeInv, ExecutionsOK, ExecutionOK, Of
<1>7. dueJobs \subseteq Jobs /\ new \in TickType /\ new.results = {} /\ new.todo = dueJobs
      /\ (new.at # "run" => new.todo = {})
    BY <1>1 DEF TickType
<1>8. exposed' \subseteq Jobs
    BY <1>3, ExposeFacts, ClearedTyped DEF LifeInv, RestTyped
<1>9. /\ fresh' \in [Services -> BOOLEAN] /\ lost' \subseteq Jobs /\ faults' \in 0..MaxFaults
      /\ timer' = timer
    BY <1>3 DEF LifeInv, RestTyped, Detach
<1>10. tick[s].at # "idle"
    BY <1>3
<1>. HIDE DEF new
<1>. QED
    BY <1>3, <1>4, <1>5, <1>6, <1>7, <1>8, <1>9, <1>10, TickSectionKeepsLife

\* A worker of a tick takes a job.
LEMMA BeginDueKeepsLife ==
    ASSUME LifeInv, NEW s \in Services, NEW j \in Jobs, BeginDue(s, j)
    PROVE  LifeInv'
<1>1. /\ tick[s].at = "run" /\ j \in tick[s].todo
      /\ tick' = [tick EXCEPT ![s].todo = @ \ {j}]
      /\ Mark(s, j, tick[s].live) /\ Began(s, j, "tick")
      /\ UNCHANGED <<disk, phase, missed, fresh, timer, manual>>
      /\ UNCHANGED <<now, created, faults, stopped, finished, exposed, lost>>
    BY DEF BeginDue, world, history
<1>2. j \in created /\ now \in Nat /\ tick[s].live \in BOOLEAN
    BY <1>1, LifeFacts DEF TickType
<1>3. StoresOK'
    BY <1>1, <1>2, MarkKeepsStores DEF LifeInv
<1>4. PICK e \in Execution :
          /\ e.svc = s /\ e.job = j /\ e.by = "tick" /\ exec' = exec \cup {e}
          /\ Executing' = Executing \cup {j}
          /\ \A t \in Services : Of(t, "tick")' = IF t = s THEN Of(t, "tick") \cup {e}
                                                  ELSE Of(t, "tick")
    BY <1>1, <1>2, BeganFacts
<1>5. /\ RestTyped /\ JobsKnown /\ ExecutionsOK /\ ReloadsStop
      /\ \A t \in Services : ServiceOK(t) /\ TickOK(t)
    BY DEF LifeInv
<1>6. /\ \A t \in Services \ {s} : tick'[t] = tick[t]
      /\ tick'[s] \in TickType /\ tick'[s].at = "run" /\ tick'[s].todo = tick[s].todo \ {j}
      /\ tick'[s].results = tick[s].results
    BY <1>1, <1>5 DEF RestTyped, TickType
<1>7. RestTyped'
    <2>1. tick' \in [Services -> TickType]
        BY <1>1, <1>5, <1>6 DEF RestTyped
    <2>. QED
        BY <1>1, <1>4, <1>5, <2>1 DEF RestTyped
<1>8. \A t \in Services : Resulted(t)' = Resulted(t)
    BY <1>6 DEF Resulted
<1>9. JobsKnown'
    <2>1. \A t \in Services : tick'[t].todo \subseteq tick[t].todo
        BY <1>6
    <2>. QED
        BY <1>1, <1>2, <1>4, <1>5, <1>8, <2>1 DEF JobsKnown
<1>10. ExecutionsOK'
    <2>1. ASSUME NEW f \in exec' PROVE ExecutionOK(f)'
        <3>1. CASE f \in exec
            <4>1. ExecutionOK(f) /\ f.svc \in Services
                BY <1>5, <3>1, LifeFacts DEF ExecutionsOK
            <4>. QED
                BY <1>1, <1>6, <4>1 DEF ExecutionOK
        <3>2. CASE f = e
            BY <1>1, <1>4, <1>5, <1>6, <3>2 DEF ExecutionOK, ServiceOK
        <3>. QED
            BY <1>4, <3>1, <3>2
    <2>. QED
        BY <1>4, <1>5, <2>1 DEF ExecutionsOK
<1>11. ReloadsStop'
    BY <1>1, <1>5 DEF ReloadsStop
<1>12. ASSUME NEW t \in Services PROVE ServiceOK(t)' /\ TickOK(t)'
    <2>1. CASE t # s
        BY <1>1, <1>4, <1>6, <2>1, OthersKept
    <2>2. CASE t = s
        <3>1. ServiceOK(s)'
            BY <1>1, <1>5, <1>6 DEF ServiceOK, Down
        <3>2. TickOK(s)'
            BY <1>1, <1>4, <1>5, <1>6, <1>8 DEF TickOK
        <3>. QED
            BY <2>2, <3>1, <3>2
    <2>. QED
        BY <2>1, <2>2
<1>. QED
    BY <1>3, <1>7, <1>9, <1>10, <1>11, <1>12 DEF LifeInv

\* A job of a tick ends: its result waits for the others.
LEMMA EndDueFacts ==
    ASSUME LifeInv, NEW e \in exec, NEW status \in Statuses, EndDue(e, status)
    PROVE  /\ e \in Of(e.svc, "tick") /\ ExecutionOK(e)
           /\ \A t \in Services \ {e.svc} : tick'[t] = tick[t]
           /\ tick'[e.svc] \in TickType /\ tick'[e.svc].at = tick[e.svc].at
           /\ tick'[e.svc].todo = tick[e.svc].todo
           /\ tick'[e.svc].results = tick[e.svc].results \cup {ResultOf(e, status)}
           /\ Resulted(e.svc)' = Resulted(e.svc) \cup {e.job}
           /\ \A t \in Services \ {e.svc} : Resulted(t)' = Resulted(t)
<1>1. e.by = "tick" /\ tick' = [tick EXCEPT ![e.svc].results = @ \cup {ResultOf(e, status)}]
    BY DEF EndDue
<1>2. /\ e.svc \in Services /\ ResultOf(e, status) \in Result /\ ResultOf(e, status).job = e.job
      /\ \A t \in Services : tick[t] \in TickType
    BY LifeFacts, ResultOfFacts
<1>3. tick \in [Services -> TickType]
    BY DEF LifeInv, RestTyped
<1>4. PICK res \in Result : res = ResultOf(e, status) /\ res.job = e.job
    BY <1>2
<1>5. /\ \A t \in Services \ {e.svc} : tick'[t] = tick[t]
      /\ tick'[e.svc] \in TickType /\ tick'[e.svc].at = tick[e.svc].at
      /\ tick'[e.svc].todo = tick[e.svc].todo
      /\ tick'[e.svc].results = tick[e.svc].results \cup {res}
    BY <1>1, <1>2, <1>3, <1>4 DEF TickType
<1>6. e \in Of(e.svc, "tick") /\ ExecutionOK(e)
    BY <1>1 DEF Of, LifeInv, ExecutionsOK
<1>7. /\ Resulted(e.svc)' = Resulted(e.svc) \cup {e.job}
      /\ \A t \in Services \ {e.svc} : Resulted(t)' = Resulted(t)
    BY <1>4, <1>5 DEF Resulted
<1>. QED
    BY <1>4, <1>5, <1>6, <1>7

\* A job of a tick ends.
LEMMA EndDueKeepsLife ==
    ASSUME LifeInv, NEW e \in exec, NEW status \in Statuses, EndDue(e, status)
    PROVE  LifeInv'
<1> DEFINE s == e.svc
<1>1. /\ Ended(e) /\ e.by = "tick" /\ s \in Services /\ e.job \in Jobs /\ e.job \in created
      /\ UNCHANGED <<disk, mem, phase, missed, fresh, timer, manual>>
      /\ UNCHANGED <<now, created, faults, stopped, exposed, lost>>
    BY LifeFacts DEF EndDue, world
<1>2. /\ e \in Of(s, "tick") /\ ExecutionOK(e)
      /\ \A t \in Services \ {s} : tick'[t] = tick[t]
      /\ tick'[s] \in TickType /\ tick'[s].at = tick[s].at /\ tick'[s].todo = tick[s].todo
      /\ Resulted(s)' = Resulted(s) \cup {e.job}
      /\ \A t \in Services \ {s} : Resulted(t)' = Resulted(t)
    BY EndDueFacts
<1>. HIDE DEF s
<1>3. StoresOK'
    BY <1>1, StoresStay
<1>4. /\ exec' = exec \ {e} /\ Executing' \subseteq Executing
      /\ finished' \in [Jobs -> Times \cup {None}]
      /\ \A j \in Jobs \ created : finished'[j] = None
      /\ \A t \in Services : Of(t, "tick")' = Of(t, "tick") \ {e}
    BY <1>1, EndedFacts
<1>5. /\ RestTyped /\ JobsKnown /\ ExecutionsOK /\ ReloadsStop
      /\ \A t \in Services : ServiceOK(t) /\ TickOK(t)
    BY DEF LifeInv
<1>6. RestTyped'
    <2>1. tick' \in [Services -> TickType]
        <3>1. tick' = [tick EXCEPT ![e.svc] = tick'[e.svc]]
            BY <1>5 DEF EndDue, RestTyped
        <3>2. tick \in [Services -> TickType]
            BY <1>5 DEF RestTyped
        <3>3. tick' = [t \in Services |-> tick'[t]]
            BY <3>1, <3>2
        <3>. QED
            BY <1>2, <3>2, <3>3
    <2>. QED
        BY <1>1, <1>4, <1>5, <2>1 DEF RestTyped
<1>7. JobsKnown'
    <2>1. \A t \in Services : tick'[t].todo = tick[t].todo
        BY <1>2
    <2>2. \A t \in Services : Resulted(t)' \subseteq Resulted(t) \cup {e.job}
        BY <1>2
    <2>. QED
        BY <1>1, <1>4, <1>5, <2>1, <2>2 DEF JobsKnown
<1>8. ExecutionsOK'
    <2>1. ASSUME NEW f \in exec PROVE ExecutionOK(f)'
        <3>1. ExecutionOK(f) /\ f.svc \in Services
            BY <1>5, LifeFacts DEF ExecutionsOK
        <3>2. tick'[f.svc].at = tick[f.svc].at
            BY <1>2, <3>1
        <3>. QED
            BY <1>1, <3>1, <3>2 DEF ExecutionOK
    <2>. QED
        BY <1>4, <1>5, <2>1 DEF ExecutionsOK
<1>9. ReloadsStop'
    BY <1>1, <1>5 DEF ReloadsStop
<1>10. ASSUME NEW t \in Services PROVE ServiceOK(t)' /\ TickOK(t)'
    <2>1. CASE t # s
        <3>1. Of(t, "tick")' = Of(t, "tick")
            BY <1>1, <1>4, <2>1 DEF s, Of
        <3>. QED
            BY <1>1, <1>2, <2>1, <3>1, OthersKept
    <2>2. CASE t = s
        <3>1. tick[s].at = "run"
            BY <1>1, <1>2 DEF ExecutionOK, s
        <3>2. ServiceOK(s)'
            BY <1>1, <1>2, <1>5, <3>1 DEF ServiceOK, Down
        <3>3. TickOK(s)'
            BY <1>1, <1>2, <1>4, <1>5 DEF TickOK
        <3>. QED
            BY <2>2, <3>2, <3>3
    <2>. QED
        BY <2>1, <2>2
<1>. QED
    BY <1>3, <1>6, <1>7, <1>8, <1>9, <1>10 DEF LifeInv

\* The last section of a tick: each job takes its result, if it has one.
LEMMA ApplyStore ==
    ASSUME LifeInv, NEW s \in Services,
           NEW store, store = Maintenance(Resulting(s, disk))
    PROVE  /\ Typed(store) /\ \A j \in Jobs \ created : store[j] = NoJob
           /\ \A j \in Jobs : store[j] # NoJob => disk[j] # NoJob
           /\ \A j \in Jobs \ Resulted(s) : store[j] # NoJob =>
                 /\ store[j].lastRun = disk[j].lastRun
                 /\ store[j].running \in {None, disk[j].running}
           /\ \A j \in Resulted(s) : store[j] # NoJob =>
                 /\ store[j].running = None
                 /\ \E res \in tick[s].results : res.job = j /\ store[j].lastRun = res.start
<1>1. now \in Nat /\ Typed(disk) /\ tick[s].results \subseteq Result /\ Resulted(s) \subseteq Jobs
    BY LifeFacts
<1> DEFINE mid == Resulting(s, disk)
<1>2. /\ Typed(mid) /\ \A j \in Jobs \ Resulted(s) : mid[j] = disk[j]
      /\ \A j \in Jobs : disk[j] = NoJob => mid[j] = NoJob
      /\ \A j \in Resulted(s) : mid[j] # NoJob =>
            /\ mid[j].running = None
            /\ \E res \in tick[s].results : res.job = j /\ mid[j].lastRun = res.start
    BY <1>1, ResultingFacts
<1>. HIDE DEF mid
<1>3. Typed(store) /\ Milder(mid, store)
    BY <1>1, <1>2, MaintenanceFacts DEF mid
<1>4. \A j \in Jobs : store[j] # NoJob =>
         mid[j] # NoJob /\ store[j].lastRun = mid[j].lastRun /\ store[j].running \in {None, mid[j].running}
    BY <1>3 DEF Milder
<1>5. \A j \in Jobs : store[j] # NoJob => disk[j] # NoJob
    BY <1>2, <1>4
<1>6. \A j \in Jobs \ created : store[j] = NoJob
    BY <1>5 DEF LifeInv, StoresOK
<1>. QED
    BY <1>1, <1>2, <1>3, <1>4, <1>5, <1>6

\* The last section of a tick writes its results ...
LEMMA ApplyKeepsLife ==
    ASSUME LifeInv, NEW s \in Services, Apply(s)
    PROVE  LifeInv'
<1>1. PICK store : store = Maintenance(Resulting(s, disk))
    OBVIOUS
<1> DEFINE new == [tick[s] EXCEPT !.at = "sweep", !.results = {}, !.live = FALSE]
<1>2. /\ tick[s].at = "run" /\ tick[s].todo = {} /\ Of(s, "tick") = {}
      /\ Persist(s, store) /\ Expose(Cleared(disk, store) \ Resulted(s)) /\ Detach(s)
      /\ tick' = [tick EXCEPT ![s] = new]
      /\ UNCHANGED <<phase, missed, timer, manual, exec, finished, lost>>
      /\ UNCHANGED <<now, created, faults, stopped>>
    BY <1>1 DEF Apply, AllRun, world, LifeInv, RestTyped
<1>3. /\ Typed(store) /\ \A j \in Jobs \ created : store[j] = NoJob
    BY <1>1, ApplyStore
<1>4. StoresOK'
    BY <1>2, <1>3, PersistKeepsStores DEF LifeInv
<1>5. new \in TickType /\ new.results = {} /\ new.todo = {}
    BY <1>2, LifeFacts DEF TickType
<1>6. exposed' \subseteq Jobs
    <2>1. Cleared(disk, store) \ Resulted(s) \in SUBSET Jobs
        BY ClearedTyped
    <2>. QED
        BY <1>2, <2>1, ExposeFacts DEF LifeInv, RestTyped
<1>7. /\ fresh' \in [Services -> BOOLEAN] /\ lost' \subseteq Jobs /\ faults' \in 0..MaxFaults
      /\ timer' = timer /\ tick[s].at # "idle"
    BY <1>2 DEF LifeInv, RestTyped, Detach
<1>. HIDE DEF new
<1>. QED
    BY <1>2, <1>4, <1>5, <1>6, <1>7, TickSectionKeepsLife

\* ... or fails to, and they are gone.
LEMMA ApplyFailsKeepsLife ==
    ASSUME LifeInv, NEW s \in Services, ApplyFails(s)
    PROVE  LifeInv'
<1> DEFINE new == [tick[s] EXCEPT !.at = "sweep", !.results = {}]
<1>1. /\ tick[s].at = "run" /\ tick[s].todo = {} /\ Of(s, "tick") = {}
      /\ faults < MaxFaults /\ faults' = faults + 1 /\ lost' = lost \cup Resulted(s)
      /\ tick' = [tick EXCEPT ![s] = new]
      /\ UNCHANGED <<disk, mem, fresh, phase, missed, timer, manual, exec, finished>>
      /\ UNCHANGED <<now, created, exposed, stopped>>
    BY DEF ApplyFails, AllRun, LifeInv, RestTyped
<1>2. StoresOK'
    BY <1>1, StoresStay
<1>3. new \in TickType /\ new.results = {} /\ new.todo = {}
    BY <1>1, LifeFacts DEF TickType
<1>4. faults' \in 0..MaxFaults
    <2>1. faults \in 0..MaxFaults /\ MaxFaults \in Nat
        BY CronAssumption DEF LifeInv, RestTyped
    <2>. QED
        BY <1>1, <2>1
<1>5. /\ fresh' \in [Services -> BOOLEAN] /\ lost' \subseteq Jobs /\ exposed' \subseteq Jobs
      /\ timer' = timer /\ tick[s].at # "idle"
    BY <1>1, LifeFacts DEF LifeInv, RestTyped
<1>. HIDE DEF new
<1>. QED
    BY <1>1, <1>2, <1>3, <1>4, <1>5, TickSectionKeepsLife

\* A tick ends, and its service's timer is set.
LEMMA EndTickKeepsLife ==
    ASSUME LifeInv, NEW s \in Services, EndTick(s)
    PROVE  LifeInv'
<1>1. /\ tick[s].at = "sweep" /\ tick' = [tick EXCEPT ![s] = IdleTick]
      /\ timer' = [timer EXCEPT ![s] = HasWork(mem[s])]
      /\ UNCHANGED <<disk, mem, fresh, phase, missed, manual, exec, finished, lost, exposed>>
      /\ UNCHANGED <<now, created, faults, stopped>>
    BY DEF EndTick, world, history
<1>2. StoresOK'
    BY <1>1, StoresStay
<1>3. Of(s, "tick") = {}
    BY <1>1 DEF LifeInv, ExecutionsOK, ExecutionOK, Of
<1>4. IdleTick \in TickType /\ IdleTick.results = {} /\ IdleTick.todo = {}
    BY DEF TickType, IdleTick
<1>5. PICK on \in BOOLEAN : timer' = [timer EXCEPT ![s] = on]
    <2>1. HasWork(mem[s]) \in BOOLEAN
        BY DEF HasWork
    <2>. QED
        BY <1>1, <2>1
<1>6. /\ fresh' \in [Services -> BOOLEAN] /\ lost' \subseteq Jobs /\ exposed' \subseteq Jobs
      /\ faults' \in 0..MaxFaults /\ tick[s].at # "idle"
    BY <1>1 DEF LifeInv, RestTyped
<1>. QED
    BY <1>1, <1>2, <1>3, <1>4, <1>5, <1>6, TickSectionKeepsLife

\* A new or an edited job.
LEMMA NewJobFacts ==
    ASSUME LifeInv, NEW j \in Jobs
    PROVE  NewJob(j) \in JobType /\ Settled(j, NewJob(j))
           /\ NewJob(j).running = None /\ NewJob(j).lastRun = None
<1> DEFINE r == [enabled |-> TRUE, next |-> None, running |-> None, ok |-> FALSE,
                 lastRun |-> None, errors |-> 0]
<1>1. r \in JobType /\ r.enabled /\ ~r.ok
    BY CronAssumption DEF JobType
<1>2. NewJob(j) = [r EXCEPT !.next = NextRun(j, r, now)]
    BY DEF NewJob
<1>3. r.running = None /\ r.lastRun = None
    OBVIOUS
<1>. HIDE DEF r
<1>4. /\ NextRun(j, r, now) \in Nat \cup {None}
      /\ r.enabled /\ NextRun(j, r, now) = None => Kind[j] # "every" /\ r.ok
    BY <1>1, NextRunFacts, LifeFacts
<1>. QED
    BY <1>1, <1>2, <1>3, <1>4 DEF JobType, Times, Settled

\* An update keeps the last run, and may take the marker away.
LEMMA UpdatedFacts ==
    ASSUME LifeInv, NEW j \in Jobs, NEW r \in JobType, NEW on \in BOOLEAN
    PROVE  /\ Updated(j, [r EXCEPT !.enabled = on]) \in JobType
           /\ Settled(j, Updated(j, [r EXCEPT !.enabled = on]))
           /\ Updated(j, [r EXCEPT !.enabled = on]).lastRun = r.lastRun
           /\ Updated(j, [r EXCEPT !.enabled = on]).running \in {None, r.running}
<1> DEFINE q == [r EXCEPT !.enabled = on]
<1>1. /\ q \in JobType /\ (q.enabled <=> on) /\ q.lastRun = r.lastRun /\ q.running = r.running
    BY DEF JobType
<1>. HIDE DEF q
<1>2. /\ NextRun(j, q, now) \in Nat \cup {None}
      /\ q.enabled /\ NextRun(j, q, now) = None => Kind[j] # "every" /\ q.ok
    BY <1>1, NextRunFacts, LifeFacts
<1>3. /\ Updated(j, q) \in JobType /\ Settled(j, Updated(j, q))
      /\ Updated(j, q).lastRun = r.lastRun /\ Updated(j, q).running \in {None, r.running}
    <2>1. CASE q.enabled
        <3>1. Updated(j, q) = [q EXCEPT !.next = NextRun(j, q, now)]
            BY <2>1 DEF Updated
        <3>. QED
            BY <1>1, <1>2, <2>1, <3>1 DEF JobType, Times, Settled
    <2>2. CASE ~q.enabled
        <3>1. Updated(j, q) = [q EXCEPT !.next = None, !.running = None]
            BY <2>2 DEF Updated
        <3>. QED
            BY <1>1, <2>2, <3>1, CronAssumption DEF JobType, Times, Settled
    <2>. QED
        BY <2>1, <2>2
<1>. QED
    BY <1>3 DEF q

\* What the operations write.
AddedStore(j) == Recompute([mem[Primary] EXCEPT ![j] = NewJob(j)])
UpdatedStore(j, on) ==
    [mem[Primary] EXCEPT ![j] = Updated(j, [mem[Primary][j] EXCEPT !.enabled = on])]
RemovedStore(j) == [mem[Primary] EXCEPT ![j] = NoJob]
RunStore(j, res) == Recompute([mem[Primary] EXCEPT ![j] = Outcome(mem[Primary], j, res)])

\* The store with a job more: it has never run and has no marker.
LEMMA AddStore ==
    ASSUME LifeInv, NEW j \in Jobs, NEW store, store = AddedStore(j)
    PROVE  /\ Typed(store) /\ store[j] # NoJob
           /\ store[j].running = None /\ store[j].lastRun = None
           /\ \A k \in Jobs \ {j} :
                 /\ store[k] = NoJob <=> mem[Primary][k] = NoJob
                 /\ store[k] # NoJob => /\ store[k].lastRun = mem[Primary][k].lastRun
                                        /\ store[k].running \in {None, mem[Primary][k].running}
<1>1. PICK r \in JobType : r = NewJob(j) /\ Settled(j, r) /\ r.running = None /\ r.lastRun = None
    BY NewJobFacts
<1>2. r # NoJob /\ Typed(mem[Primary])
    BY NoJobAssumption, CronAssumption, LifeFacts
<1>3. PICK old : old = [mem[Primary] EXCEPT ![j] = r]
    OBVIOUS
<1>4. Typed(old) /\ old[j] = r /\ \A k \in Jobs \ {j} : old[k] = mem[Primary][k]
    BY <1>1, <1>2, <1>3, ReplacedFacts
<1>5. store = Recompute(old)
    BY <1>1, <1>3 DEF AddedStore
<1>6. Typed(store) /\ Milder(old, store)
    BY <1>4, <1>5, RecomputeFacts, LifeFacts
<1>. QED
    BY <1>1, <1>2, <1>4, <1>6 DEF Milder

\* The store with an updated job.
LEMMA UpdateStore ==
    ASSUME LifeInv, NEW j \in Jobs, NEW on \in BOOLEAN, mem[Primary][j] # NoJob,
           NEW store, store = UpdatedStore(j, on)
    PROVE  Typed(store) /\ Milder(mem[Primary], store)
<1>1. Typed(mem[Primary])
    BY CronAssumption, LifeFacts
<1>2. mem[Primary][j] \in JobType
    BY <1>1, TypedFacts
<1>3. PICK r \in JobType : /\ r = Updated(j, [mem[Primary][j] EXCEPT !.enabled = on])
                           /\ Settled(j, r) /\ r.lastRun = mem[Primary][j].lastRun
                           /\ r.running \in {None, mem[Primary][j].running}
    BY <1>2, UpdatedFacts
<1>4. /\ Typed(store) /\ store[j] = r /\ \A k \in Jobs \ {j} : store[k] = mem[Primary][k]
    BY <1>1, <1>3, ReplacedFacts DEF UpdatedStore
<1>5. ASSUME NEW k \in Jobs
      PROVE  /\ store[k] = NoJob <=> mem[Primary][k] = NoJob
             /\ mem[Primary][k] # NoJob => /\ store[k].lastRun = mem[Primary][k].lastRun
                                           /\ store[k].running \in {None, mem[Primary][k].running}
    BY <1>3, <1>4, NoJobAssumption
<1>. QED
    BY <1>4, <1>5 DEF Milder

\* The store without a job.
LEMMA RemoveStore ==
    ASSUME LifeInv, NEW j \in Jobs, NEW store, store = RemovedStore(j)
    PROVE  /\ Typed(store) /\ store[j] = NoJob
           /\ \A k \in Jobs \ {j} : store[k] = mem[Primary][k]
<1>1. Typed(mem[Primary])
    BY CronAssumption, LifeFacts
<1>. QED
    BY <1>1, ReplacedFacts DEF RemovedStore

\* A manual run's end also recomputes all the jobs.
LEMMA RunEndStore ==
    ASSUME LifeInv, NEW j \in Jobs, NEW res \in Result, res.job = j,
           NEW store, store = RunStore(j, res)
    PROVE  /\ Typed(store)
           /\ \A k \in Jobs : store[k] # NoJob => mem[Primary][k] # NoJob
           /\ store[j] # NoJob => store[j].running = None /\ store[j].lastRun = res.start
           /\ \A k \in Jobs \ {j} : store[k] # NoJob =>
                 /\ store[k].lastRun = mem[Primary][k].lastRun
                 /\ store[k].running \in {None, mem[Primary][k].running}
<1>1. PICK old : old = [mem[Primary] EXCEPT ![j] = Outcome(mem[Primary], j, res)]
    OBVIOUS
<1>2. /\ Typed(old) /\ old[j] = Outcome(mem[Primary], j, res)
      /\ \A k \in Jobs \ {j} : old[k] = mem[Primary][k]
      /\ \A k \in Jobs : mem[Primary][k] = NoJob => old[k] = NoJob
    BY <1>1, CatchUpStore, CronAssumption
<1>3. Typed(store) /\ Milder(old, store)
    BY <1>1, <1>2, RecomputeFacts, LifeFacts DEF RunStore
<1>4. old[j] # NoJob => old[j].running = None /\ old[j].lastRun = res.start
    BY <1>2, OutcomeFacts, LifeFacts, CronAssumption
<1>. QED
    BY <1>2, <1>3, <1>4 DEF Milder

\* The operations of clients.
LEMMA AddKeepsLife ==
    ASSUME LifeInv, NEW j \in Jobs, Add(j)
    PROVE  LifeInv'
<1>1. PICK store : store = AddedStore(j)
    OBVIOUS
<1>2. /\ created' = created \cup {j} /\ Op(store) /\ Expose(Cleared(mem[Primary], store))
      /\ UNCHANGED <<now, faults, stopped>>
    BY <1>1 DEF Add, AddedStore
<1>3. /\ Typed(store)
      /\ \A k \in Jobs \ {j} : mem[Primary][k] = NoJob => store[k] = NoJob
    BY <1>1, AddStore
<1>4. \A k \in Jobs \ created' : store[k] = NoJob
    BY <1>2, <1>3, CronAssumption DEF LifeInv, StoresOK
<1>5. created \subseteq created' /\ created' \subseteq Jobs /\ exposed' \subseteq Jobs
    BY <1>2, ExposeFacts, ClearedTyped DEF LifeInv, RestTyped
<1>. QED
    BY <1>2, <1>3, <1>4, <1>5, OpKeepsLife

\* A client's update.
LEMMA UpdateKeepsLife ==
    ASSUME LifeInv, NEW j \in Jobs, NEW on \in BOOLEAN, Update(j, on)
    PROVE  LifeInv'
<1>1. PICK store : store = UpdatedStore(j, on)
    OBVIOUS
<1>2. /\ mem[Primary][j] # NoJob /\ Op(store) /\ Expose(Cleared(mem[Primary], store))
      /\ UNCHANGED <<now, created, faults, stopped>>
    BY <1>1 DEF Update, UpdatedStore, world
<1>3. Typed(store) /\ Milder(mem[Primary], store)
    BY <1>1, <1>2, UpdateStore
<1>4. \A k \in Jobs \ created' : store[k] = NoJob
    BY <1>2, <1>3, CronAssumption DEF LifeInv, StoresOK, Milder
<1>5. created \subseteq created' /\ created' \subseteq Jobs /\ exposed' \subseteq Jobs
    BY <1>2, ExposeFacts, ClearedTyped DEF LifeInv, RestTyped
<1>. QED
    BY <1>2, <1>3, <1>4, <1>5, OpKeepsLife

\* A client's removal.
LEMMA RemoveKeepsLife ==
    ASSUME LifeInv, NEW j \in Jobs, Remove(j)
    PROVE  LifeInv'
<1>1. PICK store : store = RemovedStore(j)
    OBVIOUS
<1>2. Op(store) /\ UNCHANGED <<now, created, faults, stopped, exposed>>
    BY <1>1 DEF Remove, RemovedStore, world
<1>3. Typed(store) /\ store[j] = NoJob /\ \A k \in Jobs \ {j} : store[k] = mem[Primary][k]
    BY <1>1, RemoveStore
<1>4. \A k \in Jobs \ created' : store[k] = NoJob
    BY <1>2, <1>3, CronAssumption DEF LifeInv, StoresOK
<1>5. created \subseteq created' /\ created' \subseteq Jobs /\ exposed' \subseteq Jobs
    BY <1>2 DEF LifeInv, RestTyped
<1>. QED
    BY <1>2, <1>3, <1>4, <1>5, OpKeepsLife

\* A client's list or status, which maintain the jobs.
LEMMA ReadKeepsLife ==
    ASSUME LifeInv, Read
    PROVE  LifeInv'
<1>1. PICK store : store = Maintenance(mem[Primary])
    OBVIOUS
<1>2. /\ Persist(Primary, store) /\ Expose(Cleared(mem[Primary], store))
      /\ UNCHANGED <<phase, missed, fresh, tick, timer, manual, exec, finished, lost>>
      /\ UNCHANGED <<now, created, faults, stopped>>
    BY <1>1 DEF Read, services, world
<1>3. Typed(store) /\ Milder(mem[Primary], store)
    BY <1>1, MaintenanceFacts, LifeFacts, CronAssumption
<1>4. \A k \in Jobs \ created' : store[k] = NoJob
    BY <1>2, <1>3, CronAssumption DEF LifeInv, StoresOK, Milder
<1>5. /\ created \subseteq created' /\ created' \subseteq Jobs /\ exposed' \subseteq Jobs
      /\ now' \in 0..MaxNow
    BY <1>2, ExposeFacts, ClearedTyped DEF LifeInv, RestTyped
<1>6. StoresOK'
    BY <1>2, <1>3, <1>4, PersistKeepsStores, CronAssumption DEF LifeInv
<1>. QED
    BY <1>2, <1>5, <1>6, QuietStepKeepsLife

\* A manual run takes the lock, and holds it to the end.
LEMMA RunBeginKeepsLife ==
    ASSUME LifeInv, NEW j \in Jobs, RunBegin(j)
    PROVE  LifeInv'
<1>1. /\ Loaded(Primary) /\ manual = None /\ mem[Primary][j] # NoJob
      /\ manual' = Primary /\ Mark(Primary, j, TRUE) /\ Began(Primary, j, "manual")
      /\ UNCHANGED <<disk, phase, missed, fresh, tick, timer>>
      /\ UNCHANGED <<now, created, faults, stopped, finished, exposed, lost>>
    BY DEF RunBegin, LockFree, world, history
<1>2. Primary \in Services /\ Primary # None /\ now \in Nat /\ j \in created
    BY <1>1, CronAssumption, LifeFacts DEF LifeInv, StoresOK
<1>3. StoresOK'
    <2>1. TRUE \in BOOLEAN
        OBVIOUS
    <2>. QED
        BY <1>1, <1>2, <2>1, MarkKeepsStores DEF LifeInv
<1>4. PICK e \in Execution :
          /\ e.svc = Primary /\ e.job = j /\ e.by = "manual" /\ exec' = exec \cup {e}
          /\ Executing' = Executing \cup {j}
          /\ \A t \in Services : Of(t, "tick")' = Of(t, "tick")
    BY <1>1, <1>2, BeganFacts
<1>5. /\ RestTyped /\ JobsKnown /\ ExecutionsOK /\ ReloadsStop
      /\ \A t \in Services : ServiceOK(t) /\ TickOK(t)
    BY DEF LifeInv
<1>6. RestTyped'
    BY <1>1, <1>2, <1>4, <1>5 DEF RestTyped
<1>7. \A t \in Services : Resulted(t)' = Resulted(t)
    BY <1>1 DEF Resulted
<1>8. JobsKnown'
    BY <1>1, <1>2, <1>4, <1>5, <1>7 DEF JobsKnown
<1>9. ExecutionsOK'
    <2>1. \A f \in exec : f.by # "manual"
        BY <1>1, <1>2, <1>5 DEF ExecutionsOK, ExecutionOK
    <2>2. phase[Primary] \notin Down
        BY <1>1 DEF Loaded, Down
    <2>. QED
        BY <1>1, <1>4, <1>5, <2>1, <2>2 DEF ExecutionsOK, ExecutionOK
<1>10. ReloadsStop'
    BY <1>1, <1>5 DEF ReloadsStop
<1>11. ASSUME NEW t \in Services PROVE ServiceOK(t)' /\ TickOK(t)'
    BY <1>1, <1>4, OthersKept
<1>. QED
    BY <1>3, <1>6, <1>8, <1>9, <1>10, <1>11 DEF LifeInv

\* The end of a manual run.
LEMMA RunEndKeepsLife ==
    ASSUME LifeInv, NEW e \in exec, NEW status \in Statuses, RunEnd(e, status)
    PROVE  LifeInv'
<1>1. PICK res : res = ResultOf(e, status)
    OBVIOUS
<1>2. PICK store : store = RunStore(e.job, res)
    OBVIOUS
<1>3. /\ e.by = "manual" /\ Ended(e) /\ Persist(Primary, store)
      /\ timer' = [timer EXCEPT ![Primary] = HasWork(store)] /\ manual' = None
      /\ Expose(Cleared(mem[Primary], store) \ {e.job})
      /\ UNCHANGED <<phase, missed, fresh, tick, lost>>
      /\ UNCHANGED <<now, created, faults, stopped>>
    BY <1>1, <1>2 DEF RunEnd, RunStore, world
<1>4. Primary \in Services /\ e.job \in Jobs /\ res \in Result /\ res.job = e.job
    BY <1>1, CronAssumption, LifeFacts, ResultOfFacts
<1>5. Typed(store) /\ \A k \in Jobs : store[k] # NoJob => mem[Primary][k] # NoJob
    BY <1>2, <1>4, RunEndStore
<1>6. \A k \in Jobs \ created : store[k] = NoJob
    BY <1>4, <1>5 DEF LifeInv, StoresOK
<1>7. StoresOK'
    BY <1>3, <1>4, <1>5, <1>6, PersistKeepsStores DEF LifeInv
<1>8. /\ exec' = exec \ {e} /\ Executing' \subseteq Executing
      /\ finished' \in [Jobs -> Times \cup {None}]
      /\ \A j \in Jobs \ created : finished'[j] = None
      /\ \A t \in Services : Of(t, "tick")' = Of(t, "tick")
    BY <1>3, EndedFacts
<1>9. /\ RestTyped /\ JobsKnown /\ ExecutionsOK /\ ReloadsStop
      /\ \A t \in Services : ServiceOK(t) /\ TickOK(t)
    BY DEF LifeInv
<1>10. exposed' \subseteq Jobs /\ HasWork(store) \in BOOLEAN
    <2>1. Cleared(mem[Primary], store) \ {e.job} \in SUBSET Jobs
        BY ClearedTyped
    <2>2. exposed' \subseteq Jobs
        BY <1>3, <1>9, <2>1, ExposeFacts DEF RestTyped
    <2>. QED
        BY <2>2 DEF HasWork
<1>11. RestTyped'
    BY <1>3, <1>4, <1>8, <1>9, <1>10 DEF RestTyped
<1>12. \A t \in Services : Resulted(t)' = Resulted(t)
    BY <1>3 DEF Resulted
<1>13. JobsKnown'
    BY <1>3, <1>8, <1>9, <1>12 DEF JobsKnown
<1>14. ExecutionsOK'
    <2>1. \A f \in exec' : f.by # "manual" /\ f \in exec
        BY <1>3, <1>8, <1>9 DEF ExecutionsOK
    <2>. QED
        BY <1>3, <1>9, <2>1 DEF ExecutionsOK, ExecutionOK
<1>15. ReloadsStop'
    BY <1>3, <1>9 DEF ReloadsStop
<1>16. ASSUME NEW t \in Services PROVE ServiceOK(t)' /\ TickOK(t)'
    <2>1. TickOK(t)'
        BY <1>3, <1>8, <1>9, <1>12 DEF TickOK
    <2>2. phase[Primary] \notin Down
        BY <1>3, <1>9 DEF ExecutionsOK, ExecutionOK
    <2>3. t # Primary => timer'[t] = timer[t]
        BY <1>3, <1>9 DEF RestTyped
    <2>4. ServiceOK(t)'
        BY <1>3, <1>9, <2>2, <2>3 DEF ServiceOK
    <2>. QED
        BY <2>1, <2>4
<1>. QED
    BY <1>7, <1>11, <1>13, <1>14, <1>15, <1>16 DEF LifeInv

\* A reload stops what is up, and starts another service.
LEMMA ReloadKeepsLife ==
    ASSUME LifeInv, NEW s \in Services, Reload(s)
    PROVE  LifeInv'
<1>1. /\ phase[s] = "off" /\ phase[Primary] # "off"
      /\ timer' = [t \in Services |-> timer[t] /\ t \in stopped]
      /\ stopped' = {t \in Services : phase[t] # "off"}
      /\ phase' = [phase EXCEPT ![s] = "loading"]
      /\ UNCHANGED <<disk, mem, missed, fresh, tick, manual, exec>>
      /\ UNCHANGED <<now, created, faults, finished, exposed, lost>>
    BY DEF Reload, history
<1>2. /\ RestTyped /\ JobsKnown /\ ExecutionsOK /\ ReloadsStop
      /\ \A t \in Services : ServiceOK(t) /\ TickOK(t)
    BY DEF LifeInv
<1>3. StoresOK'
    BY <1>1, StoresStay
<1>4. /\ phase'[s] = "loading" /\ \A t \in Services \ {s} : phase'[t] = phase[t]
      /\ \A t \in Services : timer'[t] => timer[t]
    BY <1>1, <1>2 DEF RestTyped
<1>5. RestTyped'
    BY <1>1, <1>2 DEF RestTyped
<1>6. /\ Executing' = Executing
      /\ \A t \in Services : Resulted(t)' = Resulted(t) /\ Of(t, "tick")' = Of(t, "tick")
    BY <1>1 DEF Executing, Resulted, Of
<1>7. JobsKnown'
    BY <1>1, <1>2, <1>6 DEF JobsKnown
<1>8. ExecutionsOK'
    <2>1. \A e \in exec : e.svc # s /\ e.svc \in Services
        BY <1>1, <1>2, LifeFacts DEF ExecutionsOK, ExecutionOK, Down
    <2>. QED
        BY <1>1, <1>2, <1>4, <2>1 DEF ExecutionsOK, ExecutionOK
<1>9. ReloadsStop'
    BY <1>1, <1>4, CronAssumption DEF ReloadsStop
<1>10. ASSUME NEW t \in Services PROVE ServiceOK(t)' /\ TickOK(t)'
    <2>1. TickOK(t)'
        BY <1>1, <1>2, <1>6 DEF TickOK
    <2>2. ServiceOK(t)'
        BY <1>1, <1>2, <1>4 DEF ServiceOK, Down
    <2>. QED
        BY <2>1, <2>2
<1>. QED
    BY <1>3, <1>5, <1>7, <1>8, <1>9, <1>10 DEF LifeInv

\* After a crash only the file is left.
LEMMA EmptyStoreTyped == NoStore \in StoreType /\ StoreSettled(NoStore) /\ \A j \in Jobs : NoStore[j] = NoJob
BY DEF NoStore, StoreType, StoreSettled

\* No tick has nothing to do and no results.
LEMMA IdleTickTyped ==
    /\ IdleTick \in TickType /\ IdleTick.at = "idle"
    /\ IdleTick.todo = {} /\ IdleTick.results = {}
BY DEF IdleTick, TickType

\* A crash leaves the file and nothing else.
LEMMA CrashKeepsLife ==
    ASSUME LifeInv, Crash
    PROVE  LifeInv'
<1>1. /\ faults < MaxFaults /\ faults' = faults + 1
      /\ mem' = [s \in Services |-> NoStore] /\ phase' = [s \in Services |-> "off"]
      /\ missed' = [s \in Services |-> {}] /\ fresh' = [s \in Services |-> FALSE]
      /\ tick' = [s \in Services |-> IdleTick] /\ timer' = [s \in Services |-> FALSE]
      /\ manual' = None /\ exec' = {} /\ stopped' = {}
      /\ finished' = [j \in Jobs |-> IF disk[j] = NoJob THEN None ELSE disk[j].lastRun]
      /\ exposed' = {} /\ lost' = {} /\ UNCHANGED <<disk, now, created>>
    BY DEF Crash
<1>2. \A j \in Jobs : disk[j] # NoJob => disk[j] \in JobType
    BY TypedFacts, LifeFacts
<1>3. finished' \in [Jobs -> Times \cup {None}]
    <2>1. \A j \in Jobs : disk[j] # NoJob => disk[j].lastRun \in Times \cup {None}
        BY <1>2 DEF JobType
    <2>. QED
        BY <1>1, <2>1
<1>4. faults' \in 0..MaxFaults
    <2>1. faults \in 0..MaxFaults /\ MaxFaults \in Nat
        BY CronAssumption DEF LifeInv, RestTyped
    <2>. QED
        BY <1>1, <2>1
<1>5. RestTyped'
    <2>1. tick' \in [Services -> TickType]
        BY <1>1, IdleTickTyped
    <2>. QED
        BY <1>1, <1>3, <1>4, <2>1 DEF LifeInv, RestTyped
<1>6. StoresOK'
    <2>1. mem' \in [Services -> StoreType] /\ \A s \in Services : StoreSettled(mem'[s])
        BY <1>1, EmptyStoreTyped
    <2>2. disk' \in StoreType /\ StoreSettled(disk')
        BY <1>1 DEF LifeInv, StoresOK, JobsSettled
    <2>3. \A j \in Jobs \ created' : disk'[j] = NoJob /\ \A s \in Services : mem'[s][j] = NoJob
        BY <1>1, EmptyStoreTyped DEF LifeInv, StoresOK
    <2>4. JobsSettled'
        BY <2>1, <2>2 DEF JobsSettled
    <2>. QED
        BY <2>1, <2>2, <2>3, <2>4 DEF StoresOK
<1>7. \A s \in Services : Resulted(s)' = {} /\ tick'[s].todo = {}
    BY <1>1, IdleTickTyped DEF Resulted
<1>8. JobsKnown'
    <2>1. \A j \in Jobs \ created' : finished'[j] = None
        BY <1>1 DEF LifeInv, StoresOK
    <2>2. Executing' = {}
        BY <1>1 DEF Executing
    <2>. QED
        BY <1>1, <1>7, <2>1, <2>2 DEF JobsKnown
<1>9. ExecutionsOK' /\ ReloadsStop'
    BY <1>1 DEF ExecutionsOK, ReloadsStop
<1>10. ASSUME NEW s \in Services PROVE ServiceOK(s)' /\ TickOK(s)'
    BY <1>1, <1>7, IdleTickTyped DEF ServiceOK, TickOK, Of
<1>. QED
    BY <1>5, <1>6, <1>8, <1>9, <1>10 DEF LifeInv

\* The first state.
LEMMA InitLife == Init => LifeInv
<1>. SUFFICES ASSUME Init PROVE LifeInv
    OBVIOUS
<1>1. /\ now = 0 /\ mem = [s \in Services |-> NoStore] /\ phase = [s \in Services |-> "off"]
      /\ missed = [s \in Services |-> {}] /\ fresh = [s \in Services |-> FALSE]
      /\ tick = [s \in Services |-> IdleTick] /\ timer = [s \in Services |-> FALSE]
      /\ manual = None /\ exec = {} /\ created = Stored /\ faults = 0 /\ stopped = {}
      /\ finished = [j \in Jobs |-> None] /\ exposed = {} /\ lost = {}
      /\ \A j \in Jobs : disk[j] # NoJob <=> j \in Stored
    BY DEF Init
<1>2. disk \in StoreType /\ StoreSettled(disk)
    <2> DEFINE first(marker) == [enabled |-> TRUE, next |-> 0, running |-> marker, ok |-> FALSE,
                                 lastRun |-> None, errors |-> 0]
    <2>1. disk \in [Jobs -> {NoJob} \cup {first(marker) : marker \in {None, 0}}]
        BY DEF Init
    <2>2. \A marker \in {None, 0} : first(marker) \in JobType /\ first(marker).next = 0
        BY CronAssumption DEF JobType, Times
    <2>. HIDE DEF first
    <2>3. \A j \in Jobs : disk[j] = NoJob \/ (disk[j] \in JobType /\ disk[j].next = 0)
        BY <2>1, <2>2
    <2>4. disk \in StoreType
        BY <2>1, <2>3 DEF StoreType
    <2>5. StoreSettled(disk)
        BY <2>3, CronAssumption DEF StoreSettled, Settled
    <2>. QED
        BY <2>4, <2>5
<1>3. StoresOK
    <2>1. mem \in [Services -> StoreType] /\ \A s \in Services : StoreSettled(mem[s])
        BY <1>1, EmptyStoreTyped
    <2>2. \A j \in Jobs \ created : disk[j] = NoJob /\ \A s \in Services : mem[s][j] = NoJob
        BY <1>1, EmptyStoreTyped
    <2>. QED
        BY <1>2, <2>1, <2>2 DEF StoresOK, JobsSettled
<1>4. RestTyped
    <2>1. tick \in [Services -> TickType]
        BY <1>1, IdleTickTyped
    <2>2. now \in 0..MaxNow /\ faults \in 0..MaxFaults
        BY <1>1, CronAssumption
    <2>. QED
        BY <1>1, <2>1, <2>2, CronAssumption DEF RestTyped
<1>5. Executing = {} /\ \A s \in Services : Resulted(s) = {} /\ tick[s].todo = {}
    BY <1>1, IdleTickTyped DEF Executing, Resulted
<1>6. JobsKnown
    BY <1>1, <1>5 DEF JobsKnown
<1>7. ExecutionsOK /\ ReloadsStop
    BY <1>1 DEF ExecutionsOK, ReloadsStop
<1>8. ASSUME NEW s \in Services PROVE ServiceOK(s) /\ TickOK(s)
    BY <1>1, <1>5, IdleTickTyped DEF ServiceOK, TickOK, Of
<1>. QED
    BY <1>3, <1>4, <1>6, <1>7, <1>8 DEF LifeInv

\* Every step.
LEMMA StepKeepsLife == LifeInv /\ [Next]_vars => LifeInv'
<1>. SUFFICES ASSUME LifeInv, [Next]_vars PROVE LifeInv'
    OBVIOUS
<1>1. CASE Boot
    BY <1>1, BootKeepsLife
<1>2. CASE Crash
    BY <1>2, CrashKeepsLife
<1>3. CASE TimePasses
    BY <1>3, TimePassesKeepsLife
<1>4. CASE Client
    BY <1>4, ReadKeepsLife, AddKeepsLife, RemoveKeepsLife, RunBeginKeepsLife, UpdateKeepsLife
       DEF Client
<1>5. ASSUME NEW s \in Services, ServiceStep(s) \/ TimerFires(s) \/ ApplyFails(s) \/ Reload(s)
      PROVE  LifeInv'
    BY <1>5, StartLoadKeepsLife, StartFinishKeepsLife, CollectKeepsLife, ApplyKeepsLife,
       EndTickKeepsLife, CatchUpBeginKeepsLife, BeginDueKeepsLife, TimerFiresKeepsLife,
       ApplyFailsKeepsLife, ReloadKeepsLife
       DEF ServiceStep
<1>6. ASSUME NEW e \in exec, NEW status \in StatusesOf(e.job), ExecutionEnds(e, status)
      PROVE  LifeInv'
    <2>1. status \in Statuses
        BY StatusesAreKnown, LifeFacts
    <2>. QED
        BY <1>6, <2>1, CatchUpEndKeepsLife, EndDueKeepsLife, RunEndKeepsLife DEF ExecutionEnds
<1>7. CASE UNCHANGED vars
    <2>1. UNCHANGED <<disk, mem, phase, missed, fresh, tick, timer, manual, exec>>
          /\ UNCHANGED <<now, created, faults, stopped, finished, exposed, lost>>
        BY <1>7 DEF vars, services, world, history
    <2>2. StoresOK'
        BY <2>1, StoresStay
    <2>3. FALSE \in BOOLEAN /\ created \subseteq Jobs /\ exposed \subseteq Jobs /\ now \in 0..MaxNow
        BY DEF LifeInv, RestTyped
    <2>. QED
        BY <2>1, <2>2, <2>3, QuietStepKeepsLife
<1>. QED
    BY <1>1, <1>2, <1>3, <1>4, <1>5, <1>6, <1>7 DEF Next

-----------------------------------------------------------------------------
(* The first service, as long as no reload has stopped it.                 *)

\* It is the only one that does anything.
LEMMA AloneFacts ==
    ASSUME LifeInv, Alone
    PROVE  /\ \A s \in Services \ {Primary} :
                 /\ phase[s] = "off" /\ tick[s].at = "idle" /\ tick[s].todo = {}
                 /\ tick[s].results = {} /\ Resulted(s) = {} /\ ~timer[s]
           /\ \A e \in exec : e.svc = Primary
           /\ Underway = Executing \cup tick[Primary].todo \cup Resulted(Primary)
           /\ TickJobs \subseteq Underway
<1>1. ASSUME NEW s \in Services \ {Primary}
      PROVE  /\ phase[s] = "off" /\ tick[s].at = "idle" /\ tick[s].todo = {}
             /\ tick[s].results = {} /\ Resulted(s) = {} /\ ~timer[s]
    BY DEF LifeInv, Alone, ReloadsStop, ServiceOK, Down, Resulted
<1>2. \A e \in exec : e.svc = Primary
    BY <1>1, LifeFacts DEF LifeInv, ExecutionsOK, ExecutionOK, Down
<1>3. Underway = Executing \cup tick[Primary].todo \cup Resulted(Primary)
    BY <1>1, CronAssumption DEF Underway
<1>4. TickJobs \subseteq Underway
    BY <1>3 DEF TickJobs, Executing, Of
<1>. QED
    BY <1>1, <1>2, <1>3, <1>4

\* Without jobs of a tick that runs there are none.
LEMMA NoTickJobs ==
    ASSUME LifeInv, tick[Primary].at # "run"
    PROVE  /\ TickJobs = {} /\ tick[Primary].todo = {} /\ Resulted(Primary) = {}
           /\ tick[Primary].results = {} /\ Of(Primary, "tick") = {}
<1>1. tick[Primary].todo = {} /\ tick[Primary].results = {}
    BY CronAssumption DEF LifeInv, ServiceOK
<1>2. Of(Primary, "tick") = {}
    BY DEF LifeInv, ExecutionsOK, ExecutionOK, Of
<1>. QED
    BY <1>1, <1>2 DEF TickJobs, Resulted

\* A step that leaves the jobs and the executions alone.
LEMMA IdleStepKeepsAlone ==
    ASSUME LifeInv, AloneInv, Alone,
           UNCHANGED <<disk, mem, exec, finished, exposed, lost, fresh>>,
           Loaded(Primary)' => Loaded(Primary),
           \A s \in Services : tick'[s].todo = tick[s].todo /\ tick'[s].results = tick[s].results
    PROVE  AloneInv'
<1>1. /\ Executing' = Executing /\ \A s \in Services : Resulted(s)' = Resulted(s)
      /\ Of(Primary, "tick")' = Of(Primary, "tick")
    BY DEF Executing, Resulted, Of
<1>2. TickJobs' = TickJobs /\ Underway' = Underway
    BY <1>1, CronAssumption DEF TickJobs, Underway
<1>3. MemoryFollowsFile'
    BY DEF AloneInv, MemoryFollowsFile, SameJobs
<1>4. MarkersOwned'
    BY <1>2 DEF AloneInv, MarkersOwned, Owned
<1>5. TickJobsMarked'
    BY <1>2 DEF AloneInv, TickJobsMarked, Marks
<1>6. Recorded'
    BY <1>1, CronAssumption DEF AloneInv, Recorded
<1>. QED
    BY <1>3, <1>4, <1>5, <1>6 DEF AloneInv

\* The store has fewer jobs, the same last runs and no new markers; what is new
\* in it has never run.
Calmer(old, new) ==
    \A j \in Jobs : new[j] # NoJob =>
        \/ /\ old[j] # NoJob /\ new[j].lastRun = old[j].lastRun
           /\ new[j].running \in {None, old[j].running}
        \/ j \notin created /\ new[j].lastRun = None /\ new[j].running = None

\* A store that only lost markers is calmer.
LEMMA MilderIsCalmer ==
    ASSUME NEW old, NEW new, Milder(old, new)
    PROVE  Calmer(old, new)
BY DEF Milder, Calmer

\* A section that writes such a store; the markers it takes away are exposed.
LEMMA CalmSectionKeepsAlone ==
    ASSUME LifeInv, AloneInv, Alone,
           NEW old, old = disk \/ (Loaded(Primary) /\ old = mem[Primary]),
           NEW store, Calmer(old, store), Persist(Primary, store),
           Loaded(Primary) \/ (TickJobs = {} /\ \A j \in Jobs : store[j] # NoJob => store[j].running = None),
           exposed \subseteq exposed', Cleared(old, store) \cap Underway \subseteq exposed',
           UNCHANGED <<exec, finished, lost>>, fresh'[Primary] => fresh[Primary] \/ TickJobs = {},
           \A s \in Services : tick'[s].todo = tick[s].todo /\ tick'[s].results = tick[s].results
    PROVE  AloneInv'
<1>1. /\ Executing' = Executing /\ \A s \in Services : Resulted(s)' = Resulted(s)
      /\ Of(Primary, "tick")' = Of(Primary, "tick")
    BY DEF Executing, Resulted, Of
<1>2. TickJobs' = TickJobs /\ Underway' = Underway
    BY <1>1, CronAssumption DEF TickJobs, Underway
<1>3. disk' = store /\ mem'[Primary] = store
    BY CronAssumption DEF Persist, LifeInv, StoresOK
<1>4. /\ Loaded(Primary) => Owned(old)
      /\ Marks(old, TickJobs \ exposed)
      /\ \A j \in Jobs : (j \notin Resulted(Primary) \cup lost \cup exposed /\ old[j] # NoJob) =>
            old[j].lastRun = finished[j]
    <2>1. CASE old = disk
        BY <2>1 DEF AloneInv, MarkersOwned, TickJobsMarked, Recorded
    <2>2. CASE Loaded(Primary) /\ old = mem[Primary]
        BY <2>2 DEF AloneInv, MemoryFollowsFile, SameJobs, MarkersOwned, TickJobsMarked, Recorded
    <2>. QED
        BY <2>1, <2>2
<1>5. TickJobs \subseteq Underway /\ TickJobs \subseteq Jobs /\ TickJobs \subseteq created
    <2>1. TickJobs \subseteq Underway
        BY AloneFacts
    <2>2. TickJobs \subseteq Jobs /\ TickJobs \subseteq created
        BY LifeFacts, CronAssumption DEF TickJobs, Of
    <2>. QED
        BY <2>1, <2>2
<1>6. MemoryFollowsFile'
    BY <1>3 DEF MemoryFollowsFile, SameJobs
<1>7. \A j \in Jobs : store[j] # NoJob /\ store[j].running # None => j \in Underway \cup lost
    BY <1>4 DEF Calmer, Owned
<1>8. MarkersOwned'
    BY <1>2, <1>3, <1>7 DEF MarkersOwned, Owned
<1>9. Marks(store, TickJobs \ exposed')
    <2>1. ASSUME NEW j \in TickJobs \ exposed', store[j] # NoJob, store[j].running = None
          PROVE  FALSE
        <3>1. old[j] # NoJob /\ j \in Jobs /\ j \in Underway
            BY <1>5, <2>1 DEF Calmer
        <3>2. old[j].running # None
            BY <1>4, <2>1, <3>1 DEF Marks
        <3>3. j \in Cleared(old, store)
            BY <2>1, <3>1, <3>2 DEF Cleared
        <3>. QED
            BY <2>1, <3>1, <3>3
    <2>. QED
        BY <2>1 DEF Marks
<1>10. TickJobsMarked'
    BY <1>2, <1>3, <1>9 DEF AloneInv, TickJobsMarked, Marks
<1>11. Recorded'
    <2>1. ASSUME NEW j \in Jobs, j \notin Resulted(Primary) \cup lost \cup exposed', store[j] # NoJob
          PROVE  store[j].lastRun = finished[j]
        BY <1>4, <2>1 DEF Calmer, LifeInv, JobsKnown
    <2>2. \A res \in tick[Primary].results : res.job \notin lost \cup exposed' =>
             finished[res.job] = res.start
        BY DEF AloneInv, Recorded
    <2>. QED
        BY <1>1, <1>3, <2>1, <2>2, CronAssumption DEF Recorded
<1>. QED
    BY <1>6, <1>8, <1>10, <1>11 DEF AloneInv

\* The start, the clock, a timer, and the end of a tick.
LEMMA IdleStepsKeepAlone ==
    ASSUME LifeInv, AloneInv, Alone,
           \/ Boot \/ TimePasses \/ UNCHANGED vars
           \/ \E s \in Services : TimerFires(s) \/ EndTick(s)
    PROVE  AloneInv'
<1>1. CASE Boot
    <2>1. /\ UNCHANGED <<disk, mem, exec, finished, exposed, lost, fresh, tick>>
          /\ phase' = [phase EXCEPT ![Primary] = "loading"]
        BY <1>1 DEF Boot, history
    <2>2. ~Loaded(Primary)'
        BY <2>1, CronAssumption DEF Loaded, LifeInv, RestTyped
    <2>. QED
        BY <2>1, <2>2, IdleStepKeepsAlone
<1>2. CASE TimePasses \/ UNCHANGED vars
    <2>1. UNCHANGED <<disk, mem, exec, finished, exposed, lost, fresh, tick, phase>>
        BY <1>2 DEF TimePasses, history, services, vars
    <2>2. Loaded(Primary)' => Loaded(Primary)
        BY <2>1 DEF Loaded
    <2>. QED
        BY <2>1, <2>2, IdleStepKeepsAlone
<1>3. ASSUME NEW s \in Services, TimerFires(s) PROVE AloneInv'
    <2>1. /\ UNCHANGED <<disk, mem, exec, finished, exposed, lost, fresh, phase>>
          /\ tick' = [tick EXCEPT ![s].at = "collect"]
        BY <1>3 DEF TimerFires, history
    <2>2. \A t \in Services : tick'[t].todo = tick[t].todo /\ tick'[t].results = tick[t].results
        BY <2>1 DEF LifeInv, RestTyped, TickType
    <2>3. Loaded(Primary)' => Loaded(Primary)
        BY <2>1 DEF Loaded
    <2>. QED
        BY <2>1, <2>2, <2>3, IdleStepKeepsAlone
<1>4. ASSUME NEW s \in Services, EndTick(s) PROVE AloneInv'
    <2>1. /\ UNCHANGED <<disk, mem, exec, finished, exposed, lost, fresh, phase>>
          /\ tick' = [tick EXCEPT ![s] = IdleTick] /\ tick[s].at = "sweep"
        BY <1>4 DEF EndTick, history
    <2>2. \A t \in Services : tick'[t].todo = tick[t].todo /\ tick'[t].results = tick[t].results
        BY <2>1, IdleTickTyped DEF LifeInv, RestTyped, ServiceOK
    <2>3. Loaded(Primary)' => Loaded(Primary)
        BY <2>1 DEF Loaded
    <2>. QED
        BY <2>1, <2>2, <2>3, IdleStepKeepsAlone
<1>. QED
    BY <1>1, <1>2, <1>3, <1>4

\* The two sections of a start.
LEMMA StartKeepsAlone ==
    ASSUME LifeInv, AloneInv, Alone, NEW s \in Services, StartLoad(s) \/ StartFinish(s)
    PROVE  AloneInv'
<1>1. s = Primary
    BY AloneFacts DEF StartLoad, StartFinish
<1>2. CASE StartLoad(s)
    <2>1. PICK store : store = Unmarked(disk)
        OBVIOUS
    <2>2. /\ phase[Primary] = "loading" /\ Persist(Primary, store) /\ Expose(Cleared(disk, store))
          /\ UNCHANGED <<tick, exec, finished, lost>>
        BY <1>1, <1>2, <2>1 DEF StartLoad
    <2>3. Milder(disk, store) /\ \A j \in Jobs : store[j] # NoJob => store[j].running = None
        BY <2>1, UnmarkedFacts, LifeFacts
    <2>4. TickJobs = {}
        BY <2>2, NoTickJobs, CronAssumption DEF LifeInv, ServiceOK, Down
    <2>5. exposed \subseteq exposed' /\ Cleared(disk, store) \cap Underway \subseteq exposed'
        BY <2>2, ExposeFacts, ClearedTyped DEF LifeInv, RestTyped
    <2>6. Calmer(disk, store)
        BY <2>3, MilderIsCalmer
    <2>. QED
        BY <2>2, <2>3, <2>4, <2>5, <2>6, CalmSectionKeepsAlone
<1>3. CASE StartFinish(s)
    <2>1. PICK store : store = Recompute(disk)
        OBVIOUS
    <2>2. /\ phase[Primary] = "catchup" /\ Persist(Primary, store) /\ Expose(Cleared(disk, store))
          /\ UNCHANGED <<fresh, exec, finished, lost>>
          /\ tick' = [tick EXCEPT ![Primary].live = FALSE]
        BY <1>1, <1>3, <2>1 DEF StartFinish
    <2>3. Milder(disk, store)
        BY <2>1, RecomputeFacts, LifeFacts
    <2>4. \A t \in Services : tick'[t].todo = tick[t].todo /\ tick'[t].results = tick[t].results
        BY <2>2 DEF LifeInv, RestTyped, TickType
    <2>5. exposed \subseteq exposed' /\ Cleared(disk, store) \cap Underway \subseteq exposed'
        BY <2>2, ExposeFacts, ClearedTyped DEF LifeInv, RestTyped
    <2>6. Loaded(Primary)
        BY <2>2 DEF Loaded
    <2>7. Calmer(disk, store)
        BY <2>3, MilderIsCalmer
    <2>. QED
        BY <2>2, <2>4, <2>5, <2>6, <2>7, CalmSectionKeepsAlone
<1>. QED
    BY <1>2, <1>3

\* The operations that write the memory of the service, and maintenance.
LEMMA ReadKeepsAlone ==
    ASSUME LifeInv, AloneInv, Alone, Read
    PROVE  AloneInv'
<1>1. PICK store : store = Maintenance(mem[Primary])
    OBVIOUS
<1>2. /\ Loaded(Primary) /\ Persist(Primary, store) /\ Expose(Cleared(mem[Primary], store))
      /\ UNCHANGED <<fresh, tick, exec, finished, lost>>
    BY <1>1 DEF Read, services
<1>3. Milder(mem[Primary], store)
    BY <1>1, MaintenanceFacts, LifeFacts, CronAssumption
<1>4. exposed \subseteq exposed' /\ Cleared(mem[Primary], store) \cap Underway \subseteq exposed'
    BY <1>2, ExposeFacts, ClearedTyped DEF LifeInv, RestTyped
<1>5. Calmer(mem[Primary], store)
    BY <1>3, MilderIsCalmer
<1>. QED
    BY <1>2, <1>4, <1>5, CalmSectionKeepsAlone

\* A client adds a job, which is new to the file.
LEMMA AddKeepsAlone ==
    ASSUME LifeInv, AloneInv, Alone, NEW j \in Jobs, Add(j)
    PROVE  AloneInv'
<1>1. PICK store : store = AddedStore(j)
    OBVIOUS
<1>2. /\ Loaded(Primary) /\ Persist(Primary, store) /\ Expose(Cleared(mem[Primary], store))
      /\ j \notin created /\ UNCHANGED <<fresh, tick, exec, finished, lost>>
    BY <1>1 DEF Add, AddedStore, Op
<1>3. /\ store[j].running = None /\ store[j].lastRun = None
      /\ \A k \in Jobs \ {j} :
            /\ store[k] = NoJob <=> mem[Primary][k] = NoJob
            /\ store[k] # NoJob => /\ store[k].lastRun = mem[Primary][k].lastRun
                                   /\ store[k].running \in {None, mem[Primary][k].running}
    BY <1>1, AddStore
<1>4. Calmer(mem[Primary], store)
    BY <1>2, <1>3 DEF Calmer
<1>5. exposed \subseteq exposed' /\ Cleared(mem[Primary], store) \cap Underway \subseteq exposed'
    BY <1>2, ExposeFacts, ClearedTyped DEF LifeInv, RestTyped
<1>. QED
    BY <1>2, <1>4, <1>5, CalmSectionKeepsAlone

\* A client updates a job.
LEMMA UpdateKeepsAlone ==
    ASSUME LifeInv, AloneInv, Alone, NEW j \in Jobs, NEW on \in BOOLEAN, Update(j, on)
    PROVE  AloneInv'
<1>1. PICK store : store = UpdatedStore(j, on)
    OBVIOUS
<1>2. /\ Loaded(Primary) /\ Persist(Primary, store) /\ Expose(Cleared(mem[Primary], store))
      /\ mem[Primary][j] # NoJob /\ UNCHANGED <<fresh, tick, exec, finished, lost>>
    BY <1>1 DEF Update, UpdatedStore, Op
<1>3. Milder(mem[Primary], store)
    BY <1>1, <1>2, UpdateStore
<1>4. exposed \subseteq exposed' /\ Cleared(mem[Primary], store) \cap Underway \subseteq exposed'
    BY <1>2, ExposeFacts, ClearedTyped DEF LifeInv, RestTyped
<1>5. Calmer(mem[Primary], store)
    BY <1>3, MilderIsCalmer
<1>. QED
    BY <1>2, <1>4, <1>5, CalmSectionKeepsAlone

\* A client removes a job.
LEMMA RemoveKeepsAlone ==
    ASSUME LifeInv, AloneInv, Alone, NEW j \in Jobs, Remove(j)
    PROVE  AloneInv'
<1>1. PICK store : store = RemovedStore(j)
    OBVIOUS
<1>2. /\ Loaded(Primary) /\ Persist(Primary, store)
      /\ UNCHANGED <<fresh, tick, exec, finished, lost, exposed>>
    BY <1>1 DEF Remove, RemovedStore, Op
<1>3. store[j] = NoJob /\ \A k \in Jobs \ {j} : store[k] = mem[Primary][k]
    BY <1>1, RemoveStore
<1>4. Calmer(mem[Primary], store) /\ Cleared(mem[Primary], store) = {}
    BY <1>3 DEF Calmer, Cleared
<1>. QED
    BY <1>2, <1>4, CalmSectionKeepsAlone

\* An execution begins that is not a manual one, or one of a job without a
\* marker in memory.
LEMMA BeginKeepsAlone ==
    ASSUME LifeInv, AloneInv, Alone, Loaded(Primary), NEW j \in created, NEW live \in BOOLEAN,
           NEW by \in {"tick", "catchup", "manual"}, Began(Primary, j, by), Mark(Primary, j, live),
           by = "manual" => mem[Primary][j] # NoJob /\ mem[Primary][j].running = None,
           UNCHANGED <<disk, fresh, finished, exposed, lost, created>>,
           \A s \in Services : tick'[s].results = tick[s].results,
           \A s \in Services : tick'[s].todo = IF by = "tick" /\ s = Primary THEN tick[s].todo \ {j}
                                               ELSE tick[s].todo,
           by = "tick" => j \in tick[Primary].todo
    PROVE  AloneInv'
<1>1. PICK e \in Execution :
          /\ e.job = j /\ e.by = by /\ exec' = exec \cup {e} /\ Executing' = Executing \cup {j}
          /\ Of(Primary, "tick")' = IF by = "tick" THEN Of(Primary, "tick") \cup {e}
                                    ELSE Of(Primary, "tick")
    BY BeganFacts, CronAssumption
<1>2. j \in Jobs /\ now \in Nat /\ Primary \in Services
    BY CronAssumption, LifeFacts DEF LifeInv, RestTyped
<1>3. /\ SameJobs(mem'[Primary], mem[Primary])
      /\ \A k \in Jobs \ {j} : mem'[Primary][k] = mem[Primary][k]
      /\ mem'[Primary][j] # NoJob /\ mem[Primary][j].running # None => mem'[Primary][j].running # None
    BY <1>2, MarkKeepsStores DEF LifeInv
<1>4. \A s \in Services : Resulted(s)' = Resulted(s)
    BY DEF Resulted
<1>5. TickJobs' = TickJobs
    <2>1. CASE by = "tick"
        BY <1>1, <1>2, <1>4, <2>1 DEF TickJobs
    <2>2. CASE by # "tick"
        BY <1>1, <1>2, <1>4, <2>2 DEF TickJobs
    <2>. QED
        BY <2>1, <2>2
<1>6. Underway \subseteq Underway' /\ j \in Underway'
    <2>1. j \in Underway'
        BY <1>1 DEF Underway
    <2>2. Executing \subseteq Executing'
        BY <1>1
    <2>3. \A s \in Services : tick[s].todo \subseteq tick'[s].todo \cup {j}
        OBVIOUS
    <2>. QED
        BY <1>4, <2>1, <2>2, <2>3 DEF Underway
<1>7. MemoryFollowsFile'
    BY <1>3 DEF AloneInv, MemoryFollowsFile, SameJobs
<1>8. MarkersOwned'
    <2>1. Owned(disk)'
        BY <1>6 DEF AloneInv, MarkersOwned, Owned
    <2>2. Owned(mem[Primary])'
        BY <1>3, <1>6 DEF AloneInv, MarkersOwned, Owned
    <2>. QED
        BY <2>1, <2>2 DEF MarkersOwned
<1>9. TickJobsMarked'
    <2>1. Marks(disk, TickJobs \ exposed) /\ Marks(mem[Primary], TickJobs \ exposed)
          /\ (\A f \in exec : f.by = "manual" => f.job \notin TickJobs \ exposed)
          /\ (fresh[Primary] => TickJobs = {})
        BY DEF AloneInv, TickJobsMarked
    <2>2. TickJobs \subseteq Jobs
        BY LifeFacts, CronAssumption DEF TickJobs, Of
    <2>3. Marks(mem'[Primary], TickJobs \ exposed)
        <3>1. \A k \in Jobs : mem[Primary][k] = NoJob => mem'[Primary][k] = NoJob
            BY <1>3 DEF SameJobs
        <3>. QED
            BY <1>2, <1>3, <2>1, <2>2, <3>1 DEF Marks
    <2>4. by = "manual" => j \notin TickJobs \ exposed
        BY <2>1 DEF Marks
    <2>5. \A f \in exec' : f.by = "manual" => f.job \notin TickJobs \ exposed
        BY <1>1, <2>1, <2>4
    <2>. QED
        BY <1>5, <2>1, <2>3, <2>5 DEF TickJobsMarked, Marks
<1>10. Recorded'
    BY <1>2, <1>4 DEF AloneInv, Recorded
<1>. QED
    BY <1>7, <1>8, <1>9, <1>10 DEF AloneInv

\* The three ways an execution begins.
LEMMA BeginsKeepAlone ==
    ASSUME LifeInv, AloneInv, Alone, NEW j \in Jobs,
           RunBegin(j) \/ \E s \in Services : CatchUpBegin(s, j) \/ BeginDue(s, j)
    PROVE  AloneInv'
<1>1. CASE RunBegin(j)
    <2>1. /\ Loaded(Primary) /\ mem[Primary][j] # NoJob /\ mem[Primary][j].running = None
          /\ Mark(Primary, j, TRUE) /\ Began(Primary, j, "manual")
          /\ UNCHANGED <<disk, fresh, tick, finished, exposed, lost, created>>
        BY <1>1 DEF RunBegin, history, world
    <2>2. j \in created /\ TRUE \in BOOLEAN
        BY <2>1, CronAssumption DEF LifeInv, StoresOK
    <2>. QED
        BY <2>1, <2>2, BeginKeepsAlone
<1>2. ASSUME NEW s \in Services, CatchUpBegin(s, j) PROVE AloneInv'
    <2>1. s = Primary
        BY <1>2, AloneFacts DEF CatchUpBegin
    <2>2. /\ phase[Primary] = "catchup" /\ j \in missed[Primary]
          /\ Mark(Primary, j, fresh[Primary]) /\ Began(Primary, j, "catchup")
          /\ UNCHANGED <<disk, fresh, tick, finished, exposed, lost, created>>
        BY <1>2, <2>1 DEF CatchUpBegin, history, world
    <2>3. Loaded(Primary) /\ j \in created /\ fresh[Primary] \in BOOLEAN
        BY <2>2, CronAssumption, LifeFacts DEF Loaded, LifeInv, RestTyped
    <2>. QED
        BY <2>2, <2>3, BeginKeepsAlone
<1>3. ASSUME NEW s \in Services, BeginDue(s, j) PROVE AloneInv'
    <2>1. s = Primary
        BY <1>3, AloneFacts DEF BeginDue
    <2>2. /\ tick[Primary].at = "run" /\ j \in tick[Primary].todo
          /\ tick' = [tick EXCEPT ![Primary].todo = @ \ {j}]
          /\ Mark(Primary, j, tick[Primary].live) /\ Began(Primary, j, "tick")
          /\ UNCHANGED <<disk, fresh, finished, exposed, lost, created>>
        BY <1>3, <2>1 DEF BeginDue, history, world
    <2>3. j \in created /\ tick[Primary].live \in BOOLEAN
        BY <2>2, CronAssumption, LifeFacts DEF TickType
    <2>4. Loaded(Primary)
        BY <2>2, CronAssumption DEF LifeInv, ServiceOK, Down, Loaded, RestTyped
    <2>5. /\ \A t \in Services \ {Primary} : tick'[t] = tick[t]
          /\ tick'[Primary].todo = tick[Primary].todo \ {j}
          /\ tick'[Primary].results = tick[Primary].results
        BY <2>2, CronAssumption DEF LifeInv, RestTyped, TickType
    <2>6. PICK by \in {"tick", "catchup", "manual"} : by = "tick"
        OBVIOUS
    <2>7. /\ \A t \in Services : tick'[t].results = tick[t].results
          /\ \A t \in Services : tick'[t].todo = IF by = "tick" /\ t = Primary THEN tick[t].todo \ {j}
                                                  ELSE tick[t].todo
        BY <2>5, <2>6
    <2>8. /\ Began(Primary, j, by)
          /\ by = "manual" => mem[Primary][j] # NoJob /\ mem[Primary][j].running = None
        BY <2>2, <2>6
    <2>. QED
        BY <2>2, <2>3, <2>4, <2>7, <2>8, BeginKeepsAlone
<1>. QED
    BY <1>1, <1>2, <1>3

\* What is left of the jobs under way when an execution ends.
LEMMA EndLeaves ==
    ASSUME LifeInv, NEW e \in exec, exec' = exec \ {e},
           \A s \in Services : tick'[s].todo = tick[s].todo /\ tick[s].results \subseteq tick'[s].results
    PROVE  Underway \ {e.job} \subseteq Underway'
<1>1. Executing \ {e.job} \subseteq Executing'
    BY DEF Executing
<1>2. \A s \in Services : Resulted(s) \subseteq Resulted(s)'
    BY DEF Resulted
<1>. QED
    BY <1>1, <1>2 DEF Underway

\* The end of a catch-up's execution: with a fresh object the result reaches
\* the file; without one it is lost.
LEMMA CatchUpEndKeepsAlone ==
    ASSUME LifeInv, AloneInv, Alone, NEW e \in exec, NEW status \in Statuses,
           CatchUpEnd(e, status)
    PROVE  AloneInv'
<1>1. PICK res : res = ResultOf(e, status)
    OBVIOUS
<1>2. PICK applied : applied = [mem[Primary] EXCEPT ![e.job] = Outcome(mem[Primary], e.job, res)]
    OBVIOUS
<1>3. PICK done : done = IF fresh[Primary] \/ Deletes(e.job, res) THEN applied ELSE mem[Primary]
    OBVIOUS
<1>4. e.svc = Primary
    BY AloneFacts
<1>5. /\ e.by = "catchup" /\ Ended(e) /\ Persist(Primary, done)
      /\ lost' = (IF fresh[Primary] THEN lost ELSE lost \cup {e.job})
      /\ UNCHANGED <<phase, fresh, tick, missed, created, exposed>>
    BY <1>1, <1>2, <1>3, <1>4 DEF CatchUpEnd, services, world
<1>6. /\ e.job \in Jobs /\ res \in Result /\ res.job = e.job /\ res.start = e.start
      /\ Primary \in Services /\ TickJobs \subseteq Jobs /\ TickJobs \subseteq Underway
    BY <1>1, CronAssumption, LifeFacts, ResultOfFacts, AloneFacts DEF TickJobs, Of
<1>7. Loaded(Primary)
    BY <1>4, <1>5 DEF Loaded, LifeInv, ExecutionsOK, ExecutionOK
<1>8. /\ exec' = exec \ {e} /\ finished' = [finished EXCEPT ![e.job] = e.start]
      /\ Of(Primary, "tick")' = Of(Primary, "tick")
    BY <1>5, <1>6, EndedFacts
<1>9. /\ applied[e.job] = Outcome(mem[Primary], e.job, res)
      /\ \A k \in Jobs \ {e.job} : applied[k] = mem[Primary][k]
    BY <1>2, <1>6, CatchUpStore
<1>10. /\ \A k \in Jobs \ {e.job} : done[k] = mem[Primary][k]
       /\ mem[Primary][e.job] = NoJob => done[e.job] = NoJob
       /\ fresh[Primary] /\ done[e.job] # NoJob =>
             done[e.job].running = None /\ done[e.job].lastRun = e.start
    BY <1>3, <1>6, <1>9, OutcomeFacts, LifeFacts
<1>11. disk' = done /\ mem'[Primary] = done
    BY <1>5, CronAssumption DEF Persist, LifeInv, StoresOK
<1>12. TickJobs' = TickJobs /\ \A s \in Services : Resulted(s)' = Resulted(s)
    BY <1>5, <1>8 DEF TickJobs, Resulted
<1>13. Underway \ {e.job} \subseteq Underway'
    BY <1>5, <1>8, EndLeaves
<1>14. /\ SameJobs(mem[Primary], disk) /\ Owned(mem[Primary])
       /\ Marks(mem[Primary], TickJobs \ exposed)
       /\ \A f \in exec : f.by = "manual" => f.job \notin TickJobs \ exposed
       /\ fresh[Primary] => TickJobs = {}
       /\ Recorded
    BY <1>7 DEF AloneInv, MemoryFollowsFile, MarkersOwned, TickJobsMarked
<1>15. MemoryFollowsFile'
    BY <1>11 DEF MemoryFollowsFile, SameJobs
<1>16. \A k \in Jobs : done[k] # NoJob /\ done[k].running # None => k \in Underway' \cup lost'
    <2>1. ASSUME NEW k \in Jobs \ {e.job}, done[k] # NoJob, done[k].running # None
          PROVE  k \in Underway' \cup lost'
        BY <1>5, <1>10, <1>13, <1>14, <2>1 DEF Owned
    <2>2. done[e.job] # NoJob /\ done[e.job].running # None => e.job \in lost'
        BY <1>5, <1>10
    <2>. QED
        BY <2>1, <2>2
<1>17. MarkersOwned'
    BY <1>11, <1>16 DEF MarkersOwned, Owned
<1>18. TickJobsMarked'
    <2>1. Marks(done, TickJobs \ exposed)
        <3>1. CASE fresh[Primary]
            BY <1>14, <3>1 DEF Marks
        <3>2. CASE ~fresh[Primary]
            <4>1. done[e.job] = mem[Primary][e.job] \/ done[e.job] = NoJob
                BY <1>3, <1>6, <1>9, <3>2 DEF Outcome
            <4>. QED
                BY <1>6, <1>10, <1>14, <4>1 DEF Marks
        <3>. QED
            BY <3>1, <3>2
    <2>. QED
        BY <1>5, <1>8, <1>11, <1>12, <1>14, <2>1 DEF TickJobsMarked, Marks
<1>19. Recorded'
    <2>1. ASSUME NEW k \in Jobs, k \notin Resulted(Primary) \cup lost' \cup exposed, done[k] # NoJob
          PROVE  done[k].lastRun = finished'[k]
        <3>1. CASE k # e.job
            <4>1. finished'[k] = finished[k] /\ k \notin lost /\ done[k] = mem[Primary][k]
                BY <1>5, <1>8, <1>10, <2>1, <3>1 DEF LifeInv, RestTyped
            <4>. QED
                BY <1>14, <2>1, <4>1 DEF SameJobs, Recorded
        <3>2. CASE k = e.job
            <4>1. fresh[Primary]
                BY <1>5, <2>1, <3>2
            <4>2. finished'[k] = e.start
                BY <1>6, <1>8, <3>2 DEF LifeInv, RestTyped
            <4>. QED
                BY <1>10, <2>1, <3>2, <4>1, <4>2
        <3>. QED
            BY <3>1, <3>2
    <2>2. ASSUME NEW r \in tick[Primary].results, r.job \notin lost' \cup exposed
          PROVE  finished'[r.job] = r.start
        <3>1. r.job \in TickJobs
            BY DEF TickJobs, Resulted
        <3>2. ~fresh[Primary]
            BY <1>14, <3>1
        <3>3. r.job # e.job /\ r.job \notin lost
            BY <1>5, <2>2, <3>2
        <3>4. finished'[r.job] = finished[r.job]
            BY <1>6, <1>8, <3>1, <3>3 DEF LifeInv, RestTyped
        <3>. QED
            BY <1>14, <2>2, <3>3, <3>4 DEF Recorded
    <2>. QED
        BY <1>5, <1>6, <1>11, <1>12, <2>1, <2>2 DEF Recorded
<1>. QED
    BY <1>15, <1>17, <1>18, <1>19 DEF AloneInv

\* The first section of a tick.
LEMMA CollectKeepsAlone ==
    ASSUME LifeInv, AloneInv, Alone, NEW s \in Services, Collect(s)
    PROVE  AloneInv'
<1>1. s = Primary
    BY AloneFacts DEF Collect
<1>2. PICK dueJobs : dueJobs = {j \in Jobs : Runnable(disk[j])}
    OBVIOUS
<1>3. PICK store : store = IF dueJobs = {} THEN Maintenance(disk) ELSE Collected(dueJobs, disk)
    OBVIOUS
<1>4. /\ tick[Primary].at = "collect" /\ manual = None
      /\ Persist(Primary, store) /\ Expose(Cleared(disk, store)) /\ Detach(Primary)
      /\ tick' = [tick EXCEPT ![Primary] = [at |-> IF dueJobs = {} THEN "sweep" ELSE "run", todo |-> dueJobs,
                                            results |-> {}, live |-> TRUE]]
      /\ UNCHANGED <<exec, finished, lost>>
    <2>1. tick[Primary].at = "collect" /\ manual = None /\ UNCHANGED <<exec, finished, lost>>
        BY <1>1 DEF Collect, LockFree
    <2>2. /\ Persist(Primary, store) /\ Expose(Cleared(disk, store)) /\ Detach(Primary)
          /\ tick' = [tick EXCEPT ![Primary] = [at |-> IF dueJobs = {} THEN "sweep" ELSE "run", todo |-> dueJobs,
                                                results |-> {}, live |-> TRUE]]
        <3>1. Persist(Primary, store)
            BY <1>1, <1>2, <1>3 DEF Collect
        <3>2. Expose(Cleared(disk, store)) /\ Detach(Primary)
            BY <1>1, <1>2, <1>3 DEF Collect
        <3>3. tick' = [tick EXCEPT ![Primary] =
                  [at |-> IF dueJobs = {} THEN "sweep" ELSE "run", todo |-> dueJobs,
                   results |-> {}, live |-> TRUE]]
            BY <1>1, <1>2 DEF Collect
        <3>4. QED
            BY <3>1, <3>2, <3>3
    <2>3. QED
        BY <2>1, <2>2
<1>5. /\ \A j \in dueJobs : store[j] # NoJob /\ store[j].running # None
      /\ \A j \in Jobs \ dueJobs : store[j] # NoJob => disk[j] # NoJob
      /\ \A j \in Jobs \ dueJobs : store[j] # NoJob => store[j].running \in {None, disk[j].running}
      /\ \A j \in Jobs : store[j] # NoJob => store[j].lastRun = disk[j].lastRun
    <2>1. \A j \in dueJobs : store[j] # NoJob /\ store[j].running # None
        BY <1>2, <1>3, CollectStore
    <2>2. \A j \in Jobs \ dueJobs : store[j] # NoJob => disk[j] # NoJob
        BY <1>2, <1>3, CollectStore
    <2>3. \A j \in Jobs \ dueJobs : store[j] # NoJob => store[j].running \in {None, disk[j].running}
        BY <1>2, <1>3, CollectStore
    <2>4. \A j \in Jobs : store[j] # NoJob => store[j].lastRun = disk[j].lastRun
        BY <1>2, <1>3, CollectStore
    <2>5. QED
        BY <2>1, <2>2, <2>3, <2>4
<1>6. /\ TickJobs = {} /\ Resulted(Primary) = {} /\ tick[Primary].todo = {}
      /\ Of(Primary, "tick") = {}
    BY <1>4, NoTickJobs
<1>7. /\ disk' = store /\ mem'[Primary] = store /\ fresh'[Primary] = FALSE
      /\ tick'[Primary].todo = dueJobs /\ tick'[Primary].results = {}
    BY <1>4, CronAssumption DEF Persist, Detach, LifeInv, StoresOK, RestTyped
<1>8. Resulted(Primary)' = {} /\ TickJobs' = dueJobs
    <2>1. Resulted(Primary)' = {} /\ Of(Primary, "tick")' = {}
        BY <1>4, <1>6, <1>7 DEF Resulted, Of
    <2>. QED
        BY <1>7, <2>1 DEF TickJobs
<1>9. Underway = Executing /\ Executing \cup dueJobs \subseteq Underway'
    <2>1. Executing' = Executing
        BY <1>4 DEF Executing
    <2>. QED
        BY <1>6, <1>7, <2>1, AloneFacts, CronAssumption DEF Underway
<1>10. Loaded(Primary)
    BY <1>4, CronAssumption DEF LifeInv, ServiceOK, Down, Loaded, RestTyped
<1>11. MemoryFollowsFile'
    BY <1>7 DEF MemoryFollowsFile, SameJobs
<1>12. MarkersOwned'
    <2>1. \A j \in Jobs : store[j] # NoJob /\ store[j].running # None => j \in Underway' \cup lost
        BY <1>5, <1>9, <1>10 DEF AloneInv, MarkersOwned, Owned
    <2>. QED
        BY <1>4, <1>7, <2>1 DEF MarkersOwned, Owned
<1>13. TickJobsMarked'
    <2>1. \A e \in exec : e.by # "manual"
        BY <1>4, CronAssumption DEF LifeInv, ExecutionsOK, ExecutionOK
    <2>. QED
        BY <1>4, <1>5, <1>7, <1>8, <2>1 DEF TickJobsMarked, Marks
<1>14. Recorded'
    <2>1. exposed \subseteq exposed'
        BY <1>4, ExposeFacts, ClearedTyped DEF LifeInv, RestTyped
    <2>2. ASSUME NEW j \in Jobs, j \notin lost \cup exposed', store[j] # NoJob
          PROVE  store[j].lastRun = finished[j]
        <3>1. disk[j] # NoJob /\ store[j].lastRun = disk[j].lastRun
            BY <1>2, <1>5, <2>2 DEF Runnable
        <3>. QED
            BY <1>6, <2>1, <2>2, <3>1 DEF AloneInv, Recorded
    <2>. QED
        BY <1>4, <1>7, <1>8, <2>2 DEF Recorded
<1>. QED
    BY <1>11, <1>12, <1>13, <1>14 DEF AloneInv

\* A job of a tick ends.
LEMMA EndDueKeepsAlone ==
    ASSUME LifeInv, AloneInv, Alone, NEW e \in exec, NEW status \in Statuses, EndDue(e, status)
    PROVE  AloneInv'
<1>1. PICK res : res = ResultOf(e, status)
    OBVIOUS
<1>2. e.svc = Primary /\ Primary \in Services
    BY AloneFacts, CronAssumption
<1>3. /\ Ended(e) /\ e.by = "tick"
      /\ UNCHANGED <<disk, mem, phase, missed, fresh, created, exposed, lost>>
    BY DEF EndDue, world
<1>4. /\ e \in Of(Primary, "tick")
      /\ \A t \in Services \ {Primary} : tick'[t] = tick[t]
      /\ tick'[Primary].todo = tick[Primary].todo
      /\ tick'[Primary].results = tick[Primary].results \cup {res}
      /\ Resulted(Primary)' = Resulted(Primary) \cup {e.job}
    BY <1>1, <1>2, EndDueFacts
<1>5. e.job \in Jobs /\ res.job = e.job /\ res.start = e.start
    BY <1>1, LifeFacts, ResultOfFacts
<1>6. /\ exec' = exec \ {e} /\ finished' = [finished EXCEPT ![e.job] = e.start]
      /\ Of(Primary, "tick")' = Of(Primary, "tick") \ {e}
    BY <1>2, <1>3, EndedFacts
<1>7. TickJobs' = TickJobs
    <2>1. {f.job : f \in Of(Primary, "tick")} = {f.job : f \in Of(Primary, "tick")'} \cup {e.job}
        BY <1>4, <1>6
    <2>. QED
        BY <1>4, <2>1 DEF TickJobs
<1>8. Underway \subseteq Underway'
    <2>1. \A s \in Services : tick'[s].todo = tick[s].todo /\ tick[s].results \subseteq tick'[s].results
        BY <1>4
    <2>2. Underway \ {e.job} \subseteq Underway'
        BY <1>6, <2>1, EndLeaves
    <2>3. e.job \in Underway'
        BY <1>2, <1>4 DEF Underway
    <2>. QED
        BY <2>2, <2>3
<1>9. MemoryFollowsFile'
    BY <1>3 DEF AloneInv, MemoryFollowsFile, SameJobs, Loaded
<1>10. MarkersOwned'
    BY <1>3, <1>8 DEF AloneInv, MarkersOwned, Owned, Loaded
<1>11. TickJobsMarked'
    BY <1>3, <1>6, <1>7 DEF AloneInv, TickJobsMarked, Marks
<1>12. Recorded'
    <2>1. \A j \in Jobs : j # e.job => finished'[j] = finished[j]
        BY <1>6 DEF LifeInv, RestTyped
    <2>2. finished'[e.job] = e.start
        BY <1>5, <1>6 DEF LifeInv, RestTyped
    <2>3. ASSUME NEW j \in Jobs, j \notin Resulted(Primary)' \cup lost \cup exposed, disk[j] # NoJob
          PROVE  disk[j].lastRun = finished'[j]
        BY <1>4, <2>1, <2>3 DEF AloneInv, Recorded
    <2>4. ASSUME NEW r \in tick'[Primary].results, r.job \notin lost \cup exposed
          PROVE  finished'[r.job] = r.start
        <3>1. CASE r = res
            BY <1>5, <2>2, <3>1
        <3>2. CASE r \in tick[Primary].results
            <4>1. r.job # e.job
                BY <1>2, <1>4, <3>2 DEF LifeInv, TickOK, Resulted
            <4>2. r.job \in Jobs
                BY <1>2, <3>2, LifeFacts DEF Result
            <4>. QED
                BY <2>1, <2>4, <3>2, <4>1, <4>2 DEF AloneInv, Recorded
        <3>. QED
            BY <1>4, <2>4, <3>1, <3>2
    <2>. QED
        BY <1>3, <2>3, <2>4 DEF Recorded
<1>. QED
    BY <1>9, <1>10, <1>11, <1>12 DEF AloneInv

\* The last section of a tick; or its results are gone.
LEMMA TickEndsKeepAlone ==
    ASSUME LifeInv, AloneInv, Alone, NEW s \in Services, Apply(s) \/ ApplyFails(s)
    PROVE  AloneInv'
<1>1. s = Primary
    BY AloneFacts DEF Apply, ApplyFails, AllRun
<1>2. /\ tick[Primary].at = "run" /\ tick[Primary].todo = {} /\ Of(Primary, "tick") = {}
      /\ manual = None /\ UNCHANGED <<phase, exec, finished>>
    BY <1>1 DEF Apply, ApplyFails, AllRun, LockFree
<1>3. tick'[Primary].todo = {} /\ tick'[Primary].results = {}
    BY <1>1, <1>2 DEF Apply, ApplyFails, LifeInv, RestTyped, TickType
<1>4. TickJobs' = {} /\ Resulted(Primary)' = {}
    <2>1. Of(Primary, "tick")' = {}
        BY <1>2 DEF Of
    <2>. QED
        BY <1>3, <2>1 DEF TickJobs, Resulted
<1>5. TickJobsMarked'
    BY <1>4 DEF TickJobsMarked, Marks
<1>6. Underway = Executing \cup Resulted(Primary) /\ Executing \subseteq Underway'
    BY <1>2, AloneFacts DEF Underway, Executing
<1>7. Loaded(Primary)
    BY <1>2, CronAssumption DEF LifeInv, ServiceOK, Down, Loaded, RestTyped
<1>8. CASE Apply(s)
    <2>1. PICK store : store = Maintenance(Resulting(Primary, disk))
        OBVIOUS
    <2>2. /\ Persist(Primary, store) /\ Expose(Cleared(disk, store) \ Resulted(Primary))
          /\ UNCHANGED lost
        BY <1>1, <1>8, <2>1 DEF Apply
    <2>3. /\ \A j \in Jobs : store[j] # NoJob => disk[j] # NoJob
          /\ \A j \in Jobs \ Resulted(Primary) : store[j] # NoJob =>
                /\ store[j].lastRun = disk[j].lastRun
                /\ store[j].running \in {None, disk[j].running}
          /\ \A j \in Resulted(Primary) : store[j] # NoJob =>
                /\ store[j].running = None
                /\ \E res \in tick[Primary].results : res.job = j /\ store[j].lastRun = res.start
        BY <2>1, ApplyStore, CronAssumption
    <2>4. disk' = store /\ mem'[Primary] = store
        BY <2>2, CronAssumption DEF Persist, LifeInv, StoresOK
    <2>5. exposed \subseteq exposed'
        BY <2>2 DEF Expose
    <2>6. MemoryFollowsFile'
        BY <2>4 DEF MemoryFollowsFile, SameJobs
    <2>7. MarkersOwned'
        <3>1. \A j \in Jobs : store[j] # NoJob /\ store[j].running # None => j \in Underway' \cup lost
            BY <1>6, <1>7, <2>3 DEF AloneInv, MarkersOwned, Owned
        <3>. QED
            BY <2>2, <2>4, <3>1 DEF MarkersOwned, Owned
    <2>8. ASSUME NEW j \in Jobs, j \notin lost \cup exposed', store[j] # NoJob
          PROVE  store[j].lastRun = finished[j]
        <3>1. CASE j \in Resulted(Primary)
            BY <2>3, <2>5, <2>8, <3>1 DEF AloneInv, Recorded
        <3>2. CASE j \notin Resulted(Primary)
            BY <2>3, <2>5, <2>8, <3>2 DEF AloneInv, Recorded
        <3>. QED
            BY <3>1, <3>2
    <2>9. Recorded'
        BY <1>2, <1>3, <1>4, <2>2, <2>4, <2>8 DEF Recorded
    <2>. QED
        BY <1>5, <2>6, <2>7, <2>9 DEF AloneInv
<1>9. CASE ApplyFails(s)
    <2>1. UNCHANGED <<disk, mem, exposed>> /\ lost' = lost \cup Resulted(Primary)
        BY <1>1, <1>9 DEF ApplyFails
    <2>2. MemoryFollowsFile'
        BY <1>7, <2>1 DEF AloneInv, MemoryFollowsFile, SameJobs
    <2>3. MarkersOwned'
        BY <1>6, <1>7, <2>1 DEF AloneInv, MarkersOwned, Owned
    <2>4. Recorded'
        BY <1>2, <1>3, <1>4, <2>1 DEF AloneInv, Recorded
    <2>. QED
        BY <1>5, <2>2, <2>3, <2>4 DEF AloneInv
<1>. QED
    BY <1>8, <1>9

\* A manual run ends: its job is not one of the tick's, or was exposed.
LEMMA RunEndKeepsAlone ==
    ASSUME LifeInv, AloneInv, Alone, NEW e \in exec, NEW status \in Statuses, RunEnd(e, status)
    PROVE  AloneInv'
<1>1. PICK res : res = ResultOf(e, status)
    OBVIOUS
<1>2. PICK store : store = RunStore(e.job, res)
    OBVIOUS
<1>3. /\ e.by = "manual" /\ Ended(e) /\ Persist(Primary, store)
      /\ Expose(Cleared(mem[Primary], store) \ {e.job})
      /\ UNCHANGED <<phase, missed, fresh, tick, lost, created>>
    BY <1>1, <1>2 DEF RunEnd, RunStore, world
<1>4. /\ e.job \in Jobs /\ res \in Result /\ res.job = e.job /\ res.start = e.start
      /\ Primary \in Services
    BY <1>1, CronAssumption, LifeFacts, ResultOfFacts
<1>5. Loaded(Primary)
    BY <1>3, <1>4 DEF Loaded, LifeInv, RestTyped, ExecutionsOK, ExecutionOK, Down
<1>6. /\ \A k \in Jobs : store[k] # NoJob => mem[Primary][k] # NoJob
      /\ store[e.job] # NoJob => store[e.job].running = None /\ store[e.job].lastRun = e.start
      /\ \A k \in Jobs \ {e.job} : store[k] # NoJob =>
            /\ store[k].lastRun = mem[Primary][k].lastRun
            /\ store[k].running \in {None, mem[Primary][k].running}
    BY <1>2, <1>4, RunEndStore
<1>7. /\ exec' = exec \ {e} /\ finished' = [finished EXCEPT ![e.job] = e.start]
      /\ Of(Primary, "tick")' = Of(Primary, "tick")
    BY <1>3, <1>4, EndedFacts
<1>8. disk' = store /\ mem'[Primary] = store
    BY <1>3, <1>4 DEF Persist, LifeInv, StoresOK
<1>9. TickJobs' = TickJobs /\ \A s \in Services : Resulted(s)' = Resulted(s)
    BY <1>3, <1>7 DEF TickJobs, Resulted
<1>10. Underway \ {e.job} \subseteq Underway'
    BY <1>3, <1>7, EndLeaves
<1>11. /\ SameJobs(mem[Primary], disk) /\ Owned(mem[Primary])
       /\ Marks(mem[Primary], TickJobs \ exposed)
       /\ \A f \in exec : f.by = "manual" => f.job \notin TickJobs \ exposed
       /\ fresh[Primary] => TickJobs = {}
       /\ Recorded
    BY <1>5 DEF AloneInv, MemoryFollowsFile, MarkersOwned, TickJobsMarked
<1>12. exposed \subseteq exposed' /\ (Cleared(mem[Primary], store) \ {e.job}) \cap Underway \subseteq exposed'
    BY <1>3 DEF Expose
<1>13. TickJobs \subseteq Underway /\ TickJobs \subseteq Jobs
    BY <1>4, LifeFacts, AloneFacts DEF TickJobs, Of
<1>14. MemoryFollowsFile'
    BY <1>8 DEF MemoryFollowsFile, SameJobs
<1>15. MarkersOwned'
    <2>1. \A k \in Jobs : store[k] # NoJob /\ store[k].running # None => k \in Underway' \cup lost
        BY <1>6, <1>10, <1>11 DEF Owned
    <2>. QED
        BY <1>3, <1>8, <2>1 DEF MarkersOwned, Owned
<1>16. TickJobsMarked'
    <2>1. ASSUME NEW k \in TickJobs \ exposed', store[k] # NoJob, store[k].running = None
          PROVE  FALSE
        <3>1. k # e.job /\ k \in Jobs /\ k \in TickJobs \ exposed
            BY <1>3, <1>11, <1>12, <1>13, <2>1
        <3>2. mem[Primary][k] # NoJob /\ mem[Primary][k].running # None
            BY <1>6, <1>11, <2>1, <3>1 DEF Marks
        <3>3. k \in Cleared(mem[Primary], store) \ {e.job}
            BY <2>1, <3>1, <3>2 DEF Cleared
        <3>. QED
            BY <1>12, <1>13, <2>1, <3>3
    <2>2. Marks(store, TickJobs \ exposed')
        BY <2>1 DEF Marks
    <2>3. \A f \in exec' : f.by = "manual" => f.job \notin TickJobs \ exposed'
        BY <1>7, <1>11, <1>12
    <2>. QED
        BY <1>3, <1>8, <1>9, <1>11, <2>2, <2>3 DEF TickJobsMarked, Marks
<1>17. Recorded'
    <2>1. \A k \in Jobs : k # e.job => finished'[k] = finished[k]
        BY <1>7 DEF LifeInv, RestTyped
    <2>2. finished'[e.job] = e.start
        BY <1>4, <1>7 DEF LifeInv, RestTyped
    <2>3. ASSUME NEW k \in Jobs, k \notin Resulted(Primary) \cup lost \cup exposed', store[k] # NoJob
          PROVE  store[k].lastRun = finished'[k]
        <3>1. CASE k = e.job
            BY <1>6, <2>2, <2>3, <3>1
        <3>2. CASE k # e.job
            BY <1>6, <1>11, <1>12, <2>1, <2>3, <3>2 DEF SameJobs, Recorded
        <3>. QED
            BY <3>1, <3>2
    <2>4. ASSUME NEW r \in tick[Primary].results, r.job \notin lost \cup exposed'
          PROVE  finished'[r.job] = r.start
        <3>1. r.job \in TickJobs
            BY DEF TickJobs, Resulted
        <3>2. r.job # e.job
            BY <1>3, <1>11, <1>12, <2>4, <3>1
        <3>. QED
            BY <1>11, <1>12, <1>13, <2>1, <2>4, <3>1, <3>2 DEF Recorded
    <2>. QED
        BY <1>3, <1>4, <1>8, <1>9, <2>3, <2>4 DEF Recorded
<1>. QED
    BY <1>14, <1>15, <1>16, <1>17 DEF AloneInv

\* After a crash, and in the first state, nothing is under way.
LEMMA CrashKeepsAlone ==
    ASSUME LifeInv, Crash
    PROVE  AloneInv'
<1>1. /\ mem' = [s \in Services |-> NoStore] /\ phase' = [s \in Services |-> "off"]
      /\ tick' = [s \in Services |-> IdleTick] /\ exec' = {}
      /\ finished' = [j \in Jobs |-> IF disk[j] = NoJob THEN None ELSE disk[j].lastRun]
      /\ UNCHANGED disk
    BY DEF Crash
<1>2. tick'[Primary].todo = {} /\ tick'[Primary].results = {} /\ ~Loaded(Primary)'
    BY <1>1, IdleTickTyped, CronAssumption DEF Loaded
<1>3. TickJobs' = {}
    BY <1>1, <1>2 DEF TickJobs, Resulted, Of
<1>4. TickJobsMarked'
    BY <1>3 DEF TickJobsMarked, Marks
<1>5. MemoryFollowsFile' /\ MarkersOwned'
    BY <1>2 DEF MemoryFollowsFile, MarkersOwned
<1>6. Recorded'
    BY <1>1, <1>2 DEF Recorded
<1>. QED
    BY <1>4, <1>5, <1>6 DEF AloneInv

\* And in the first state.
LEMMA InitAlone == Init => AloneInv
<1>. SUFFICES ASSUME Init PROVE AloneInv
    OBVIOUS
<1>1. /\ phase = [s \in Services |-> "off"] /\ tick = [s \in Services |-> IdleTick]
      /\ exec = {} /\ finished = [j \in Jobs |-> None]
    BY DEF Init
<1>2. tick[Primary].todo = {} /\ tick[Primary].results = {} /\ ~Loaded(Primary)
    BY <1>1, IdleTickTyped, CronAssumption DEF Loaded
<1>3. TickJobs = {}
    BY <1>1, <1>2 DEF TickJobs, Resulted, Of
<1>4. \A j \in Jobs : disk[j] # NoJob => disk[j].lastRun = None
    <2> DEFINE first(marker) == [enabled |-> TRUE, next |-> 0, running |-> marker, ok |-> FALSE,
                                 lastRun |-> None, errors |-> 0]
    <2>1. disk \in [Jobs -> {NoJob} \cup {first(marker) : marker \in {None, 0}}]
        BY DEF Init
    <2>2. \A marker \in {None, 0} : first(marker).lastRun = None
        OBVIOUS
    <2>. HIDE DEF first
    <2>. QED
        BY <2>1, <2>2
<1>. QED
    BY <1>1, <1>2, <1>3, <1>4
    DEF AloneInv, MemoryFollowsFile, MarkersOwned, TickJobsMarked, Marks, Recorded

\* Only a reload stops a service, and only a crash makes one unstopped.
LEMMA StoppedStays ==
    ASSUME [Next]_vars, ~Crash, ~\E s \in Services : Reload(s)
    PROVE  stopped' = stopped
<1>1. CASE Boot \/ TimePasses \/ UNCHANGED vars
    BY <1>1 DEF Boot, TimePasses, vars, world
<1>2. CASE Client
    BY <1>2 DEF Client, Read, Add, Remove, RunBegin, Update, world
<1>3. ASSUME NEW s \in Services, ServiceStep(s) \/ TimerFires(s) \/ ApplyFails(s)
      PROVE  stopped' = stopped
    BY <1>3 DEF ServiceStep, StartLoad, StartFinish, Collect, Apply, EndTick, CatchUpBegin,
                BeginDue, TimerFires, ApplyFails, world
<1>4. ASSUME NEW e \in exec, NEW status \in StatusesOf(e.job), ExecutionEnds(e, status)
      PROVE  stopped' = stopped
    BY <1>4 DEF ExecutionEnds, CatchUpEnd, EndDue, RunEnd, world
<1>. QED
    BY <1>1, <1>2, <1>3, <1>4 DEF Next

\* Only a crash makes a stopped service forgotten.
LEMMA StoppedOnlyGrows ==
    ASSUME LifeInv, [Next]_vars, ~Crash
    PROVE  Alone' => Alone
<1>1. ASSUME NEW s \in Services, Reload(s) PROVE ~Alone'
    BY <1>1, CronAssumption DEF Reload, Alone
<1>. QED
    BY <1>1, StoppedStays DEF Alone

\* All steps: after a reload, which stops the first service, nothing is claimed.
LEMMA StepKeepsAlone == LifeInv /\ AloneInv /\ [Next]_vars => AloneInv'
<1>. SUFFICES ASSUME LifeInv, AloneInv, [Next]_vars PROVE AloneInv'
    OBVIOUS
<1>1. CASE Crash
    BY <1>1, CrashKeepsAlone
<1>2. CASE ~Alone'
    BY <1>2 DEF AloneInv
<1>3. CASE ~Crash /\ Alone'
    <2>1. Alone
        BY <1>3, StoppedOnlyGrows
    <2>2. CASE Boot \/ TimePasses \/ UNCHANGED vars
        BY <2>1, <2>2, IdleStepsKeepAlone
    <2>3. CASE Client
        BY <2>1, <2>3, ReadKeepsAlone, AddKeepsAlone, RemoveKeepsAlone, BeginsKeepAlone,
           UpdateKeepsAlone DEF Client
    <2>4. ASSUME NEW s \in Services, ServiceStep(s) \/ TimerFires(s) \/ ApplyFails(s)
          PROVE  AloneInv'
        BY <2>1, <2>4, StartKeepsAlone, CollectKeepsAlone, TickEndsKeepAlone, IdleStepsKeepAlone,
           BeginsKeepAlone DEF ServiceStep
    <2>5. ASSUME NEW s \in Services, Reload(s) PROVE AloneInv'
        BY <1>3, <2>5, CronAssumption DEF Reload, Alone
    <2>6. ASSUME NEW e \in exec, NEW status \in StatusesOf(e.job), ExecutionEnds(e, status)
          PROVE  AloneInv'
        <3>1. status \in Statuses
            BY StatusesAreKnown, LifeFacts
        <3>. QED
            BY <2>1, <2>6, <3>1, CatchUpEndKeepsAlone, EndDueKeepsAlone, RunEndKeepsAlone
            DEF ExecutionEnds
    <2>. QED
        BY <1>3, <2>2, <2>3, <2>4, <2>5, <2>6 DEF Next
<1>. QED
    BY <1>1, <1>2, <1>3

-----------------------------------------------------------------------------
(* Timers.                                                                 *)

\* What a recomputation of typed jobs leaves without a next run has none
\* either way; so what maintenance changes is no work.
LEMMA ReadKeepsWork ==
    ASSUME LifeInv, Read
    PROVE  /\ HasWork(mem'[Primary]) => HasWork(mem[Primary])
           /\ \A s \in Services \ {Primary} : mem'[s] = mem[s]
<1>1. Persist(Primary, Maintenance(mem[Primary]))
    BY DEF Read
<1>2. HasWork(Maintenance(mem[Primary])) <=> HasWork(mem[Primary])
    BY MaintenanceFacts, LifeFacts, CronAssumption
<1>3. mem'[Primary] = Maintenance(mem[Primary]) /\ \A s \in Services \ {Primary} : mem'[s] = mem[s]
    BY <1>1, CronAssumption DEF Persist, LifeInv, StoresOK
<1>. QED
    BY <1>2, <1>3

\* An execution that begins changes markers only.
LEMMA MarkKeepsWork ==
    ASSUME LifeInv, NEW s \in Services, NEW j \in Jobs, NEW live \in BOOLEAN, Mark(s, j, live),
           UNCHANGED <<disk, created>>, NEW t \in Services
    PROVE  HasWork(mem'[t]) => HasWork(mem[t])
<1>1. SameJobs(mem'[s], mem[s]) /\ \A u \in Services \ {s} : mem'[u] = mem[u]
    BY MarkKeepsStores, LifeFacts DEF LifeInv
<1>2. HasWork(mem'[s]) => HasWork(mem[s])
    BY <1>1 DEF SameJobs, HasWork
<1>. QED
    BY <1>1, <1>2

\* The scheduler of one service, and its timer.
Awake(s) == (phase[s] = "ready" /\ s \notin stopped /\ HasWork(mem[s])) =>
                timer[s] \/ tick[s].at = "sweep"
Ticking(s) == (s # Primary /\ s \notin stopped /\ tick[s].at \in {"collect", "run"}) => timer[s]

\* The timers are set if each service has its own.
LEMMA TimersSetPerService == TimersSet <=> \A s \in Services : Awake(s) /\ Ticking(s)
BY DEF TimersSet, SchedulerGoesOn, Awake, Ticking

\* A step that leaves what a service's timer depends on.
LEMMA TimerStays ==
    ASSUME NEW s \in Services, Awake(s), Ticking(s), stopped \subseteq stopped',
           HasWork(mem'[s]) => HasWork(mem[s]),
           phase'[s] = phase[s], tick'[s].at = tick[s].at, timer'[s] = timer[s]
    PROVE  Awake(s)' /\ Ticking(s)'
BY DEF Awake, Ticking, HasWork

\* A service that is not up needs no timer.
LEMMA DownNeedsNoTimer ==
    ASSUME NEW s \in Services, phase'[s] # "ready", tick'[s].at = "idle"
    PROVE  Awake(s)' /\ Ticking(s)'
BY DEF Awake, Ticking

\* The first service, while it is up and not stopped, has the file to itself.
LEMMA PrimaryIsAlone ==
    ASSUME LifeInv, Primary \notin stopped
    PROVE  Alone
BY DEF LifeInv, RestTyped, ReloadsStop, Alone

\* The steps of a start.
LEMMA StartKeepsTimers ==
    ASSUME LifeInv, TimersSet, NEW s \in Services, NEW t \in Services,
           StartLoad(s) \/ StartFinish(s)
    PROVE  Awake(t)' /\ Ticking(t)'
<1>1. Awake(t) /\ Ticking(t)
    BY TimersSetPerService
<1>2. PICK store : /\ Persist(s, store)
                   /\ StartFinish(s) => timer' = [timer EXCEPT ![s] = HasWork(store)]
    BY DEF StartLoad, StartFinish
<1>3. mem'[s] = store /\ \A u \in Services \ {s} : mem'[u] = mem[u]
    BY <1>2 DEF Persist, LifeInv, StoresOK
<1>4. /\ stopped' = stopped /\ \A u \in Services \ {s} : phase'[u] = phase[u]
      /\ phase[s] \in {"loading", "catchup"}
      /\ \A u \in Services \ {s} : timer'[u] = timer[u] /\ tick'[u].at = tick[u].at
      /\ tick'[s].at = tick[s].at
      /\ StartLoad(s) => phase'[s] = "catchup"
    BY DEF StartLoad, StartFinish, world, LifeInv, RestTyped, TickType
<1>5. CASE t # s
    BY <1>1, <1>3, <1>4, <1>5, TimerStays
<1>6. CASE t = s
    <2>1. s # Primary => tick[s].at = "idle"
        BY <1>4 DEF LifeInv, ServiceOK
    <2>2. Ticking(s)'
        BY <1>4, <2>1 DEF Ticking
    <2>3. Awake(s)'
        <3>1. CASE StartLoad(s)
            BY <1>4, <3>1 DEF Awake
        <3>2. CASE StartFinish(s)
            <4>1. timer'[s] = HasWork(store)
                BY <1>2, <3>2 DEF LifeInv, RestTyped
            <4>2. HasWork(mem'[s]) => timer'[s]
                BY <1>3, <4>1
            <4>. QED
                BY <4>2 DEF Awake, HasWork
        <3>. QED
            BY <3>1, <3>2
    <2>. QED
        BY <1>6, <2>2, <2>3
<1>. QED
    BY <1>5, <1>6

\* Executions that begin, and those of a tick that end.
LEMMA ExecutionsKeepTimers ==
    ASSUME LifeInv, TimersSet, NEW t \in Services,
           \/ \E j \in Jobs : RunBegin(j) \/ \E s \in Services : CatchUpBegin(s, j) \/ BeginDue(s, j)
           \/ \E e \in exec, status \in Statuses : EndDue(e, status)
    PROVE  Awake(t)' /\ Ticking(t)'
<1>1. Awake(t) /\ Ticking(t)
    BY TimersSetPerService
<1>2. ASSUME NEW j \in Jobs, RunBegin(j) PROVE Awake(t)' /\ Ticking(t)'
    <2>1. Mark(Primary, j, TRUE) /\ UNCHANGED <<disk, created, phase, tick, timer, stopped>>
        BY <1>2 DEF RunBegin, world
    <2>2. HasWork(mem'[t]) => HasWork(mem[t])
        <3>1. TRUE \in BOOLEAN
            OBVIOUS
        <3>. QED
            BY <2>1, <3>1, MarkKeepsWork, CronAssumption
    <2>. QED
        BY <1>1, <2>1, <2>2, TimerStays
<1>3. ASSUME NEW j \in Jobs, NEW s \in Services, CatchUpBegin(s, j) PROVE Awake(t)' /\ Ticking(t)'
    <2>1. Mark(s, j, fresh[s]) /\ UNCHANGED <<disk, created, phase, tick, timer, stopped>>
          /\ fresh[s] \in BOOLEAN
        BY <1>3 DEF CatchUpBegin, world, LifeInv, RestTyped
    <2>2. HasWork(mem'[t]) => HasWork(mem[t])
        BY <2>1, MarkKeepsWork
    <2>. QED
        BY <1>1, <2>1, <2>2, TimerStays
<1>4. ASSUME NEW j \in Jobs, NEW s \in Services, BeginDue(s, j) PROVE Awake(t)' /\ Ticking(t)'
    <2>1. Mark(s, j, tick[s].live) /\ UNCHANGED <<disk, created, phase, timer, stopped>>
          /\ tick[s].live \in BOOLEAN /\ tick'[t].at = tick[t].at
        BY <1>4, LifeFacts DEF BeginDue, world, LifeInv, RestTyped, TickType
    <2>2. HasWork(mem'[t]) => HasWork(mem[t])
        BY <2>1, MarkKeepsWork
    <2>. QED
        BY <1>1, <2>1, <2>2, TimerStays
<1>5. ASSUME NEW e \in exec, NEW status \in Statuses, EndDue(e, status)
      PROVE  Awake(t)' /\ Ticking(t)'
    <2>1. UNCHANGED <<mem, phase, timer, stopped>>
        BY <1>5 DEF EndDue, world
    <2>2. tick'[t].at = tick[t].at
        BY <1>5, EndDueFacts
    <2>. QED
        BY <1>1, <2>1, <2>2, TimerStays
<1>. QED
    BY <1>2, <1>3, <1>4, <1>5

\* A section of the first service that sets its timer by what it writes.
LEMMA ArmedKeepsTimers ==
    ASSUME LifeInv, TimersSet, NEW t \in Services, NEW store, Persist(Primary, store),
           timer' = [timer EXCEPT ![Primary] = HasWork(store)], UNCHANGED <<phase, tick, stopped>>
    PROVE  Awake(t)' /\ Ticking(t)'
<1>1. Awake(t) /\ Ticking(t)
    BY TimersSetPerService
<1>2. /\ mem'[Primary] = store /\ \A u \in Services \ {Primary} : mem'[u] = mem[u]
      /\ timer'[Primary] = HasWork(store) /\ \A u \in Services \ {Primary} : timer'[u] = timer[u]
    BY CronAssumption DEF Persist, LifeInv, StoresOK, RestTyped
<1>3. CASE t # Primary
    BY <1>1, <1>2, <1>3, TimerStays
<1>4. CASE t = Primary
    <2>1. HasWork(mem'[t]) => timer'[t]
        BY <1>2, <1>4
    <2>. QED
        BY <1>4, <2>1 DEF Awake, Ticking, HasWork
<1>. QED
    BY <1>3, <1>4

\* The end of a catch-up's execution: its service is not ready yet.
LEMMA CatchUpEndKeepsTimers ==
    ASSUME LifeInv, TimersSet, NEW t \in Services, NEW e \in exec, NEW status \in Statuses,
           CatchUpEnd(e, status)
    PROVE  Awake(t)' /\ Ticking(t)'
<1>1. Awake(t) /\ Ticking(t)
    BY TimersSetPerService
<1>2. PICK store : Persist(e.svc, store)
    BY DEF CatchUpEnd
<1>3. /\ e.svc \in Services /\ phase[e.svc] = "catchup"
      /\ UNCHANGED <<phase, tick, timer, stopped>>
    BY LifeFacts DEF CatchUpEnd, services, world, LifeInv, ExecutionsOK, ExecutionOK
<1>4. \A u \in Services \ {e.svc} : mem'[u] = mem[u]
    BY <1>2, <1>3 DEF Persist, LifeInv, StoresOK
<1>5. CASE t # e.svc
    BY <1>1, <1>3, <1>4, <1>5, TimerStays
<1>6. CASE t = e.svc
    <2>1. t # Primary => tick[t].at = "idle"
        BY <1>3, <1>6 DEF LifeInv, ServiceOK
    <2>. QED
        BY <1>3, <1>6, <2>1 DEF Awake, Ticking
<1>. QED
    BY <1>5, <1>6

\* The first section of a tick may bring the work of the file to memory.
LEMMA CollectKeepsTimers ==
    ASSUME LifeInv, AloneInv, TimersSet, NEW s \in Services, NEW t \in Services, Collect(s)
    PROVE  Awake(t)' /\ Ticking(t)'
<1>1. Awake(t) /\ Ticking(t)
    BY TimersSetPerService
<1>2. PICK dueJobs : dueJobs = {j \in Jobs : Runnable(disk[j])}
    OBVIOUS
<1>3. PICK store : store = IF dueJobs = {} THEN Maintenance(disk) ELSE Collected(dueJobs, disk)
    OBVIOUS
<1>4. /\ tick[s].at = "collect" /\ Persist(s, store) /\ UNCHANGED <<phase, timer, stopped>>
      /\ \A u \in Services \ {s} : tick'[u] = tick[u]
    BY <1>2, <1>3 DEF Collect, world, LifeInv, RestTyped
<1>5. mem'[s] = store /\ \A u \in Services \ {s} : mem'[u] = mem[u]
    BY <1>4 DEF Persist, LifeInv, StoresOK
<1>6. HasWork(store) <=> HasWork(disk)
    BY <1>2, <1>3, CollectStore
<1>7. CASE t # s
    BY <1>1, <1>4, <1>5, <1>7, TimerStays
<1>8. CASE t = s /\ s # Primary
    BY <1>1, <1>4, <1>8 DEF Awake, Ticking
<1>9. CASE t = s /\ s = Primary
    <2>1. ASSUME phase'[s] = "ready", s \notin stopped', HasWork(mem'[s]) PROVE timer'[s]
        <3>1. Alone /\ Loaded(Primary) /\ HasWork(disk)
            BY <1>4, <1>5, <1>6, <1>9, <2>1, PrimaryIsAlone DEF Loaded
        <3>2. HasWork(mem[Primary])
            BY <3>1 DEF AloneInv, MemoryFollowsFile, SameJobs, HasWork
        <3>. QED
            BY <1>1, <1>4, <1>9, <2>1, <3>2 DEF Awake
    <2>2. Awake(s)'
        BY <2>1 DEF Awake, HasWork
    <2>. QED
        BY <1>9, <2>2 DEF Ticking
<1>. QED
    BY <1>7, <1>8, <1>9

\* The rest of a tick.
LEMMA TickKeepsTimers ==
    ASSUME LifeInv, TimersSet, NEW s \in Services, NEW t \in Services,
           TimerFires(s) \/ Apply(s) \/ ApplyFails(s) \/ EndTick(s)
    PROVE  Awake(t)' /\ Ticking(t)'
<1>1. Awake(t) /\ Ticking(t)
    BY TimersSetPerService
<1>2. UNCHANGED <<phase, stopped>> /\ \A u \in Services \ {s} : tick'[u] = tick[u]
    BY DEF TimerFires, Apply, ApplyFails, EndTick, world, LifeInv, RestTyped
<1>3. \A u \in Services \ {s} : timer'[u] = timer[u] /\ mem'[u] = mem[u]
    <2>1. CASE Apply(s)
        BY <2>1 DEF Apply, Persist, LifeInv, RestTyped, StoresOK
    <2>2. CASE TimerFires(s) \/ ApplyFails(s) \/ EndTick(s)
        BY <2>2 DEF TimerFires, ApplyFails, EndTick, LifeInv, RestTyped
    <2>. QED
        BY <2>1, <2>2
<1>4. CASE t # s
    BY <1>1, <1>2, <1>3, <1>4, TimerStays
<1>5. CASE t = s /\ TimerFires(s)
    <2>1. timer'[s]
        BY <1>5 DEF TimerFires
    <2>. QED
        BY <1>5, <2>1 DEF Awake, Ticking
<1>6. CASE t = s /\ (Apply(s) \/ ApplyFails(s))
    <2>1. tick'[s].at = "sweep"
        BY <1>6 DEF Apply, ApplyFails, LifeInv, RestTyped, TickType
    <2>. QED
        BY <1>6, <2>1 DEF Awake, Ticking
<1>7. CASE t = s /\ EndTick(s)
    <2>1. tick'[s].at = "idle" /\ mem' = mem /\ timer'[s] = HasWork(mem[s])
        BY <1>7, IdleTickTyped DEF EndTick, LifeInv, RestTyped
    <2>2. HasWork(mem'[s]) => timer'[s]
        BY <2>1
    <2>. QED
        BY <1>7, <2>1, <2>2 DEF Awake, Ticking, HasWork
<1>. QED
    BY <1>4, <1>5, <1>6, <1>7

\* The gateway comes up, is reloaded, and dies.
LEMMA RestartsKeepTimers ==
    ASSUME LifeInv, TimersSet, NEW t \in Services, Boot \/ Crash \/ \E s \in Services : Reload(s)
    PROVE  Awake(t)' /\ Ticking(t)'
<1>1. CASE Boot
    <2>1. phase'[t] # "ready" /\ tick'[t].at = "idle"
        BY <1>1 DEF Boot, LifeInv, RestTyped, ServiceOK, Down
    <2>. QED
        BY <2>1, DownNeedsNoTimer
<1>2. CASE Crash
    <2>1. phase'[t] # "ready" /\ tick'[t].at = "idle"
        BY <1>2, IdleTickTyped DEF Crash
    <2>. QED
        BY <2>1, DownNeedsNoTimer
<1>3. ASSUME NEW s \in Services, Reload(s) PROVE Awake(t)' /\ Ticking(t)'
    <2>1. /\ stopped' = {u \in Services : phase[u] # "off"} /\ UNCHANGED tick
          /\ phase' = [phase EXCEPT ![s] = "loading"] /\ phase[s] = "off"
        BY <1>3 DEF Reload
    <2>2. CASE phase[t] # "off"
        BY <2>1, <2>2 DEF Awake, Ticking
    <2>3. CASE phase[t] = "off"
        <3>1. phase'[t] # "ready" /\ tick'[t].at = "idle"
            BY <2>1, <2>3 DEF LifeInv, RestTyped, ServiceOK, Down
        <3>. QED
            BY <3>1, DownNeedsNoTimer
    <2>. QED
        BY <2>2, <2>3
<1>. QED
    BY <1>1, <1>2, <1>3

\* Clients, and the clock.
LEMMA ClientsKeepTimers ==
    ASSUME LifeInv, TimersSet, NEW t \in Services,
           \/ Read \/ TimePasses \/ UNCHANGED vars
           \/ \E j \in Jobs : Add(j) \/ Remove(j) \/ \E on \in BOOLEAN : Update(j, on)
           \/ \E e \in exec, status \in Statuses : RunEnd(e, status)
    PROVE  Awake(t)' /\ Ticking(t)'
<1>1. Awake(t) /\ Ticking(t)
    BY TimersSetPerService
<1>2. CASE Read
    <2>1. UNCHANGED <<phase, tick, timer, stopped>>
        BY <1>2 DEF Read, services, world
    <2>2. HasWork(mem'[t]) => HasWork(mem[t])
        BY <1>2, ReadKeepsWork
    <2>. QED
        BY <1>1, <2>1, <2>2, TimerStays
<1>3. CASE TimePasses \/ UNCHANGED vars
    <2>1. UNCHANGED <<mem, phase, tick, timer, stopped>>
        BY <1>3 DEF TimePasses, services, world, vars
    <2>. QED
        BY <1>1, <2>1, TimerStays
<1>4. ASSUME NEW j \in Jobs, Add(j) \/ Remove(j) \/ \E on \in BOOLEAN : Update(j, on)
      PROVE  Awake(t)' /\ Ticking(t)'
    <2>1. PICK store : Op(store) /\ stopped' = stopped
        BY <1>4 DEF Add, Remove, Update, world
    <2>2. /\ Persist(Primary, store) /\ timer' = [timer EXCEPT ![Primary] = HasWork(store)]
          /\ UNCHANGED <<phase, tick, stopped>>
        BY <2>1 DEF Op
    <2>. QED
        BY <2>2, ArmedKeepsTimers
<1>5. ASSUME NEW e \in exec, NEW status \in Statuses, RunEnd(e, status)
      PROVE  Awake(t)' /\ Ticking(t)'
    <2>1. PICK store : /\ Persist(Primary, store)
                       /\ timer' = [timer EXCEPT ![Primary] = HasWork(store)]
        BY <1>5 DEF RunEnd
    <2>2. UNCHANGED <<phase, tick, stopped>>
        BY <1>5 DEF RunEnd, world
    <2>. QED
        BY <2>1, <2>2, ArmedKeepsTimers
<1>. QED
    BY <1>2, <1>3, <1>4, <1>5

\* All steps keep the timers set.
LEMMA StepKeepsTimers == LifeInv /\ AloneInv /\ TimersSet /\ [Next]_vars => TimersSet'
<1>. SUFFICES ASSUME LifeInv, AloneInv, TimersSet, [Next]_vars, NEW t \in Services
              PROVE  Awake(t)' /\ Ticking(t)'
    BY DEF TimersSet, SchedulerGoesOn, Awake, Ticking
<1>1. CASE Boot \/ Crash \/ \E s \in Services : Reload(s)
    BY <1>1, RestartsKeepTimers
<1>2. CASE TimePasses \/ UNCHANGED vars
    BY <1>2, ClientsKeepTimers
<1>3. CASE Client
    BY <1>3, ClientsKeepTimers, ExecutionsKeepTimers DEF Client
<1>4. ASSUME NEW s \in Services, ServiceStep(s) \/ TimerFires(s) \/ ApplyFails(s)
      PROVE  Awake(t)' /\ Ticking(t)'
    BY <1>4, StartKeepsTimers, ExecutionsKeepTimers, CollectKeepsTimers, TickKeepsTimers
    DEF ServiceStep
<1>5. ASSUME NEW e \in exec, NEW status \in StatusesOf(e.job), ExecutionEnds(e, status)
      PROVE  Awake(t)' /\ Ticking(t)'
    <2>1. status \in Statuses
        BY StatusesAreKnown, LifeFacts
    <2>. QED
        BY <1>5, <2>1, CatchUpEndKeepsTimers, ExecutionsKeepTimers, ClientsKeepTimers
        DEF ExecutionEnds
<1>. QED
    BY <1>1, <1>2, <1>3, <1>4, <1>5 DEF Next

-----------------------------------------------------------------------------
(* The theorems about the cron service.                                    *)

\* The invariant holds at first ...
LEMMA InitCron == Init => CronInv
<1>. SUFFICES ASSUME Init PROVE CronInv
    OBVIOUS
<1>1. LifeInv /\ AloneInv
    BY InitLife, InitAlone
<1>2. TimersSet
    <2>1. \A s \in Services : phase[s] = "off" /\ tick[s].at = "idle"
        BY IdleTickTyped DEF Init
    <2>. QED
        BY <2>1 DEF TimersSet, SchedulerGoesOn
<1>. QED
    BY <1>1, <1>2 DEF CronInv

\* ... and every step keeps it.
LEMMA StepCron == CronInv /\ [Next]_vars => CronInv'
BY StepKeepsLife, StepKeepsAlone, StepKeepsTimers DEF CronInv

\* Everything has its type: records, ticks and executions, and the history
\* (the types of src/src/cron/service/state.ts and types.ts).
THEOREM CronTypeCorrect == Spec => []TypeOK
<1>1. CronInv => TypeOK
    BY DEF CronInv, LifeInv, StoresOK, RestTyped, TypeOK
<1>. QED
    BY <1>1, InitCron, StepCron, PTL DEF Spec

\* The scheduler does not fall asleep, for any number of services, jobs and
\* reloads: a service that is up and has work has a timer.
THEOREM CronGoesOn == Spec => []SchedulerGoesOn
<1>1. CronInv => SchedulerGoesOn
    BY DEF CronInv, TimersSet
<1>. QED
    BY <1>1, InitCron, StepCron, PTL DEF Spec

\* No marker is left behind.
LEMMA InvEndsMarkers == CronInv => MarkersEnd
<1>. SUFFICES ASSUME CronInv, stopped = {}, NEW s \in Services, NEW j \in Jobs,
                     phase[s] = "ready", disk[j] # NoJob, disk[j].running # None
              PROVE  j \in Underway \cup lost
    BY DEF MarkersEnd
<1>1. LifeInv /\ AloneInv /\ Alone
    BY DEF CronInv, Alone
<1>2. s = Primary
    BY <1>1, AloneFacts
<1>. QED
    BY <1>1, <1>2 DEF AloneInv, MarkersOwned, Owned, Loaded

\* While no service is stopped, a marker in the file has an execution behind it
\* or a tick that will run or has run the job, or its result was lost.
THEOREM CronMarkersEnd == Spec => []MarkersEnd
BY InvEndsMarkers, InitCron, StepCron, PTL DEF Spec

\* The marker works as long as no reload has stopped the service: what executes
\* twice at once is a catch-up's job, or has lost its marker.
LEMMA InvGuards == CronInv /\ stopped = {} => NoUnguardedOverlap
<1>. SUFFICES ASSUME CronInv, stopped = {}, NEW e \in exec, NEW f \in exec, e # f, e.job = f.job,
                     "catchup" \notin {e.by, f.by}, e.job \notin exposed
              PROVE  FALSE
    BY DEF NoUnguardedOverlap
<1>1. LifeInv /\ AloneInv /\ Alone
    BY DEF CronInv, Alone
<1>2. /\ e.svc = Primary /\ f.svc = Primary
      /\ e.by \in {"tick", "manual"} /\ f.by \in {"tick", "manual"}
    BY <1>1, AloneFacts, LifeFacts DEF Execution
<1>3. ~(e.by = "manual" /\ f.by = "manual")
    BY <1>1 DEF LifeInv, ExecutionsOK
<1>4. ~(e.by = "tick" /\ f.by = "tick")
    BY <1>1, <1>2, CronAssumption DEF LifeInv, TickOK, Of
<1>5. \A g \in exec : g.by = "tick" => g.job \in TickJobs
    BY <1>1, AloneFacts DEF TickJobs, Of
<1>6. \A g \in exec : g.by = "manual" => g.job \notin TickJobs \ exposed
    BY <1>1 DEF AloneInv, TickJobsMarked
<1>. QED
    BY <1>2, <1>3, <1>4, <1>5, <1>6

\* While no service is stopped, a job executes twice at once only if a catch-up
\* is one of the two or the marker was taken away: for any jobs, times and
\* faults, and any number of services still to be started.
THEOREM MarkersGuard == Spec => [](stopped = {} => NoUnguardedOverlap)
<1>1. CronInv => (stopped = {} => NoUnguardedOverlap)
    BY InvGuards
<1>. QED
    BY <1>1, InitCron, StepCron, PTL DEF Spec

\* What ran is on record, as long as no reload has stopped the service.
LEMMA InvRecords == CronInv /\ stopped = {} => ResultsReachFile
<1>. SUFFICES ASSUME CronInv, stopped = {} PROVE ResultsReachFile
    OBVIOUS
<1>1. LifeInv /\ AloneInv /\ Alone
    BY DEF CronInv, Alone
<1>2. Resulted(Primary) \subseteq Underway
    BY <1>1, AloneFacts
<1>. QED
    BY <1>1, <1>2 DEF AloneInv, Recorded, ResultsReachFile

\* While no service is stopped, the file has the last execution of every job of
\* which nothing is under way, lost or exposed.
THEOREM ResultsAreRecorded == Spec => [](stopped = {} => ResultsReachFile)
<1>1. CronInv => (stopped = {} => ResultsReachFile)
    BY InvRecords
<1>. QED
    BY <1>1, InitCron, StepCron, PTL DEF Spec

\* A gateway whose cron configuration is never reloaded has one service, and
\* nothing stops it: there both hold at all times.
OneService == Services = {Primary} /\ stopped = {} /\ CronInv

\* It is so at first ...
LEMMA InitOneService == Services = {Primary} /\ Init => OneService
BY InitCron DEF Init, OneService

\* ... and stays so.
LEMMA StepKeepsOneService == OneService /\ [Next]_vars => OneService'
<1>. SUFFICES ASSUME OneService, [Next]_vars PROVE stopped' = {}
    BY StepCron DEF OneService
<1>1. CASE Crash
    BY <1>1 DEF Crash
<1>2. ~\E s \in Services : Reload(s)
    BY DEF Reload, OneService
<1>. QED
    BY <1>1, <1>2, StoppedStays DEF OneService

\* With one service a job executes twice at once only as NoUnguardedOverlap says.
THEOREM OneServiceGuards == Services = {Primary} /\ Spec => []NoUnguardedOverlap
<1>1. OneService => NoUnguardedOverlap
    BY InvGuards DEF OneService
<1>. QED
    BY <1>1, InitOneService, StepKeepsOneService, PTL DEF Spec

\* The same for what ran.
THEOREM OneServiceRecords == Services = {Primary} /\ Spec => []ResultsReachFile
<1>1. OneService => ResultsReachFile
    BY InvRecords DEF OneService
<1>. QED
    BY <1>1, InitOneService, StepKeepsOneService, PTL DEF Spec

\* A tick moves no due time on but with the result of an execution: the first
\* section keeps what it marks, the last one maintains the jobs without a
\* result, and maintenance keeps a next run that is there.
LEMMA CollectSkipsNothing ==
    ASSUME LifeInv, NEW s \in Services, Collect(s), NEW j \in Jobs
    PROVE  OccurrenceKept(j)
<1>. SUFFICES ASSUME Runnable(disk[j]) PROVE disk'[j].next = disk[j].next
    BY DEF OccurrenceKept
<1>1. PICK dueJobs : dueJobs = {k \in Jobs : Runnable(disk[k])}
    OBVIOUS
<1>2. j \in dueJobs /\ dueJobs \in SUBSET Jobs /\ \A k \in dueJobs : disk[k] # NoJob
    BY <1>1 DEF Runnable
<1>3. PICK store : store = Collected(dueJobs, disk)
    OBVIOUS
<1>4. SameJobs(store, disk) /\ store[j] # NoJob
    BY <1>2, <1>3, CollectedFacts, LifeFacts DEF SameJobs
<1>5. disk' = store
    BY <1>1, <1>2, <1>3 DEF Collect, Persist
<1>. QED
    BY <1>4, <1>5 DEF SameJobs

\* The last section maintains a job without a result, and keeps its next run.
LEMMA ApplySkipsNothing ==
    ASSUME LifeInv, NEW s \in Services, Apply(s), NEW j \in Jobs
    PROVE  OccurrenceKept(j)
<1>. SUFFICES ASSUME Runnable(disk[j]), j \notin Underway PROVE disk'[j].next = disk[j].next
    BY DEF OccurrenceKept
<1>1. PICK mid : mid = Resulting(s, disk)
    OBVIOUS
<1>2. disk[j] # NoJob /\ disk[j].enabled
    BY DEF Runnable
<1>3. j \notin Resulted(s) /\ now \in Nat /\ disk[j] \in JobType /\ Settled(j, disk[j])
    BY <1>2, LifeFacts, TypedFacts DEF Underway
<1>4. mid[j] = disk[j]
    BY <1>1, <1>3, ResultingFacts, LifeFacts
<1>5. disk'[j] = Maintained(j, disk[j])
    BY <1>1, <1>2, <1>4 DEF Apply, Persist, Maintenance
<1>. QED
    BY <1>2, <1>3, <1>5, MaintainedFacts

\* No tick moves a due time on but with the result of an execution
\* (timer.ts:572-576), for any number of services.
THEOREM TicksKeepOccurrences == Spec => TicksSkipNothing
<1>1. LifeInv /\ [Next]_vars =>
         [(\E s \in Services : Collect(s) \/ Apply(s)) => \A j \in Jobs : OccurrenceKept(j)]_vars
    BY CollectSkipsNothing, ApplySkipsNothing
<1>. QED
    BY <1>1, InitLife, StepKeepsLife, PTL DEF Spec, TicksSkipNothing

-----------------------------------------------------------------------------
(* Heartbeats.                                                             *)

-----------------------------------------------------------------------------
(* The invariant.                                                          *)

\* Only a run has agents left to beat, and heartbeats that were never disabled
\* are enabled.
RunsHaveWork ==
    /\ run.todo # {} => Running
    /\ ~paused => enabled

\* A run that will not set the interval timer need not: it is set already, or
\* a wake is coming.  Such a run began without agents, or outlived its runner.
ChainGoesOn ==
    (handler /\ agents # {} /\ ~paused) =>
        armed \/ wakeTimer \/ (Running /\ run.rearms)

HeartbeatInv ==
    /\ HeartbeatTypeOK /\ RunsHaveWork
    /\ PendingHasTimer /\ TimerHasReason /\ ChainGoesOn

-----------------------------------------------------------------------------
(* The steps.                                                              *)

\* What a run has when it is none, and how Running reads in terms of its reason.
LEMMA RunFacts ==
    ASSUME HeartbeatInv
    PROVE  /\ NoRun \in [reason : Reasons \cup {NoReason}, todo : SUBSET Agents,
                         rearms : BOOLEAN, writes : BOOLEAN]
           /\ Running <=> run.reason # NoReason
           /\ ~Running => run.todo = {}
<1>1. Running => run.reason # NoReason
    BY DEF HeartbeatInv, TimerHasReason
<1>2. run.reason # NoReason => Running
    BY DEF Running, NoRun
<1>3. ~Running => run.todo = {}
    BY DEF HeartbeatInv, RunsHaveWork
<1>. QED
    BY <1>1, <1>2, <1>3 DEF NoRun

\* A wake that reaches the free handler begins a run with the pending reason,
\* which sets the interval timer again if there are agents to serve.
LEMMA BegunFacts ==
    ASSUME HeartbeatInv, wakeTimer, ~Running
    PROVE  /\ Begun(pending) \in [reason : Reasons \cup {NoReason}, todo : SUBSET Agents,
                                  rearms : BOOLEAN, writes : BOOLEAN]
           /\ Begun(pending).reason = pending /\ pending # NoReason
           /\ Begun(pending).rearms <=> (enabled /\ agents # {})
           /\ Begun(pending) # NoRun
<1>1. pending # NoReason /\ pending \in Reasons \cup {NoReason}
    BY DEF HeartbeatInv, TimerHasReason, HeartbeatTypeOK
<1>2. agents \subseteq Agents /\ due \subseteq Agents
    BY DEF HeartbeatInv, HeartbeatTypeOK
<1>3. /\ Begun(pending).reason = pending
      /\ Begun(pending).rearms = (enabled /\ agents # {})
      /\ Begun(pending).todo \subseteq Agents
    BY <1>2 DEF Begun
<1>4. Begun(pending) \in [reason : Reasons \cup {NoReason}, todo : SUBSET Agents,
                          rearms : BOOLEAN, writes : BOOLEAN]
    BY <1>1, <1>2 DEF Begun
<1>5. Begun(pending) # NoRun
    BY <1>1, <1>3 DEF NoRun
<1>. QED
    BY <1>1, <1>3, <1>4, <1>5

\* The wake timer: without a handler, beside a run, or with a free handler.
LEMMA WakeKeepsInv ==
    ASSUME HeartbeatInv, WakeFires
    PROVE  HeartbeatInv'
<1>. USE DEF HeartbeatInv, HeartbeatTypeOK, RunsHaveWork, PendingHasTimer, TimerHasReason,
             ChainGoesOn, Running, runner
<1>1. CASE ~handler
    BY <1>1 DEF WakeFires
<1>2. CASE handler /\ run # NoRun
    BY <1>2 DEF WakeFires
<1>3. CASE handler /\ run = NoRun
    BY <1>3, BegunFacts DEF WakeFires
<1>. QED
    BY <1>1, <1>2, <1>3

\* A run that ends or gives up sets the timer for whatever is pending by then.
LEMMA RunStepKeepsInv ==
    ASSUME HeartbeatInv, RunStep
    PROVE  HeartbeatInv'
<1>. USE DEF HeartbeatInv, HeartbeatTypeOK, RunsHaveWork, PendingHasTimer,
            TimerHasReason, ChainGoesOn
<1>1. CASE EndRun
    BY <1>1, RunFacts DEF EndRun, Returned, Running, NoRun, runner
<1>2. CASE GiveUp
    BY <1>2, RunFacts DEF GiveUp, Returned, Running, NoRun, runner
<1>3. ASSUME NEW a \in Agents, Beat(a) PROVE HeartbeatInv'
    BY <1>3, RunFacts DEF Beat, Running, NoRun, wake
<1>4. ASSUME NEW a \in Agents, SkipBeat(a) PROVE HeartbeatInv'
    BY <1>4, RunFacts DEF SkipBeat, Running, NoRun, wake, runner
<1>. QED
    BY <1>1, <1>2, <1>3, <1>4 DEF RunStep

\* Starts, stops and reloads leave the interval timer set if there are agents.
LEMMA ConfigKeepsInv ==
    ASSUME HeartbeatInv, NEW next \in SUBSET Agents,
           StartRunner(next) \/ StopRunner \/ \E d \in SUBSET next : UpdateConfig(next, d)
    PROVE  HeartbeatInv'
<1>. USE DEF HeartbeatInv, HeartbeatTypeOK, RunsHaveWork, PendingHasTimer,
            TimerHasReason, ChainGoesOn
<1>1. CASE StartRunner(next)
    BY <1>1 DEF StartRunner, Running
<1>2. CASE StopRunner
    BY <1>2, RunFacts DEF StopRunner, Running, NoRun
<1>3. ASSUME NEW d \in SUBSET next, UpdateConfig(next, d) PROVE HeartbeatInv'
    BY <1>3, RunFacts DEF UpdateConfig, Running, NoRun, wake
<1>. QED
    BY <1>1, <1>2, <1>3

\* The invariant holds throughout.
LEMMA HeartbeatInvariant == HeartbeatSpec => []HeartbeatInv
<1>1. HeartbeatInit => HeartbeatInv
    <2>. SUFFICES ASSUME HeartbeatInit PROVE HeartbeatInv
        OBVIOUS
    <2>1. HeartbeatTypeOK
        BY DEF HeartbeatInit, HeartbeatTypeOK, NoRun
    <2>2. RunsHaveWork /\ PendingHasTimer /\ TimerHasReason /\ ChainGoesOn
        BY DEF HeartbeatInit, RunsHaveWork, PendingHasTimer, TimerHasReason,
               ChainGoesOn, Running, NoRun
    <2>. QED
        BY <2>1, <2>2 DEF HeartbeatInv
<1>2. ASSUME HeartbeatInv, [HeartbeatNext]_heartbeatVars PROVE HeartbeatInv'
    <2>. USE DEF HeartbeatInv, HeartbeatTypeOK, RunsHaveWork, PendingHasTimer, TimerHasReason,
                 ChainGoesOn, Running
    <2>1. ASSUME NEW reason \in Events, Request(reason) PROVE HeartbeatInv'
        BY <1>2, <2>1, HeartbeatAssumption DEF Request, Requested, Reasons, runner
    <2>2. CASE IntervalElapses
        BY <1>2, <2>2, HeartbeatAssumption DEF IntervalElapses, Requested, Reasons
    <2>3. ASSUME NEW a \in Agents, BecomesDue(a) PROVE HeartbeatInv'
        BY <1>2, <2>3 DEF BecomesDue, wake
    <2>4. ASSUME NEW on \in BOOLEAN, SetHeartbeatsEnabled(on) PROVE HeartbeatInv'
        BY <1>2, <2>4 DEF SetHeartbeatsEnabled, wake, runner
    <2>5. CASE UNCHANGED heartbeatVars
        BY <1>2, <2>5 DEF heartbeatVars, wake, runner
    <2>. QED
        BY <1>2, <2>1, <2>2, <2>3, <2>4, <2>5, WakeKeepsInv, RunStepKeepsInv,
           ConfigKeepsInv
        DEF HeartbeatNext
<1>. QED
    BY <1>1, <1>2, PTL DEF HeartbeatSpec

-----------------------------------------------------------------------------
(* The theorems.                                                           *)

\* The variables of the wake, the runner and the run keep their types.
THEOREM HeartbeatTypeCorrect == HeartbeatSpec => []HeartbeatTypeOK
<1>1. HeartbeatInv => HeartbeatTypeOK
    BY DEF HeartbeatInv
<1>. QED
    BY <1>1, HeartbeatInvariant, PTL

\* A pending wake has a timer while a handler is installed, and a timer that
\* reaches the handler has a reason: through retries, overlapping wakes and
\* restarts of the runner.
THEOREM WakesAreKept == HeartbeatSpec => []TimerFollowsWakes
<1>1. HeartbeatInv => TimerFollowsWakes
    BY DEF HeartbeatInv, TimerFollowsWakes
<1>. QED
    BY <1>1, HeartbeatInvariant, PTL

\* While heartbeats stay enabled, the interval timer is set or a wake or a run
\* will set it, whatever reloads, restarts and runs that give up.
THEOREM HeartbeatStaysAlive == HeartbeatSpec => []HeartbeatGoesOn
<1>1. HeartbeatInv => HeartbeatGoesOn
    BY DEF HeartbeatInv, ChainGoesOn, HeartbeatGoesOn
<1>. QED
    BY <1>1, HeartbeatInvariant, PTL

\* A handler call returns before another begins.
THEOREM HandlerCallsDoNotOverlap == HeartbeatSpec => OneRunAtATime
<1>1. ASSUME HeartbeatInv, [HeartbeatNext]_heartbeatVars
      PROVE  [(Running /\ run' # NoRun) => /\ run'.reason = run.reason
                                           /\ run'.todo \subseteq run.todo]_heartbeatVars
    <2>. SUFFICES ASSUME Running, run' # NoRun
                  PROVE  run'.reason = run.reason /\ run'.todo \subseteq run.todo
        OBVIOUS
    <2>1. CASE UNCHANGED run
        BY <2>1
    <2>2. CASE RunStep
        BY <1>1, <2>2
        DEF RunStep, EndRun, GiveUp, Returned, Beat, SkipBeat,
            HeartbeatInv, HeartbeatTypeOK
    <2>3. CASE StopRunner
        BY <1>1, <2>3 DEF StopRunner, HeartbeatInv, HeartbeatTypeOK
    <2>4. ASSUME NEW next \in SUBSET Agents, NEW d \in SUBSET next, UpdateConfig(next, d)
          PROVE  run'.reason = run.reason /\ run'.todo \subseteq run.todo
        BY <1>1, <2>4 DEF UpdateConfig, HeartbeatInv, HeartbeatTypeOK
    <2>5. CASE WakeFires
        BY <2>5 DEF WakeFires
    <2>. QED
        BY <1>1, <2>1, <2>2, <2>3, <2>4, <2>5
        DEF HeartbeatNext, Request, IntervalElapses, BecomesDue, StartRunner,
            SetHeartbeatsEnabled, heartbeatVars
<1>. QED
    BY <1>1, HeartbeatInvariant, PTL DEF HeartbeatSpec, OneRunAtATime
==============================================================================
