----------------------------- MODULE CronService -----------------------------
(***************************************************************************)
(* The cron service (src/src/cron/service): jobs in a file, a copy of them *)
(* in the memory of each service, a timer whose ticks run what is due, a   *)
(* catch-up after a start, and the operations of clients.                  *)
(*                                                                         *)
(* locked() chains the sections that read and write the file, so a section *)
(* is one action; only a manual run keeps the lock while a job executes.   *)
(* The catch-up and the jobs of a tick execute outside the lock.  A config *)
(* reload stops one service and starts another on the same file.           *)
(***************************************************************************)
EXTENDS Naturals, FiniteSets

CONSTANTS
    Services,        \* service objects of one gateway process
    Primary,         \* the first one; the request handlers keep calling it
    Jobs, Kind, At,  \* job ids; their schedule kind; the time of one-shot jobs
    Stored,          \* the jobs already in the file when the gateway starts
    MaxConcurrent,   \* cron.maxConcurrentRuns
    Backoff,         \* error backoff, in ticks of the clock; recurring jobs
                     \* have a period of one tick
    MaxRetries,      \* retries of a one-shot job after transient errors
    StuckAfter,      \* STUCK_RUN_MS in ticks of the clock
    MaxNow,          \* bound on the clock
    MaxFaults,       \* bound on crashes and on failing reads of the file
    Requests,        \* bound on the clients: the kinds of requests they make
    None, NoJob

ASSUME CronAssumption ==
    /\ Primary \in Services /\ Stored \subseteq Jobs
    /\ Kind \in [Jobs -> {"every", "at", "once"}]
    /\ At \in [Jobs -> Nat]
    /\ MaxConcurrent \in Nat \ {0} /\ Backoff \in Nat \ {0}
    /\ Requests \subseteq {"read", "add", "update", "remove", "run"}
    /\ MaxRetries \in Nat /\ StuckAfter \in Nat /\ MaxNow \in Nat /\ MaxFaults \in Nat
    /\ None \notin Nat /\ None \notin Services

VARIABLES
    now,
    disk,       \* the job file: job -> record, or NoJob
    mem,        \* state.store of each service
    phase,      \* of each service: off, loading, catchup, ready
    missed,     \* of each service: the jobs its catch-up still has to execute
    fresh,      \* of each service: the catch-up's job objects are those in mem
    tick,       \* onTimer of each service
    timer,      \* of each service: state.timer is set
    manual,     \* the service whose manual run holds the lock, or None
    exec,       \* the executions under way
    created,    \* job ids ever used
    faults,     \* crashes and read failures so far
    stopped,    \* services that were stopped
    finished,   \* history: start of each job's execution that ended last
    exposed,    \* history: jobs whose marker was taken before their result came
    lost        \* history: jobs whose result went to an object nobody reads

services == <<phase, missed, fresh, tick, timer, manual>>
history == <<finished, exposed, lost>>
world == <<now, created, faults, stopped>>
vars == <<disk, mem, services, exec, world, history>>

Times == Nat
Statuses == {"ok", "skipped", "transient", "permanent"}
JobType ==
    [enabled : BOOLEAN, next : Times \cup {None}, running : Times \cup {None},
     ok : BOOLEAN, lastRun : Times \cup {None}, errors : 0..(MaxRetries + 1)]
ASSUME NoJobAssumption == NoJob \notin JobType
StoreType == [Jobs -> JobType \cup {NoJob}]
Execution == [svc : Services, job : Jobs, by : {"tick", "catchup", "manual"}, start : Times]
Result == [job : Jobs, status : Statuses, start : Times, end : Times]
TickType == [at : {"idle", "collect", "run", "sweep"}, todo : SUBSET Jobs,
             results : SUBSET Result, live : BOOLEAN]
IdleTick == [at |-> "idle", todo |-> {}, results |-> {}, live |-> FALSE]

TypeOK ==
    /\ now \in 0..MaxNow
    /\ disk \in StoreType /\ mem \in [Services -> StoreType]
    /\ phase \in [Services -> {"off", "loading", "catchup", "ready"}]
    /\ missed \in [Services -> SUBSET Jobs] /\ fresh \in [Services -> BOOLEAN]
    /\ tick \in [Services -> TickType]
    /\ timer \in [Services -> BOOLEAN]
    /\ manual \in Services \cup {None}
    /\ exec \subseteq Execution
    /\ created \subseteq Jobs /\ stopped \subseteq Services
    /\ faults \in 0..MaxFaults
    /\ finished \in [Jobs -> Times \cup {None}]
    /\ exposed \subseteq Jobs /\ lost \subseteq Jobs

Executing == {e.job : e \in exec}
Resulted(s) == {res.job : res \in tick[s].results}
Underway == Executing \cup UNION {tick[s].todo \cup Resulted(s) : s \in Services}
Of(s, by) == {e \in exec : e.svc = s /\ e.by = by}
NoStore == [j \in Jobs |-> NoJob]

-----------------------------------------------------------------------------
(* jobs.ts: when a job runs next, and what maintenance does to it.         *)

Due(r) == r.next # None /\ r.next <= now

\* findDueJobs.
Runnable(r) == r # NoJob /\ r.enabled /\ r.running = None /\ Due(r)

\* computeJobNextRunAtMs at time t; a one-shot job stays due until it is done.
NextRun(j, r, t) ==
    CASE ~r.enabled -> None
      [] r.enabled /\ Kind[j] = "every" -> t + 1
      [] r.enabled /\ Kind[j] # "every" -> IF r.ok THEN None ELSE At[j]

\* normalizeJobTickState: a disabled job has neither a next run nor a marker,
\* and a marker that is too old is taken for a leftover.
Stuck(r) == r.running # None /\ r.running + StuckAfter < now
Normalized(r) ==
    IF ~r.enabled THEN [r EXCEPT !.next = None, !.running = None]
    ELSE IF Stuck(r) THEN [r EXCEPT !.running = None] ELSE r

\* recomputeNextRunsForMaintenance fills in missing next runs only;
\* recomputeNextRuns also moves the ones that are past.
Maintained(j, r) ==
    LET n == Normalized(r)
    IN  IF n.enabled /\ n.next = None THEN [n EXCEPT !.next = NextRun(j, n, now)] ELSE n
Recomputed(j, r) ==
    LET n == Normalized(r)
    IN  IF n.enabled /\ (n.next = None \/ Due(n))
        THEN [n EXCEPT !.next = NextRun(j, n, now)] ELSE n

Recompute(store) ==
    [j \in Jobs |-> IF store[j] = NoJob THEN NoJob ELSE Recomputed(j, store[j])]
Maintenance_Recomputes(store) == Recompute(store)
Maintenance(store) ==
    [j \in Jobs |-> IF store[j] = NoJob THEN NoJob ELSE Maintained(j, store[j])]

\* applyJobResult, up to the deletion of the job.  ok stands for lastStatus, of
\* which nothing else is read, and errors counts for one-shot jobs only: for the
\* others it sets the length of the backoff.
\* For a recurring job a skipped run counts like a good one, and all errors alike.
StatusesOf(j) == IF Kind[j] = "every" THEN {"ok", "permanent"} ELSE Statuses
Failed(status) == status \in {"transient", "permanent"}
Errors(j, r, status) ==
    IF Kind[j] = "every" \/ ~Failed(status) THEN 0
    ELSE IF r.errors > MaxRetries THEN r.errors ELSE r.errors + 1
MayTryAgain(j, r, res) == res.status = "transient" /\ Errors(j, r, res.status) <= MaxRetries

\* errorBackoffMs.
BackedOff(res) == res.end + Backoff

Applied(j, r, res) ==
    LET oneShot == Kind[j] # "every"
        retried == oneShot /\ MayTryAgain(j, r, res)
    IN  [r EXCEPT
            !.running = None, !.ok = (res.status = "ok"), !.lastRun = res.start,
            !.errors = Errors(j, r, res.status),
            !.enabled = @ /\ (oneShot => retried),
            !.next = CASE retried -> BackedOff(res)
                       [] oneShot /\ ~retried -> None
                       [] ~oneShot /\ ~r.enabled -> None
                       [] ~oneShot /\ r.enabled /\ Failed(res.status) -> BackedOff(res)
                       [] ~oneShot /\ r.enabled /\ ~Failed(res.status) -> res.end + 1]

Deletes(j, res) == Kind[j] = "once" /\ res.status = "ok"

\* applyOutcomeToStoredJob: a job that is gone takes no result.
Outcome(store, j, res) ==
    IF store[j] = NoJob \/ Deletes(j, res) THEN NoJob ELSE Applied(j, store[j], res)

-----------------------------------------------------------------------------
(* store.ts, locked.ts, armTimer                                           *)

LockFree == manual = None
Loaded(s) == phase[s] \in {"catchup", "ready"}

Persist(s, store) ==
    /\ mem' = [mem EXCEPT ![s] = store]
    /\ disk' = store

HasWork(store) ==
    \E j \in Jobs : store[j] # NoJob /\ store[j].enabled /\ store[j].next # None

\* ensureLoaded with forceReload makes new job objects: whoever holds one of
\* the old ones writes to nowhere.
Detach(s) == fresh' = [fresh EXCEPT ![s] = FALSE]

\* History: these jobs lost their marker before their result was written.
Expose(js) == exposed' = exposed \cup (js \cap Underway)
Cleared(old, new) ==
    {j \in Jobs : old[j] # NoJob /\ new[j] # NoJob /\ old[j].running # None /\ new[j].running = None}

Began(s, j, by) == exec' = exec \cup {[svc |-> s, job |-> j, by |-> by, start |-> now]}
Ended(e) ==
    /\ exec' = exec \ {e}
    /\ finished' = [finished EXCEPT ![e.job] = e.start]
ResultOf(e, status) == [job |-> e.job, status |-> status, start |-> e.start, end |-> now]

-----------------------------------------------------------------------------
(* start                                                                   *)

Init ==
    /\ now = 0
    /\ disk \in [Jobs -> {NoJob} \cup
          {[enabled |-> TRUE, next |-> 0, running |-> marker, ok |-> FALSE, lastRun |-> None,
            errors |-> 0] : marker \in {None, 0}}]
    /\ \A j \in Jobs : disk[j] # NoJob <=> j \in Stored
    /\ mem = [s \in Services |-> NoStore]
    /\ phase = [s \in Services |-> "off"]
    /\ missed = [s \in Services |-> {}] /\ fresh = [s \in Services |-> FALSE]
    /\ tick = [s \in Services |-> IdleTick]
    /\ timer = [s \in Services |-> FALSE]
    /\ manual = None
    /\ exec = {}
    /\ created = Stored /\ faults = 0 /\ stopped = {}
    /\ finished = [j \in Jobs |-> None] /\ exposed = {} /\ lost = {}

\* The gateway comes up.
Boot ==
    /\ \A s \in Services : phase[s] = "off"
    /\ phase' = [phase EXCEPT ![Primary] = "loading"]
    /\ UNCHANGED <<disk, mem, missed, fresh, tick, timer, manual, exec, world, history>>

\* First section: markers in the file are leftovers of a process that died.
\* The jobs to catch up on are picked right after it.
Unmarked_Not(store) == store
Unmarked(store) ==
    [j \in Jobs |-> IF store[j] = NoJob THEN NoJob ELSE [store[j] EXCEPT !.running = None]]
StartLoad(s) ==
    /\ phase[s] = "loading" /\ LockFree
    /\ Persist(s, Unmarked(disk))
    /\ Expose(Cleared(disk, Unmarked(disk)))
    /\ phase' = [phase EXCEPT ![s] = "catchup"]
    /\ missed' = [missed EXCEPT ![s] =
          {j \in Jobs : /\ Runnable(Unmarked(disk)[j])
                        /\ ~(Kind[j] # "every" /\ disk[j].ok)}]
    /\ fresh' = [fresh EXCEPT ![s] = TRUE]
    /\ UNCHANGED <<tick, timer, manual, exec, world, finished, lost>>

\* executeJob in the loop of runMissedJobs: outside the lock, and the marker
\* reaches the file only if somebody else persists the store meanwhile.
Mark(s, j, live) ==
    mem' = IF live /\ mem[s][j] # NoJob
           THEN [mem EXCEPT ![s][j].running = now] ELSE mem
CatchUpBegin(s, j) ==
    /\ phase[s] = "catchup" /\ j \in missed[s]
    /\ Of(s, "catchup") = {}
    /\ missed' = [missed EXCEPT ![s] = @ \ {j}]
    /\ Mark(s, j, fresh[s])
    /\ Began(s, j, "catchup")
    /\ UNCHANGED <<disk, phase, fresh, tick, timer, manual, world, history>>

\* The result goes to the object the catch-up holds, a deletion goes by id.
CatchUpEnd_NoPersist(e, status) ==
    /\ e.by = "catchup"
    /\ Ended(e)
    /\ mem' = [mem EXCEPT ![e.svc][e.job] = Outcome(mem[e.svc], e.job, ResultOf(e, status))]
    /\ UNCHANGED <<disk, services, world, exposed, lost>>
CatchUpEnd(e, status) ==
    LET s == e.svc
        res == ResultOf(e, status)
        done == IF fresh[s] \/ Deletes(e.job, res)
                THEN [mem[s] EXCEPT ![e.job] = Outcome(mem[s], e.job, res)] ELSE mem[s]
    IN  /\ e.by = "catchup"
        /\ Ended(e)
        /\ Persist(s, done)
        /\ lost' = IF fresh[s] THEN lost ELSE lost \cup {e.job}
        /\ UNCHANGED <<services, world, exposed>>

\* Last section.
StartFinish_NoArm(s) ==
    /\ phase[s] = "catchup" /\ missed[s] = {} /\ Of(s, "catchup") = {} /\ LockFree
    /\ Persist(s, Recompute(disk))
    /\ Expose(Cleared(disk, Recompute(disk)))
    /\ phase' = [phase EXCEPT ![s] = "ready"]
    /\ tick' = [tick EXCEPT ![s].live = FALSE]
    /\ UNCHANGED <<missed, fresh, timer, manual, exec, world, finished, lost>>
StartFinish(s) ==
    /\ phase[s] = "catchup" /\ missed[s] = {} /\ Of(s, "catchup") = {} /\ LockFree
    /\ Persist(s, Recompute(disk))
    /\ Expose(Cleared(disk, Recompute(disk)))
    /\ phase' = [phase EXCEPT ![s] = "ready"]
    /\ tick' = [tick EXCEPT ![s].live = FALSE]
    /\ timer' = [timer EXCEPT ![s] = HasWork(Recompute(disk))]
    /\ UNCHANGED <<missed, fresh, manual, exec, world, finished, lost>>

-----------------------------------------------------------------------------
(* onTimer                                                                 *)

\* While a tick is under way a firing timer only sets itself again.
TimerFires_NoRecheck(s) ==
    /\ timer[s] /\ tick[s].at = "idle"
    /\ tick' = [tick EXCEPT ![s].at = "collect"]
    /\ timer' = [timer EXCEPT ![s] = FALSE]
    /\ UNCHANGED <<disk, mem, phase, missed, fresh, manual, exec, world, history>>
TimerFires(s) ==
    /\ timer[s] /\ tick[s].at = "idle"
    /\ tick' = [tick EXCEPT ![s].at = "collect"]
    /\ UNCHANGED <<disk, mem, phase, missed, fresh, timer, manual, exec, world, history>>

\* First section: what is due is marked in the file before it runs.
Collected(due, store) ==
    [j \in Jobs |-> IF j \in due THEN [store[j] EXCEPT !.running = now] ELSE store[j]]
Collect(s) ==
    LET due == {j \in Jobs : Runnable(disk[j])}
        store == IF due = {} THEN Maintenance(disk) ELSE Collected(due, disk)
    IN  /\ tick[s].at = "collect" /\ LockFree
        /\ Persist(s, store)
        /\ Expose(Cleared(disk, store))
        /\ Detach(s)
        /\ tick' = [tick EXCEPT ![s] =
              [at |-> IF due = {} THEN "sweep" ELSE "run", todo |-> due,
               results |-> {}, live |-> TRUE]]
        /\ UNCHANGED <<phase, missed, timer, manual, exec, world, finished, lost>>

\* A worker takes the next job and runs it, with a timeout that is one of the
\* failures; it does not look at the job again.
BeginDue(s, j) ==
    /\ tick[s].at = "run" /\ j \in tick[s].todo
    /\ Cardinality(Of(s, "tick")) < MaxConcurrent
    /\ tick' = [tick EXCEPT ![s].todo = @ \ {j}]
    /\ Mark(s, j, tick[s].live)
    /\ Began(s, j, "tick")
    /\ UNCHANGED <<disk, phase, missed, fresh, timer, manual, world, history>>

EndDue(e, status) ==
    /\ e.by = "tick"
    /\ Ended(e)
    /\ tick' = [tick EXCEPT ![e.svc].results = @ \cup {ResultOf(e, status)}]
    /\ UNCHANGED <<disk, mem, phase, missed, fresh, timer, manual, world, exposed, lost>>

\* Last section: the results go to the jobs of the file as it is by now.
AllRun(s) == tick[s].at = "run" /\ tick[s].todo = {} /\ Of(s, "tick") = {}
Resulting(s, store) ==
    [j \in Jobs |->
        IF \E res \in tick[s].results : res.job = j
        THEN Outcome(store, j, CHOOSE res \in tick[s].results : res.job = j)
        ELSE store[j]]
Apply(s) ==
    LET store == Maintenance(Resulting(s, disk))
    IN  /\ AllRun(s) /\ LockFree
        /\ Persist(s, store)
        /\ Expose(Cleared(disk, store) \ Resulted(s))
        /\ Detach(s)
        /\ tick' = [tick EXCEPT ![s].at = "sweep", ![s].results = {}, ![s].live = FALSE]
        /\ UNCHANGED <<phase, missed, timer, manual, exec, world, finished, lost>>

\* The file cannot be read: the tick ends, and its results are gone.
ApplyFails(s) ==
    /\ AllRun(s) /\ LockFree /\ faults < MaxFaults
    /\ faults' = faults + 1
    /\ lost' = lost \cup Resulted(s)
    /\ tick' = [tick EXCEPT ![s].at = "sweep", ![s].results = {}]
    /\ UNCHANGED <<disk, mem, phase, missed, fresh, timer, manual, exec,
                   now, created, stopped, finished, exposed>>

EndTick(s) ==
    /\ tick[s].at = "sweep"
    /\ tick' = [tick EXCEPT ![s] = IdleTick]
    /\ timer' = [timer EXCEPT ![s] = HasWork(mem[s])]
    /\ UNCHANGED <<disk, mem, phase, missed, fresh, manual, exec, world, history>>

-----------------------------------------------------------------------------
(* ops.ts.  The request handlers captured the first service, and go on     *)
(* calling it after a config reload has replaced it.                       *)

Op(store) ==
    /\ Loaded(Primary) /\ LockFree
    /\ Persist(Primary, store)
    /\ timer' = [timer EXCEPT ![Primary] = HasWork(store)]
    /\ UNCHANGED <<phase, missed, fresh, tick, manual, exec, finished, lost>>

\* add: a new job, and a recomputation of all the others.
NewJob(j) ==
    LET r == [enabled |-> TRUE, next |-> None, running |-> None, ok |-> FALSE,
              lastRun |-> None, errors |-> 0]
    IN  [r EXCEPT !.next = NextRun(j, r, now)]
Add(j) ==
    LET store == Recompute([mem[Primary] EXCEPT ![j] = NewJob(j)])
    IN  /\ j \notin created
        /\ created' = created \cup {j}
        /\ Op(store)
        /\ Expose(Cleared(mem[Primary], store))
        /\ UNCHANGED <<now, faults, stopped>>

\* update with an enabled flag or a schedule: the next run is computed anew,
\* and disabling takes the marker away.
Updated(j, r) ==
    IF r.enabled THEN [r EXCEPT !.next = NextRun(j, r, now)]
    ELSE [r EXCEPT !.next = None, !.running = None]
Update(j, on) ==
    LET r == mem[Primary][j]
        store == [mem[Primary] EXCEPT ![j] = Updated(j, [r EXCEPT !.enabled = on])]
    IN  /\ r # NoJob
        /\ Op(store)
        /\ Expose(Cleared(mem[Primary], store))
        /\ UNCHANGED world

Remove(j) ==
    /\ mem[Primary][j] # NoJob
    /\ Op([mem[Primary] EXCEPT ![j] = NoJob])
    /\ UNCHANGED <<world, exposed>>

\* list and status do maintenance, and set no timer.
Read ==
    /\ Loaded(Primary) /\ LockFree
    /\ Maintenance(mem[Primary]) # mem[Primary]
    /\ Persist(Primary, Maintenance(mem[Primary]))
    /\ Expose(Cleared(mem[Primary], Maintenance(mem[Primary])))
    /\ UNCHANGED <<services, exec, world, finished, lost>>

\* run, by force or because the job is due: the lock is held to the end.
RunBegin_Unchecked(j) ==
    /\ Loaded(Primary) /\ LockFree
    /\ mem[Primary][j] # NoJob
    /\ manual' = Primary
    /\ Mark(Primary, j, TRUE)
    /\ Began(Primary, j, "manual")
    /\ UNCHANGED <<disk, phase, missed, fresh, tick, timer, world, history>>
RunBegin(j) ==
    /\ Loaded(Primary) /\ LockFree
    /\ mem[Primary][j] # NoJob /\ mem[Primary][j].running = None
    /\ manual' = Primary
    /\ Mark(Primary, j, TRUE)
    /\ Began(Primary, j, "manual")
    /\ UNCHANGED <<disk, phase, missed, fresh, tick, timer, world, history>>

RunEnd(e, status) ==
    LET store == Recompute([mem[Primary] EXCEPT ![e.job] =
                               Outcome(mem[Primary], e.job, ResultOf(e, status))])
    IN  /\ e.by = "manual"
        /\ Ended(e)
        /\ Persist(Primary, store)
        /\ timer' = [timer EXCEPT ![Primary] = HasWork(store)]
        /\ manual' = None
        /\ Expose(Cleared(mem[Primary], store) \ {e.job})
        /\ UNCHANGED <<phase, missed, fresh, tick, world, lost>>

-----------------------------------------------------------------------------
(* The world around the services.                                          *)

TimePasses ==
    /\ now < MaxNow
    /\ now' = now + 1
    /\ UNCHANGED <<disk, mem, services, exec, created, faults, stopped, history>>

\* A config reload: stop clears the timer of the old service, and no more.
Reload(t) ==
    /\ phase[t] = "off" /\ phase[Primary] # "off"
    /\ timer' = [s \in Services |-> timer[s] /\ s \in stopped]
    /\ stopped' = {s \in Services : phase[s] # "off"}
    /\ phase' = [phase EXCEPT ![t] = "loading"]
    /\ UNCHANGED <<disk, mem, missed, fresh, tick, manual, exec, now, created, faults, history>>

\* The process dies at any point; the file stays.
Crash ==
    /\ faults < MaxFaults /\ \E s \in Services : phase[s] # "off"
    /\ faults' = faults + 1
    /\ mem' = [s \in Services |-> NoStore]
    /\ phase' = [s \in Services |-> "off"]
    /\ missed' = [s \in Services |-> {}] /\ fresh' = [s \in Services |-> FALSE]
    /\ tick' = [s \in Services |-> IdleTick]
    /\ timer' = [s \in Services |-> FALSE]
    /\ manual' = None /\ exec' = {} /\ stopped' = {}
    /\ finished' = [j \in Jobs |-> IF disk[j] = NoJob THEN None ELSE disk[j].lastRun]
    /\ exposed' = {} /\ lost' = {}
    /\ UNCHANGED <<disk, now, created>>

ExecutionEnds(e, status) ==
    CatchUpEnd(e, status) \/ EndDue(e, status) \/ RunEnd(e, status)

ServiceStep(s) ==
    \/ StartLoad(s) \/ StartFinish(s) \/ Collect(s) \/ Apply(s) \/ EndTick(s)
    \/ \E j \in Jobs : CatchUpBegin(s, j) \/ BeginDue(s, j)

Client ==
    \/ "read" \in Requests /\ Read
    \/ \E j \in Jobs : \/ "add" \in Requests /\ Add(j)
                       \/ "remove" \in Requests /\ Remove(j)
                       \/ "run" \in Requests /\ RunBegin(j)
                       \/ "update" \in Requests /\ \E on \in BOOLEAN : Update(j, on)

Next ==
    \/ Boot \/ Crash \/ TimePasses \/ Client
    \/ \E s \in Services : ServiceStep(s) \/ TimerFires(s) \/ ApplyFails(s) \/ Reload(s)
    \/ \E e \in exec : \E status \in StatusesOf(e.job) : ExecutionEnds(e, status)

\* Timers fire, the gateway is started again, and an execution is bounded by
\* the job's timeout.  Clients and the clock are free.
Fairness ==
    /\ WF_vars(Boot)
    /\ \A s \in Services : WF_vars(ServiceStep(s)) /\ WF_vars(TimerFires(s))
    /\ \A j \in Jobs :
          WF_vars(\E e \in exec, status \in StatusesOf(j) : e.job = j /\ ExecutionEnds(e, status))

Spec == Init /\ [][Next]_vars
FairSpec == Spec /\ Fairness

-----------------------------------------------------------------------------
(* What makes the cron service correct.                                    *)

\* The running marker works: a job executes twice at once only if the catch-up
\* is one of the two, as it marks memory only, or if its marker was taken away
\* (by disabling it, or as too old) before its result was written.
NoUnguardedOverlap ==
    \A e, f \in exec : (e # f /\ e.job = f.job) =>
        "catchup" \in {e.by, f.by} \/ e.job \in exposed

\* No marker is left behind: a marker in the file belongs to an execution, to a
\* job a tick is about to run or to a result it is about to write, or the
\* result of the job was lost; nobody would run the job again for two hours.
\* (A service that a reload has stopped may write any old copy of the jobs.)
MarkersEnd ==
    stopped = {} => \A s \in Services, j \in Jobs :
        (phase[s] = "ready" /\ disk[j] # NoJob /\ disk[j].running # None) =>
            j \in Underway \cup lost

\* What ran is on record: once nothing of a job is under way the file holds its
\* last execution, whatever was added, removed, edited or reloaded meanwhile.
ResultsReachFile ==
    \A j \in Jobs :
        (j \notin Underway \cup lost \cup exposed /\ disk[j] # NoJob) =>
            disk[j].lastRun = finished[j]

\* The scheduler does not fall asleep: a service that is up and has work has a
\* timer, also while a tick hangs in a job; only a tick that ends right now, and
\* whose results may have made the work, has yet to set it.
SchedulerGoesOn ==
    \A s \in Services :
        (phase[s] = "ready" /\ s \notin stopped /\ HasWork(mem[s])) =>
            timer[s] \/ tick[s].at = "sweep"

\* A job loses no occurrence to a tick: a past due time in the file moves on
\* only with the result of an execution, although ticks and clients change the
\* file in between (timer.ts:572-576).
OccurrenceKept(j) ==
    (/\ Runnable(disk[j]) /\ disk'[j] # NoJob
     /\ j \notin Underway \cup UNION {missed[s] : s \in Services})
    => disk'[j].next = disk[j].next
TicksSkipNothing ==
    [][(\E s \in Services : Collect(s) \/ Apply(s)) => \A j \in Jobs : OccurrenceKept(j)]_vars

\* A job that is due in the file is taken up, or stops being due.
DueIsTaken ==
    \A j \in Jobs : Runnable(disk[j]) ~> ~Runnable(disk[j])

\* timer.ts:572-576 again, for the steps that concern other jobs: adding a job
\* and the end of a manual run.
OthersSkipNothing ==
    [][(\E j \in Jobs : Add(j)) \/ (\E e \in exec, status \in Statuses : RunEnd(e, status))
       => \A j \in Jobs : OccurrenceKept(j)]_vars

\* store.ts:278: the file is read again "to avoid missing cross-service edits".
\* A client's operation does not undo what another service has written.
Operation == Read \/ \E j \in Jobs : Add(j) \/ Remove(j) \/ \E on \in BOOLEAN : Update(j, on)
EditsSurvive ==
    [][Operation => \A j \in Jobs :
          (disk[j] # NoJob /\ disk'[j] # NoJob) => disk'[j].lastRun = disk[j].lastRun]_vars
==============================================================================
