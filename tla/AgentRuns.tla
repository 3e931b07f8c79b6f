------------------------------ MODULE AgentRuns ------------------------------
(***************************************************************************)
(* Agent runs: runEmbeddedPiAgent nests a session lane around a global     *)
(* lane, enqueueSession(() => enqueueGlobal(body)), and its body makes one *)
(* attempt after the other until one may stand.  Only while an attempt is  *)
(* streaming does the session have a handle in ACTIVE_EMBEDDED_RUNS; every *)
(* other part of the gateway that wants to steer, stop or await a run sees *)
(* the run through that handle alone.                                      *)
(*                                                                         *)
(* A compaction (compactEmbeddedPiSession) takes the same two lanes and    *)
(* registers no handle: it is a run whose body ends before an attempt.     *)
(***************************************************************************)
EXTENDS LaneState, FiniteSets, Functions

CONSTANTS
    Sessions,      \* session keys; a session keeps one session id here
    Runs,          \* calls of runEmbeddedPiAgent, each made once
    Waiters,       \* calls of waitForEmbeddedPiRunEnd, each made once
    NoRun, NoSession,
    MaxLimit,      \* bound on the configured concurrency of the global lane
    MaxAttempts    \* bound on the attempts of one run

ASSUME RunsAssumption ==
    /\ NoRun \notin Runs /\ NoSession \notin Sessions
    /\ MaxLimit \in Nat \ {0} /\ MaxAttempts \in Nat \ {0}

VARIABLES
    sessionLane,   \* "session:<key>" lanes; nobody raises their concurrency
    mainLane,      \* the global lane
    home, phase,   \* of each run: its session, and where it stands
    attempts,      \* of each run: attempts made so far
    flags,         \* of each run: aborted, timedOut of the current attempt
    registry,      \* ACTIVE_EMBEDDED_RUNS: session -> the run with a handle
    waiter         \* EMBEDDED_RUN_WAITERS, and what became of each call

lanes == <<sessionLane, mainLane>>
vars == <<sessionLane, mainLane, home, phase, attempts, flags, registry, waiter>>

\* inSession waits for its session slot; inMain holds it and waits for a main
\* slot; starting, active and between hold both; leaving has given the main
\* slot back and has yet to give back the session slot.
Executing == {"starting", "active", "between"}
HoldsSession == Executing \cup {"inMain", "leaving"}
Phases == HoldsSession \cup {"new", "inSession", "done", "dropped"}

Holders(s) == {r \in Runs : home[r] = s /\ phase[r] \in HoldsSession}
Bodies == {r \in Runs : phase[r] \in Executing}

TypeOK ==
    /\ sessionLane \in [Sessions -> LaneType(Runs)]
    /\ mainLane \in LaneType(Runs)
    /\ home \in [Runs -> Sessions \cup {NoSession}]
    /\ phase \in [Runs -> Phases]
    /\ attempts \in [Runs -> 0..MaxAttempts]
    /\ flags \in [Runs -> SUBSET {"aborted", "timedOut"}]
    /\ registry \in [Sessions -> Runs \cup {NoRun}]
    /\ waiter \in [Waiters -> [state : {"idle", "waiting", "ended", "timedOut"},
                               run : Runs \cup {NoRun}]]

Init ==
    /\ sessionLane = [s \in Sessions |-> NewLane]
    /\ mainLane = NewLane
    /\ home = [r \in Runs |-> NoSession]
    /\ phase = [r \in Runs |-> "new"]
    /\ attempts = [r \in Runs |-> 0]
    /\ flags = [r \in Runs |-> {}]
    /\ registry = [s \in Sessions |-> NoRun]
    /\ waiter = [w \in Waiters |-> [state |-> "idle", run |-> NoRun]]

-----------------------------------------------------------------------------
(* The two lanes.  settled is phase with the change the caller makes.      *)

\* The pump of the global lane: the bodies of the runs it starts begin.
PumpMain(rest, settled) ==
    /\ mainLane' = Pumped(rest)
    /\ phase' = [r \in Runs |->
                    IF r \in Range(Started(rest)) THEN "starting" ELSE settled[r]]

\* The pump of a session lane: the task of a run it starts is a call of
\* enqueueGlobal, made in the same turn, so the global lane is pumped too.
PumpSession(s, rest, settled) ==
    LET admitted == Started(rest)
    IN  /\ sessionLane' = [sessionLane EXCEPT ![s] = Pumped(rest)]
        /\ PumpMain(Lane(mainLane.queue \o admitted, mainLane.active,
                         mainLane.maxConcurrent),
                    [r \in Runs |-> IF r \in Range(admitted) THEN "inMain" ELSE settled[r]])

Submit(r, s) ==
    /\ phase[r] = "new"
    /\ home' = [home EXCEPT ![r] = s]
    /\ PumpSession(s, Pushed(sessionLane[s], r), [phase EXCEPT ![r] = "inSession"])
    /\ UNCHANGED <<attempts, flags, registry, waiter>>

\* The body returned or threw: the wrapper in the global lane settles first ...
EndBody_KeepsSlot(r) ==
    /\ PumpMain(mainLane, [phase EXCEPT ![r] = "leaving"])
    /\ UNCHANGED <<sessionLane, home, attempts, flags, registry, waiter>>
EndBody(r) ==
    /\ PumpMain(Released(mainLane), [phase EXCEPT ![r] = "leaving"])
    /\ UNCHANGED <<sessionLane, home, attempts, flags, registry, waiter>>

\* ... and the wrapper in the session lane some microtasks later.
LeaveSession_NoPump(r) ==
    /\ phase[r] = "leaving"
    /\ sessionLane' = [sessionLane EXCEPT ![home[r]] = Released(@)]
    /\ phase' = [phase EXCEPT ![r] = "done"]
    /\ UNCHANGED <<mainLane, home, attempts, flags, registry, waiter>>
LeaveSession(r) ==
    /\ phase[r] = "leaving"
    /\ PumpSession(home[r], Released(sessionLane[home[r]]), [phase EXCEPT ![r] = "done"])
    /\ UNCHANGED <<home, attempts, flags, registry, waiter>>

\* The config reload and the start of the gateway set the limit of the lane.
SetMainConcurrency_NoPump(n) ==
    /\ mainLane' = Resized(mainLane, n)
    /\ UNCHANGED <<sessionLane, home, phase, attempts, flags, registry, waiter>>
SetMainConcurrency(n) ==
    /\ PumpMain(Resized(mainLane, n), phase)
    /\ UNCHANGED <<sessionLane, home, attempts, flags, registry, waiter>>

-----------------------------------------------------------------------------
(* The body: the attempt loop of runEmbeddedPiAgent.                       *)

\* Before its first attempt, or while preparing one, the body throws (unknown
\* model, no usable auth profile, session write lock not acquired).
FailBeforeAttempt(r) ==
    /\ phase[r] = "starting"
    /\ EndBody(r)

\* setActiveEmbeddedRun, once the attempt has its session and its lock.
StartAttempt(r) ==
    /\ phase[r] = "starting"
    /\ attempts[r] < MaxAttempts
    /\ phase' = [phase EXCEPT ![r] = "active"]
    /\ attempts' = [attempts EXCEPT ![r] = @ + 1]
    /\ flags' = [flags EXCEPT ![r] = {}]
    /\ registry' = [registry EXCEPT ![home[r]] = r]
    /\ UNCHANGED <<sessionLane, mainLane, home, waiter>>

\* abortTimer of the attempt: abortRun(true).
TimeOutAttempt(r) ==
    /\ phase[r] = "active"
    /\ "timedOut" \notin flags[r]
    /\ flags' = [flags EXCEPT ![r] = {"aborted", "timedOut"}]
    /\ UNCHANGED <<sessionLane, mainLane, home, phase, attempts, registry, waiter>>

\* clearActiveEmbeddedRun in the finally of the attempt: the handle goes, if
\* it is still this attempt's, and with it everybody who waited.
ClearActive_NoNotify(r) ==
    IF registry[home[r]] = r
    THEN registry' = [registry EXCEPT ![home[r]] = NoRun] /\ UNCHANGED waiter
    ELSE UNCHANGED <<registry, waiter>>
ClearActive(r) ==
    IF registry[home[r]] = r
    THEN /\ registry' = [registry EXCEPT ![home[r]] = NoRun]
         /\ waiter' = [w \in Waiters |->
               IF waiter[w].state = "waiting" /\ home[waiter[w].run] = home[r]
               THEN [waiter[w] EXCEPT !.state = "ended"] ELSE waiter[w]]
    ELSE UNCHANGED <<registry, waiter>>

EndAttempt_KeepsHandle(r) ==
    /\ phase[r] = "active"
    /\ phase' = [phase EXCEPT ![r] = "between"]
    /\ UNCHANGED <<sessionLane, mainLane, home, attempts, flags, registry, waiter>>
EndAttempt(r) ==
    /\ phase[r] = "active"
    /\ phase' = [phase EXCEPT ![r] = "between"]
    /\ ClearActive(r)
    /\ UNCHANGED <<sessionLane, mainLane, home, attempts, flags>>

\* The conditions of the retries: after an abort only a timeout makes the loop
\* go round (the next auth profile may answer); without one also a context
\* overflow that compaction cured, a refused thinking level, a failover error.
MayRetry(r) == "aborted" \notin flags[r] \/ "timedOut" \in flags[r]

Retry_Always(r) ==
    /\ phase[r] = "between"
    /\ attempts[r] < MaxAttempts
    /\ phase' = [phase EXCEPT ![r] = "starting"]
    /\ UNCHANGED <<sessionLane, mainLane, home, attempts, flags, registry, waiter>>
Retry(r) ==
    /\ phase[r] = "between"
    /\ MayRetry(r)
    /\ attempts[r] < MaxAttempts
    /\ phase' = [phase EXCEPT ![r] = "starting"]
    /\ UNCHANGED <<sessionLane, mainLane, home, attempts, flags, registry, waiter>>

Conclude(r) ==
    /\ phase[r] = "between"
    /\ EndBody(r)

-----------------------------------------------------------------------------
(* What other parts of the gateway do to the runs of a session.            *)

\* clearCommandLane on the session lane and abortEmbeddedPiRun on its id:
\* the interrupt mode of a new message, /stop, a reset and sessions.delete.
ClearAndAbort(s) ==
    /\ sessionLane' = [sessionLane EXCEPT ![s] = Cleared(@)]
    /\ phase' = [r \in Runs |->
          IF home[r] = s /\ phase[r] = "inSession" THEN "dropped" ELSE phase[r]]
    /\ flags' = [r \in Runs |->
          IF r = registry[s] THEN flags[r] \cup {"aborted"} ELSE flags[r]]
    /\ UNCHANGED <<mainLane, home, attempts, registry, waiter>>

\* waitForEmbeddedPiRunEnd: true at once if no handle is registered.
WaitForRunEnd(w, s) ==
    /\ waiter[w].state = "idle"
    /\ waiter' = [waiter EXCEPT ![w] =
          [state |-> IF registry[s] = NoRun THEN "ended" ELSE "waiting",
           run |-> registry[s]]]
    /\ UNCHANGED <<sessionLane, mainLane, home, phase, attempts, flags, registry>>

WaitTimesOut(w) ==
    /\ waiter[w].state = "waiting"
    /\ waiter' = [waiter EXCEPT ![w].state = "timedOut"]
    /\ UNCHANGED <<sessionLane, mainLane, home, phase, attempts, flags, registry>>

-----------------------------------------------------------------------------
Begin(r) == StartAttempt(r) \/ FailBeforeAttempt(r)
Decide(r) == Retry(r) \/ Conclude(r)

Next ==
    \/ \E r \in Runs, s \in Sessions : Submit(r, s)
    \/ \E r \in Runs : \/ Begin(r) \/ TimeOutAttempt(r) \/ EndAttempt(r)
                       \/ Decide(r) \/ LeaveSession(r)
    \/ \E n \in 1..MaxLimit : SetMainConcurrency(n)
    \/ \E s \in Sessions : ClearAndAbort(s)
    \/ \E w \in Waiters : \/ WaitTimesOut(w)
                          \/ \E s \in Sessions : WaitForRunEnd(w, s)

\* The body's own steps are fair: an attempt is bounded by its abortTimer, and
\* everything else it awaits is local.  Users, config and waiters are not.
Fairness ==
    \A r \in Runs : WF_vars(Begin(r)) /\ WF_vars(EndAttempt(r))
                    /\ WF_vars(Decide(r)) /\ WF_vars(LeaveSession(r))

Spec == Init /\ [][Next]_vars
FairSpec == Spec /\ Fairness

-----------------------------------------------------------------------------
(* What makes the runs correct.                                            *)

\* Two runs of one session never overlap: the transcript file of the session
\* has one writer from the moment its lane admits a run until it lets it go.
OneRunPerSession ==
    \A s \in Sessions : Cardinality(Holders(s)) <= 1

\* Both lanes count exactly the runs that occupy them, across the nesting: a
\* run parked in the global lane still occupies its session, and every way
\* out of the body gives back both slots once.
SlotsMatchRuns ==
    /\ \A s \in Sessions : sessionLane[s].active = Cardinality(Holders(s))
    /\ mainLane.active = Cardinality(Bodies)

\* The handle of a session is that of the attempt which is streaming, so a
\* steered message or an abort reaches a live attempt of that session or none.
HandleIsLive ==
    \A s \in Sessions, r \in Runs :
        registry[s] = r <=> phase[r] = "active" /\ home[r] = s

\* No lost wake-up: whoever still waits, waits for a registered attempt, and
\* its end will find the waiter in the set.
WaitersAreNotified ==
    \A w \in Waiters : waiter[w].state = "waiting" =>
        \E s \in Sessions : registry[s] = waiter[w].run /\ home[waiter[w].run] = s

\* The registry of runs.ts answers for the attempts there are: to those that
\* reach for a handle and to those that wait for one to go.
RegistryIsLive == HandleIsLive /\ WaitersAreNotified

\* A user's abort is the end of the run: no attempt follows an attempt that was
\* aborted and did not time out, although the body's loop has not been told.
AbortIsFinal ==
    [][\A r \in Runs : flags[r] = {"aborted"} => attempts'[r] = attempts[r]]_vars

\* Every submitted run ends, or its lane entry is dropped by a clear: nested
\* lanes in this order cannot wait for each other.
RunsEnd ==
    \A r \in Runs : phase[r] # "new" ~> phase[r] \in {"done", "dropped"}

\* The runs as their submitters see them.
Status ==
    [r \in Runs |->
        CASE phase[r] = "new" -> "new"
          [] phase[r] \in {"inSession", "inMain"} -> "waiting"
          [] phase[r] \in Executing -> "running"
          [] phase[r] \in {"leaving", "done"} -> "ended"
          [] phase[r] = "dropped" -> "dropped"]

Contract == INSTANCE RunContract WITH status <- Status, limit <- mainLane.maxConcurrent

\* The nested lanes implement the scheduler of RunContract: one run per
\* session, no start over the limit, and only waiting runs are ever given up.
ImplementsContract == Contract!Spec

\* What the wrapper of a run in its session lane, and the one in the global
\* lane, has told its caller: a clear of the session leaves the first one
\* without an answer.
SessionPromise ==
    [r \in Runs |-> CASE phase[r] = "new" -> "none"
                      [] phase[r] = "done" -> "resolved"
                      [] OTHER -> "pending"]
GlobalPromise ==
    [r \in Runs |-> CASE phase[r] \in Executing \cup {"inMain"} -> "pending"
                      [] phase[r] \in {"leaving", "done"} -> "resolved"
                      [] OTHER -> "none"]

SessionLanes == INSTANCE CommandLanes
    WITH Lanes <- Sessions, Tasks <- Runs, MaxConcurrency <- MaxLimit,
         lanes <- sessionLane, running <- [s \in Sessions |-> Holders(s)],
         promise <- SessionPromise
GlobalLane == INSTANCE CommandLanes
    WITH Lanes <- {"main"}, Tasks <- Runs, MaxConcurrency <- MaxLimit,
         lanes <- [l \in {"main"} |-> mainLane], running <- [l \in {"main"} |-> Bodies],
         promise <- GlobalPromise

\* Nested in one another, the two levels still are lanes: each is left by every
\* step in a state that CommandLanes allows, with its order and no idle backlog.
ImplementsLanes == SessionLanes!Spec /\ GlobalLane!Spec

\* What the whole promises, and what each of its levels does.
ImplementsBoth == ImplementsContract /\ ImplementsLanes

\* subagent-announce.ts:405: "wait for the embedded run to fully settle", which
\* auto-compaction retries may delay.
WaitMeansSettled ==
    \A w \in Waiters :
        (waiter[w].state = "ended" /\ waiter[w].run # NoRun) =>
            phase[waiter[w].run] \notin {"starting", "active"}
==============================================================================
