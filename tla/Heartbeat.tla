------------------------------ MODULE Heartbeat ------------------------------
(***************************************************************************)
(* Heartbeats: src/src/infra/heartbeat-wake.ts coalesces the requests of   *)
(* the whole gateway into one wake timer and one handler call at a time,   *)
(* and startHeartbeatRunner (heartbeat-runner.ts) is the handler, which    *)
(* also keeps the interval timer going.                                    *)
(*                                                                         *)
(* Clock times are abstracted to the set of agents that are due; a timer   *)
(* that is set may fire at any moment.                                     *)
(***************************************************************************)
EXTENDS Naturals, FiniteSets

CONSTANTS
    Agents,      \* agents a configuration may give a heartbeat
    Events,      \* reasons that announce an event (exec-event, cron:..., hook:...)
    NoReason

Interval == "interval"
Reasons == Events \cup {Interval}

ASSUME HeartbeatAssumption == NoReason \notin Reasons /\ Interval \notin Events

VARIABLES
    handler,    \* a handler is installed: the runner is started
    pending,    \* pendingReason
    wakeTimer,  \* the wake timer is set
    scheduled,  \* the flag of the same name
    run,        \* the handler call in flight: what it still has to do
    agents,     \* the runner's agents, and of these
    due,        \* the ones whose nextDueMs has passed
    armed,      \* the runner's interval timer is set
    enabled,    \* heartbeatsEnabled
    paused      \* history: heartbeats have been disabled at some time

wake == <<handler, pending, wakeTimer, scheduled>>
runner == <<agents, due, armed>>
heartbeatVars == <<wake, run, runner, enabled, paused>>

\* A run closes over the runner and over the agents map it iterates: after a
\* config update its results go to objects nobody reads, and after a stop it
\* may no longer set the interval timer.
NoRun == [reason |-> NoReason, todo |-> {}, rearms |-> FALSE, writes |-> FALSE]
Running == run # NoRun

HeartbeatTypeOK ==
    /\ handler \in BOOLEAN /\ wakeTimer \in BOOLEAN /\ scheduled \in BOOLEAN
    /\ pending \in Reasons \cup {NoReason}
    /\ run \in [reason : Reasons \cup {NoReason}, todo : SUBSET Agents,
                rearms : BOOLEAN, writes : BOOLEAN]
    /\ agents \subseteq Agents /\ due \subseteq agents /\ armed \in BOOLEAN
    /\ enabled \in BOOLEAN /\ paused \in BOOLEAN

HeartbeatInit ==
    /\ handler = FALSE /\ pending = NoReason /\ wakeTimer = FALSE /\ scheduled = FALSE
    /\ run = NoRun
    /\ agents = {} /\ due = {} /\ armed = FALSE
    /\ enabled = TRUE /\ paused = FALSE

-----------------------------------------------------------------------------
(* heartbeat-wake.ts                                                       *)

\* requestHeartbeatNow: the newest reason wins, and a timer that is set stays.
Requested(reason) ==
    /\ pending' = reason
    /\ wakeTimer' = TRUE
    /\ UNCHANGED <<handler, scheduled>>

Request(reason) ==
    /\ Requested(reason)
    /\ UNCHANGED <<run, runner, enabled, paused>>

\* The handler call up to its first await.  While heartbeats are disabled or
\* no agent has one it returns at once, without setting the interval timer.
\* An interval wake is for the agents that are due, any other for all.
Begun(reason) ==
    LET serves == enabled /\ agents # {}
    IN  [reason |-> reason, rearms |-> serves, writes |-> TRUE,
         todo |-> IF ~serves THEN {} ELSE IF reason = Interval THEN due ELSE agents]

\* The callback of the wake timer.
WakeFires_Overlaps ==
    /\ wakeTimer
    /\ IF handler
       THEN /\ wakeTimer' = FALSE /\ scheduled' = FALSE
            /\ pending' = NoReason /\ run' = Begun(pending)
       ELSE /\ wakeTimer' = FALSE /\ scheduled' = FALSE
            /\ UNCHANGED <<pending, run>>
    /\ UNCHANGED <<handler, runner, enabled, paused>>
WakeFires ==
    /\ wakeTimer
    /\ \/ /\ ~handler
          /\ wakeTimer' = FALSE /\ scheduled' = FALSE
          /\ UNCHANGED <<pending, run>>
       \/ /\ handler /\ Running
          /\ wakeTimer' = TRUE /\ scheduled' = TRUE
          /\ UNCHANGED <<pending, run>>
       \/ /\ handler /\ ~Running
          /\ wakeTimer' = FALSE /\ scheduled' = FALSE
          /\ pending' = NoReason
          /\ run' = Begun(pending)
    /\ UNCHANGED <<handler, runner, enabled, paused>>

\* The continuation after the handler: a busy main lane or an exception puts
\* the reason of this run back, over any that was requested in the meantime;
\* the finally schedules whatever is pending.
Returned_SchedulesOnly(retry) ==
    /\ run' = NoRun
    /\ wakeTimer' = (wakeTimer \/ retry \/ pending # NoReason \/ scheduled)
    /\ UNCHANGED <<handler, scheduled, pending>>
Returned(retry) ==
    /\ run' = NoRun
    /\ pending' = IF retry THEN run.reason ELSE pending
    /\ wakeTimer' = (wakeTimer \/ retry \/ pending # NoReason \/ scheduled)
    /\ UNCHANGED <<handler, scheduled>>

-----------------------------------------------------------------------------
(* heartbeat-runner.ts                                                     *)

\* runOnce of one agent: it ran, failed or had nothing to say, and its next
\* heartbeat is one interval away (a call under way is not disabled any more) ...
Beat(a) ==
    /\ a \in run.todo
    /\ run' = [run EXCEPT !.todo = @ \ {a}]
    /\ due' = IF run.writes THEN due \ {a} ELSE due
    /\ UNCHANGED <<wake, agents, armed, enabled, paused>>

\* ... or heartbeats were disabled during the run, and it was skipped ...
SkipBeat(a) ==
    /\ ~enabled
    /\ a \in run.todo
    /\ run' = [run EXCEPT !.todo = @ \ {a}]
    /\ UNCHANGED <<wake, runner, enabled, paused>>

\* ... or requests are in flight, or it throws: the run is given up here.
GiveUp ==
    /\ run.todo # {}
    /\ Returned(TRUE)
    /\ UNCHANGED <<runner, enabled, paused>>

\* scheduleNext when every agent is done, and the handler returns.
EndRun_NoRearm ==
    /\ Running /\ run.todo = {}
    /\ UNCHANGED <<runner, enabled, paused>>
    /\ Returned(FALSE)
EndRun ==
    /\ Running /\ run.todo = {}
    /\ armed' = IF run.rearms THEN agents # {} ELSE armed
    /\ Returned(FALSE)
    /\ UNCHANGED <<agents, due, enabled, paused>>

\* The interval timer.
IntervalElapses ==
    /\ armed
    /\ armed' = FALSE
    /\ Requested(Interval)
    /\ UNCHANGED <<run, agents, due, enabled, paused>>

BecomesDue(a) ==
    /\ a \in agents \ due
    /\ due' = due \cup {a}
    /\ UNCHANGED <<wake, run, agents, armed, enabled, paused>>

\* updateConfig on a config reload: agents come, go or change their interval,
\* and scheduleNext sets or clears the interval timer.
UpdateConfig(next, nextDue) ==
    /\ handler
    /\ agents' = next /\ due' = nextDue
    /\ armed' = (next # {})
    /\ run' = IF Running THEN [run EXCEPT !.writes = FALSE] ELSE run
    /\ UNCHANGED <<wake, enabled, paused>>

\* startHeartbeatRunner, which first installs the handler.
StartRunner_NoResume(next) ==
    /\ ~handler
    /\ handler' = TRUE
    /\ agents' = next /\ due' = {}
    /\ armed' = (next # {})
    /\ UNCHANGED <<pending, wakeTimer, scheduled, run, enabled, paused>>
StartRunner(next) ==
    /\ ~handler
    /\ handler' = TRUE
    /\ wakeTimer' = (wakeTimer \/ pending # NoReason)
    /\ agents' = next /\ due' = {}
    /\ armed' = (next # {})
    /\ UNCHANGED <<pending, scheduled, run, enabled, paused>>

\* cleanup: the gateway stops or restarts in process.  A run goes on.
StopRunner ==
    /\ handler
    /\ handler' = FALSE
    /\ agents' = {} /\ due' = {} /\ armed' = FALSE
    /\ run' = IF Running THEN [run EXCEPT !.writes = FALSE, !.rearms = FALSE] ELSE run
    /\ UNCHANGED <<pending, wakeTimer, scheduled, enabled, paused>>

\* setHeartbeatsEnabled: the flag alone.
SetHeartbeatsEnabled(on) ==
    /\ enabled' = on
    /\ paused' = (paused \/ ~on)
    /\ UNCHANGED <<wake, run, runner>>

RunStep == EndRun \/ GiveUp \/ \E a \in Agents : Beat(a) \/ SkipBeat(a)

HeartbeatNext ==
    \/ \E reason \in Events : Request(reason)
    \/ WakeFires
    \/ RunStep
    \/ IntervalElapses
    \/ \E a \in Agents : BecomesDue(a)
    \/ \E next \in SUBSET Agents : \/ StartRunner(next)
                                   \/ \E d \in SUBSET next : UpdateConfig(next, d)
    \/ StopRunner
    \/ \E on \in BOOLEAN : SetHeartbeatsEnabled(on)

\* Timers fire and a run makes progress: runOnce is bounded by the timeout of
\* the agent run it makes.
HeartbeatFairness ==
    /\ WF_heartbeatVars(WakeFires)
    /\ WF_heartbeatVars(RunStep)
    /\ WF_heartbeatVars(IntervalElapses)

HeartbeatSpec == HeartbeatInit /\ [][HeartbeatNext]_heartbeatVars
HeartbeatFairSpec == HeartbeatSpec /\ HeartbeatFairness

-----------------------------------------------------------------------------
(* What makes the heartbeat correct.                                       *)

\* No wake is forgotten: with a handler installed, a pending reason always has
\* a timer, through retries, overlapping runs, restarts and handlers that were
\* missing when the timer fired.
PendingHasTimer ==
    (handler /\ pending # NoReason) => wakeTimer

\* No wake is invented: a timer that reaches the handler has a reason, so the
\* agent is not run for nothing, and the fallback "retry" is never needed.
TimerHasReason ==
    /\ wakeTimer => pending # NoReason
    /\ scheduled => wakeTimer
    /\ Running => run.reason # NoReason

\* Wakes are neither lost nor invented.
TimerFollowsWakes == PendingHasTimer /\ TimerHasReason

\* One handler call at a time, across restarts of the runner too: a run is
\* never replaced by another before it has returned.
OneRunAtATime ==
    [][(Running /\ run' # NoRun) => /\ run'.reason = run.reason
                                    /\ run'.todo \subseteq run.todo]_heartbeatVars

\* The heartbeat never dies while it is enabled: the interval timer is set, or
\* a wake or a run will set it.  (Disabling heartbeats breaks the chain.)
HeartbeatGoesOn ==
    (handler /\ agents # {} /\ ~paused) => (armed \/ wakeTimer \/ Running)

\* A wake reaches the handler in the end, however long a run is in the way.
WakeIsServed ==
    (pending # NoReason) ~> (pending = NoReason \/ ~handler)
==============================================================================
