------------------------------ MODULE Subagents ------------------------------
(***************************************************************************)
(* Sub-agents (agents/subagent-registry.ts, subagent-announce.ts): a run   *)
(* that an agent has spawned is registered, in memory and on disk; when it *)
(* ends, by an event or by the answer of agent.wait, what it found is      *)
(* announced to its requester, and the registration is cleaned up.  The    *)
(* gateway may crash and restart in between.                               *)
(*                                                                         *)
(* A child's attempts are those of AgentRuns, seen from outside: the event *)
(* that an attempt has ended comes while its handle is still there         *)
(* (ending), it may stream again after a compaction (active), and the run  *)
(* may go on with another attempt (between).                               *)
(***************************************************************************)
EXTENDS Naturals

CONSTANTS
    Runs,        \* sub-agent runs, each spawned once
    Deletes,     \* of these runs the cleanup is "delete", of the others "keep"
    Remote,      \* the children that run in another process: no events, no handle
    MaxEnds,     \* bound: end events of one child
    MaxCrashes   \* bound: crashes of the gateway

ASSUME SubagentsAssumption ==
    /\ Deletes \subseteq Runs /\ Remote \subseteq Runs
    /\ MaxEnds \in Nat \ {0} /\ MaxCrashes \in Nat

VARIABLES
    child,     \* of each run: the run of the child itself
    ends,      \* of each run: the end events so far
    session,   \* the runs whose child session, with its transcript, exists
    entry,     \* subagentRuns: of each run its record, or {}
    disk,      \* runs.json, likewise
    waiting,   \* the runs with an agent.wait call out
    flow,      \* of each run: where runSubagentAnnounceFlow stands
    said,      \* of each run: what its flow will return
    sweeping,  \* a sweep has deleted entries and not persisted yet
    queued,    \* ANNOUNCE_QUEUES: the runs whose announcement waits there
    dedupe,    \* the announcements that the gateway's agent method remembers
    inbox,     \* of each run: how often its announcement reached the requester
    finished,  \* history: the runs whose cleanup has been finalized for good
    marks,     \* history: of each run, what befell it
    crashes

gateway == <<waiting, flow, said, sweeping, queued, dedupe>>
vars == <<child, ends, session, entry, disk, waiting, flow, said,
          sweeping, queued, dedupe, inbox, finished, marks, crashes>>

Children == {"none", "active", "ending", "between", "over"}
Flows == {"none", "settling", "sending", "asked", "cleaning", "finalizing"}
Record == [ended : BOOLEAN, handled : BOOLEAN, completed : BOOLEAN]
\* unregistered: the spawn call failed.  deferred: an announcement was put off
\* or its sending failed.  doubtful: it failed although it had been accepted.
\* dropped: lost in the announce queue.  archived: swept.  interrupted: the
\* gateway crashed while the announcement was being handled.  unheard: the call
\* that waited for its end failed, since the last start of the gateway.
Marks == {"unregistered", "deferred", "doubtful", "dropped", "archived",
          "interrupted", "unheard"}

TypeOK ==
    /\ child \in [Runs -> Children]
    /\ ends \in [Runs -> 0..MaxEnds]
    /\ session \subseteq Runs
    /\ entry \in [Runs -> SUBSET Record] /\ disk \in [Runs -> SUBSET Record]
    /\ \A r \in Runs : (\A d, e \in entry[r] : d = e) /\ (\A d, e \in disk[r] : d = e)
    /\ waiting \subseteq Runs
    /\ flow \in [Runs -> Flows] /\ said \in [Runs -> BOOLEAN]
    /\ sweeping \in BOOLEAN /\ queued \subseteq Runs /\ dedupe \subseteq Runs
    /\ inbox \in [Runs -> Nat] /\ finished \subseteq Runs
    /\ marks \in [Runs -> SUBSET Marks] /\ crashes \in 0..MaxCrashes

Init ==
    /\ child = [r \in Runs |-> "none"] /\ ends = [r \in Runs |-> 0]
    /\ session = {}
    /\ entry = [r \in Runs |-> {}] /\ disk = entry
    /\ waiting = {}
    /\ flow = [r \in Runs |-> "none"] /\ said = [r \in Runs |-> FALSE]
    /\ sweeping = FALSE /\ queued = {} /\ dedupe = {}
    /\ inbox = [r \in Runs |-> 0] /\ finished = {}
    /\ marks = [r \in Runs |-> {}] /\ crashes = 0

Running(r) == child[r] \in {"active", "ending", "between"}
\* isEmbeddedPiRunActive
HasHandle(r) == r \notin Remote /\ child[r] \in {"active", "ending"}
Fresh == [ended |-> FALSE, handled |-> FALSE, completed |-> FALSE]
Mark(r, what) == marks' = [marks EXCEPT ![r] = @ \cup {what}]
Becomes(r, next) == child' = [child EXCEPT ![r] = next]
Flows_(r, next) == flow' = [flow EXCEPT ![r] = next]

-----------------------------------------------------------------------------
(* The registry.                                                           *)

\* sessions_spawn starts the child and registers it when the call has returned.
StartChild(r) ==
    /\ child[r] = "none"
    /\ Becomes(r, "active")
    /\ session' = session \cup {r}
    /\ UNCHANGED <<ends, entry, disk, gateway, inbox, finished, marks, crashes>>

Unregistered(r) == child[r] # "none" /\ entry[r] = {} /\ r \notin finished /\ marks[r] = {}
Register(r) ==
    /\ Unregistered(r)
    /\ entry' = [entry EXCEPT ![r] = {Fresh}]
    /\ disk' = entry'
    /\ waiting' = waiting \cup {r}
    /\ UNCHANGED <<child, ends, session, flow, said, sweeping, queued,
                   dedupe, inbox, finished, marks, crashes>>

\* The call timed out, though the child runs.
SpawnFails(r) ==
    /\ Unregistered(r)
    /\ Mark(r, "unregistered")
    /\ UNCHANGED <<child, ends, session, entry, disk, gateway, inbox, finished, crashes>>

\* What the listener and the waiter do when they hear of an end: the record is
\* brought up to date and persisted, and the first of them begins the cleanup.
Begins(e) == ~e.completed /\ ~e.handled
HearEnd_Unguarded(r) ==
    /\ entry' = [entry EXCEPT ![r] = {[e EXCEPT !.ended = TRUE, !.handled = TRUE] : e \in @}]
    /\ disk' = IF entry[r] = {} THEN disk ELSE entry'
    /\ Flows_(r, IF \E e \in entry[r] : ~e.completed THEN "settling" ELSE flow[r])
HearEnd(r) ==
    /\ entry' = [entry EXCEPT ![r] =
          {[e EXCEPT !.ended = TRUE, !.handled = @ \/ Begins(e)] : e \in @}]
    /\ disk' = IF entry[r] = {} THEN disk ELSE entry'
    /\ Flows_(r, IF \E e \in entry[r] : Begins(e) THEN "settling" ELSE flow[r])

ChildEmitsEnd(r) ==
    /\ child[r] = "active" /\ r \notin Remote /\ ends[r] < MaxEnds
    /\ Becomes(r, "ending")
    /\ ends' = [ends EXCEPT ![r] = @ + 1]
    /\ HearEnd(r)
    /\ UNCHANGED <<session, waiting, said, sweeping, queued, dedupe, inbox,
                   finished, marks, crashes>>

\* agent.wait answers that the child has ended, or "timeout", which counts as an end.
WaitAnswers(r) ==
    /\ r \in waiting
    /\ waiting' = waiting \ {r}
    /\ HearEnd(r)
    /\ UNCHANGED <<child, ends, session, said, sweeping, queued, dedupe,
                   inbox, finished, marks, crashes>>

\* The call fails, which is not noticed; the listener may still hear of the end.
WaitFails(r) ==
    /\ r \in waiting
    /\ waiting' = waiting \ {r}
    /\ Mark(r, "unheard")
    /\ UNCHANGED <<child, ends, session, entry, disk, flow, said, sweeping, queued,
                   dedupe, inbox, finished, crashes>>

-----------------------------------------------------------------------------
(* The child.                                                              *)

ChildGoesOn(r) ==
    /\ \/ child[r] = "ending" /\ ends[r] < MaxEnds /\ Becomes(r, "active")
       \/ child[r] = "ending" /\ (Becomes(r, "between") \/ Becomes(r, "over"))
       \/ child[r] = "active" /\ r \in Remote /\ Becomes(r, "over")
       \/ child[r] = "between" /\ Becomes(r, IF ends[r] < MaxEnds THEN "active" ELSE "over")
    /\ UNCHANGED <<ends, session, entry, disk, gateway, inbox, finished, marks, crashes>>

-----------------------------------------------------------------------------
(* runSubagentAnnounceFlow.                                                *)

Settle(r) ==
    /\ flow[r] = "settling" /\ ~HasHandle(r)
    /\ Flows_(r, "sending")
    /\ UNCHANGED <<child, ends, session, entry, disk, waiting, said,
                   sweeping, queued, dedupe, inbox, finished, marks, crashes>>

\* The child is still at it after the wait, or has said nothing yet.
Defer(r) ==
    /\ flow[r] \in {"settling", "sending"} /\ HasHandle(r)
    /\ Flows_(r, "finalizing")
    /\ said' = [said EXCEPT ![r] = FALSE]
    /\ Mark(r, "deferred")
    /\ UNCHANGED <<child, ends, session, entry, disk, waiting,
                   sweeping, queued, dedupe, inbox, finished, crashes>>

Ends(r, result) ==
    /\ Flows_(r, "cleaning")
    /\ said' = [said EXCEPT ![r] = result]
Reaches(r) == inbox' = [inbox EXCEPT ![r] = @ + 1]

\* The requester is at work: the announcement is steered into its run.
Steer(r) ==
    /\ flow[r] = "sending"
    /\ Ends(r, TRUE)
    /\ Reaches(r)
    /\ UNCHANGED <<child, ends, session, entry, disk, waiting,
                   sweeping, queued, dedupe, finished, marks, crashes>>

\* Or queued; whether enqueueAnnounce dropped it is not asked.
Queue(r) ==
    /\ flow[r] = "sending"
    /\ Ends(r, TRUE)
    /\ \/ queued' = queued \cup {r} /\ UNCHANGED marks
       \/ Mark(r, "dropped") /\ UNCHANGED queued
    /\ UNCHANGED <<child, ends, session, entry, disk, waiting,
                   sweeping, dedupe, inbox, finished, crashes>>

\* It is idle: the gateway is asked for a turn of it.  A request that the
\* gateway remembers makes no second turn.
Ask(r) ==
    /\ flow[r] = "sending"
    /\ Flows_(r, "asked")
    /\ IF r \in dedupe THEN UNCHANGED inbox ELSE Reaches(r)
    /\ dedupe' = dedupe \cup {r}
    /\ UNCHANGED <<child, ends, session, entry, disk, waiting, said,
                   sweeping, queued, finished, marks, crashes>>

Answered(r) ==
    /\ flow[r] = "asked"
    /\ Ends(r, TRUE)
    /\ UNCHANGED <<child, ends, session, entry, disk, waiting,
                   sweeping, queued, dedupe, inbox, finished, marks, crashes>>

\* The request cannot be made; or it was, and the turn fails or takes too long.
SendFails(r) ==
    /\ flow[r] \in {"sending", "asked"}
    /\ Ends(r, FALSE)
    /\ marks' = [marks EXCEPT ![r] = @ \cup {"deferred"}
          \cup (IF flow[r] = "asked" THEN {"doubtful"} ELSE {})]
    /\ UNCHANGED <<child, ends, session, entry, disk, waiting,
                   sweeping, queued, dedupe, inbox, finished, crashes>>

\* The flow's finally, for every end but a deferral.
CleanUp(r) ==
    /\ flow[r] = "cleaning"
    /\ Flows_(r, "finalizing")
    /\ session' = IF r \in Deletes THEN session \ {r} ELSE session
    /\ UNCHANGED <<child, ends, entry, disk, waiting, said,
                   sweeping, queued, dedupe, inbox, finished, marks, crashes>>

\* finalizeSubagentCleanup
Finalize_AlwaysCompletes(r) ==
    /\ flow[r] = "finalizing"
    /\ Flows_(r, "none") /\ said' = [said EXCEPT ![r] = FALSE]
    /\ entry' = [entry EXCEPT ![r] = {[e EXCEPT !.completed = TRUE] : e \in @}]
    /\ disk' = IF entry[r] = {} THEN disk ELSE entry'
    /\ finished' = IF entry[r] = {} THEN finished ELSE finished \cup {r}
    /\ UNCHANGED <<child, ends, session, waiting,
                   sweeping, queued, dedupe, inbox, marks, crashes>>
Finalize_StaysHandled(r) ==
    /\ flow[r] = "finalizing"
    /\ Flows_(r, "none") /\ said' = [said EXCEPT ![r] = FALSE]
    /\ entry' = [entry EXCEPT ![r] =
          IF said[r] /\ r \in Deletes THEN {}
          ELSE {[e EXCEPT !.completed = said[r]] : e \in @}]
    /\ disk' = IF entry[r] = {} THEN disk ELSE entry'
    /\ finished' = IF said[r] /\ entry[r] # {} THEN finished \cup {r} ELSE finished
    /\ UNCHANGED <<child, ends, session, waiting,
                   sweeping, queued, dedupe, inbox, marks, crashes>>
Finalize(r) ==
    /\ flow[r] = "finalizing"
    /\ Flows_(r, "none") /\ said' = [said EXCEPT ![r] = FALSE]
    /\ entry' = [entry EXCEPT ![r] =
          IF said[r] /\ r \in Deletes THEN {}
          ELSE {[e EXCEPT !.handled = said[r], !.completed = said[r]] : e \in @}]
    /\ disk' = IF entry[r] = {} THEN disk ELSE entry'
    /\ finished' = IF said[r] /\ entry[r] # {} THEN finished \cup {r} ELSE finished
    /\ UNCHANGED <<child, ends, session, waiting,
                   sweeping, queued, dedupe, inbox, marks, crashes>>

\* The announce queue has taken the announcement off before it sends it.
QueueSends(r) ==
    /\ r \in queued
    /\ queued' = queued \ {r}
    /\ \/ Reaches(r) /\ UNCHANGED marks
       \/ Mark(r, "dropped") /\ UNCHANGED inbox
    /\ UNCHANGED <<child, ends, session, entry, disk, waiting, flow, said,
                   sweeping, dedupe, finished, crashes>>

-----------------------------------------------------------------------------
(* The sweeper, the gateway's memory, and crashes.                         *)

\* An entry is archived an hour after it was registered, whatever its state.
SweepEntry(r) ==
    /\ entry[r] # {}
    /\ entry' = [entry EXCEPT ![r] = {}]
    /\ sweeping' = TRUE
    /\ session' = session \ {r}
    /\ Mark(r, "archived")
    /\ UNCHANGED <<child, ends, disk, waiting, flow, said, queued,
                   dedupe, inbox, finished, crashes>>
SweepEnds ==
    /\ sweeping
    /\ sweeping' = FALSE /\ disk' = entry
    /\ UNCHANGED <<child, ends, session, entry, waiting, flow, said, queued,
                   dedupe, inbox, finished, marks, crashes>>

\* The gateway remembers the outcome of a request for five minutes.
Forget(r) ==
    /\ r \in dedupe /\ flow[r] # "asked"
    /\ dedupe' = dedupe \ {r}
    /\ UNCHANGED <<child, ends, session, entry, disk, waiting, flow, said, sweeping,
                   queued, inbox, finished, marks, crashes>>

\* The children in the process end with it.  The new one restores what is on disk and
\* resumes each run that is not completed: it begins the cleanup if the run has
\* ended and nobody had begun, or waits for its end again.
Resumes(r) == \E e \in disk[r] : e.ended /\ Begins(e)
Restart ==
    /\ crashes < MaxCrashes /\ crashes' = crashes + 1
    /\ child' = [r \in Runs |-> IF Running(r) /\ r \notin Remote THEN "over" ELSE child[r]]
    /\ entry' = [r \in Runs |->
          {[e EXCEPT !.handled = @ \/ (e.ended /\ Begins(e))] : e \in disk[r]}]
    /\ disk' = entry'
    /\ waiting' = {r \in Runs : \E e \in disk[r] : ~e.ended}
    /\ flow' = [r \in Runs |-> IF Resumes(r) THEN "settling" ELSE "none"]
    /\ said' = [r \in Runs |-> FALSE]
    /\ sweeping' = FALSE /\ queued' = {} /\ dedupe' = {}
    /\ marks' = [r \in Runs |-> (marks[r] \ {"unheard"})
          \cup (IF Unregistered(r) THEN {"unregistered"} ELSE {})
          \cup (IF r \in queued THEN {"dropped"} ELSE {})
          \cup (IF flow[r] # "none" THEN {"interrupted"} ELSE {})]
    /\ UNCHANGED <<ends, session, inbox, finished>>

-----------------------------------------------------------------------------
FlowStep(r) ==
    \/ Settle(r) \/ Defer(r) \/ Steer(r) \/ Queue(r) \/ Ask(r)
    \/ Answered(r) \/ SendFails(r) \/ CleanUp(r) \/ Finalize(r)
ChildStep(r) == ChildEmitsEnd(r) \/ ChildGoesOn(r)

Next ==
    \/ \E r \in Runs :
          \/ StartChild(r) \/ Register(r) \/ SpawnFails(r)
          \/ ChildStep(r) \/ WaitAnswers(r) \/ WaitFails(r) \/ FlowStep(r)
          \/ QueueSends(r) \/ SweepEntry(r) \/ Forget(r)
    \/ SweepEnds \/ Restart

Spec == Init /\ [][Next]_vars

-----------------------------------------------------------------------------
(* What makes sub-agents correct.                                          *)

\* A requester hears of a run once, unless a request for an announcement had been
\* accepted and failed all the same: the next attempt may be steered or queued,
\* and if it is a request, the gateway may have forgotten the first.
AnnouncedOnce == \A r \in Runs : inbox[r] > 1 => "doubtful" \in marks[r]

\* No cleanup is final before the requester has heard, or will; unless the
\* announce queue lost the announcement.
FinishedIsAnnounced ==
    \A r \in finished : inbox[r] > 0 \/ r \in queued \/ "dropped" \in marks[r]

\* Each registered run has somebody who will see to it: the call that waits for
\* its end; or the flow that announces it; or the next restart, for which it is
\* on disk as one to be begun; or, if the waiting call failed, the listener, which
\* hears only of children in the process.  A crash while the announcement is being
\* handled leaves it to nobody, and so does one between a sweep and its persisting.
NobodyIsForgotten ==
    \A r \in Runs : \A e \in entry[r] :
        \/ r \in waiting \/ flow[r] # "none" \/ e.completed
        \/ e \in disk[r] /\ e.ended /\ Begins(e)
        \/ marks[r] \cap {"interrupted", "archived"} # {}
        \/ "unheard" \in marks[r] /\ ~e.ended

\* "Allow retry on the next wake if announce was deferred or failed"
\* (subagent-registry.ts:254): what such a retry would announce is there.
RetryHasOutput ==
    \A r \in Runs : (\E e \in entry[r] : e.ended /\ Begins(e)) => r \in session
=============================================================================
