----------------------------- MODULE RunContract -----------------------------
(***************************************************************************)
(* What the lanes promise to whoever submits agent runs, without queues:   *)
(* a run of a session executes alone in its session, no run starts into a  *)
(* full process, and a run that has started is never taken away from the   *)
(* one who waits for its result.  AgentRuns implements this.               *)
(***************************************************************************)
EXTENDS Naturals, FiniteSets

CONSTANTS
    Sessions, Runs,
    NoSession       \* the session of a run that has not been submitted

VARIABLES
    home,      \* the session a run was submitted to
    status,    \* new, waiting, running, ended, dropped
    limit      \* how many runs may execute at once

vars == <<home, status, limit>>

Running == {r \in Runs : status[r] = "running"}

Init ==
    /\ home = [r \in Runs |-> NoSession]
    /\ status = [r \in Runs |-> "new"]
    /\ limit \in Nat \ {0}

\* One step of the scheduler: a run may end, and runs that wait may start, as
\* long as the sessions and the limit allow it.
Schedule ==
    /\ \A r \in Runs :
          \/ status'[r] = status[r]
          \/ status[r] = "new" /\ status'[r] \in {"waiting", "running"}
          \/ status[r] = "waiting" /\ status'[r] = "running"
          \/ status[r] = "running" /\ status'[r] = "ended"
    /\ \A r \in Runs : home'[r] # home[r] => status[r] = "new" /\ home'[r] \in Sessions
    /\ \A r, q \in Running' : home'[r] = home'[q] => r = q
    /\ Running' \ Running # {} => Cardinality(Running') <= limit'

\* The queued work of one session is given up: nothing that runs is touched.
Drop(s) ==
    /\ \A r \in Runs :
          \/ status'[r] = status[r]
          \/ status[r] = "waiting" /\ home[r] = s /\ status'[r] = "dropped"
    /\ UNCHANGED <<home, limit>>

Next == Schedule \/ \E s \in Sessions : Drop(s)

Spec == Init /\ [][Next]_vars
==============================================================================
