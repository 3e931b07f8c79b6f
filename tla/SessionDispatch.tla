-------------------------- MODULE SessionDispatch --------------------------
(***************************************************************************)
(* What becomes of a message that meets a session at work                  *)
(* (get-reply-run.ts, agent-runner.ts): it is steered into the attempt     *)
(* that streams, or joins the followup queue, or makes a turn of its own,  *)
(* and at the end of a turn the followup queue is drained.  The choice is  *)
(* made on what the registry of handles said before an await.              *)
(*                                                                         *)
(* One session.  Composes abstractions of AgentRuns (the session lane and  *)
(* the handle) and of FollowupQueue (one message at a time, no caps) with  *)
(* the dispatch, and with runs that other parts of the gateway make in the *)
(* session without its queue (agentCommand, commands/agent.ts).            *)
(***************************************************************************)
EXTENDS Naturals, Sequences, SequencesExt

CONSTANTS
    Inputs,   \* the messages that arrive, and the foreign runs
    Mode,     \* of each: the queue mode it comes with; foreign is a run
    NoRun

DispatchModes == {"steer", "steer-backlog", "followup", "interrupt", "foreign"}
ASSUME DispatchAssumption ==
    NoRun \notin Inputs /\ Mode \in [Inputs -> DispatchModes]

VARIABLES
    phase,     \* of each message: where it stands
    saw,       \* of each message: isActive as it was read, and whose it was
    sawStream, \* of each message: isStreaming as it was read
    lane,      \* the session lane; the first one in it runs
    handle,    \* the run with a handle, or NoRun
    streaming, \* the handle can be steered
    waiting,   \* the followup queue
    draining,
    held,      \* the message whose run the drain awaits, or NoRun
    excuses    \* history: what may have cut off the queue since the last drain

reading == <<saw, sawStream>>
followups == <<waiting, draining, held>>
dispatchVars == <<phase, saw, sawStream, lane, handle, streaming,
                  waiting, draining, held, excuses>>

\* lane: waiting or about to make an attempt; wrapping: the run has ended and
\* its turn has not.
InTurn == {"preparing", "lane", "active", "wrapping"}
Phases == InTurn \cup {"new", "deciding", "queued", "steered", "over", "failed", "dropped"}

DispatchTypeOK ==
    /\ phase \in [Inputs -> Phases]
    /\ saw \in [Inputs -> Inputs \cup {NoRun}]
    /\ sawStream \in [Inputs -> BOOLEAN]
    /\ lane \in Seq(Inputs) /\ waiting \in Seq(Inputs)
    /\ handle \in Inputs \cup {NoRun} /\ held \in Inputs \cup {NoRun}
    /\ streaming \in BOOLEAN /\ draining \in BOOLEAN
    /\ excuses \subseteq {"stale", "foreign", "threw", "cleared"}

DispatchInit ==
    /\ phase = [m \in Inputs |-> "new"]
    /\ saw = [m \in Inputs |-> NoRun]
    /\ sawStream = [m \in Inputs |-> FALSE]
    /\ lane = <<>> /\ waiting = <<>>
    /\ handle = NoRun /\ streaming = FALSE
    /\ draining = FALSE /\ held = NoRun
    /\ excuses = {}

Goes(m, next) == phase' = [phase EXCEPT ![m] = next]

-----------------------------------------------------------------------------
(* Dispatch.                                                               *)

\* agentCommand: a run in the lane, and nothing after it.
RunForeign(r) ==
    /\ phase[r] = "new" /\ Mode[r] = "foreign"
    /\ Goes(r, "lane")
    /\ lane' = Append(lane, r)
    /\ UNCHANGED <<reading, handle, streaming, followups, excuses>>

\* The interrupt mode first clears what waits in the lane, if anything is in
\* it (and aborts the attempt, which ends like any other).
Interrupts(m) == Mode[m] = "interrupt" /\ lane # <<>>
Read(m) ==
    /\ phase[m] = "new" /\ Mode[m] # "foreign"
    /\ saw' = [saw EXCEPT ![m] = handle]
    /\ sawStream' = [sawStream EXCEPT ![m] = handle # NoRun /\ streaming]
    /\ IF Interrupts(m)
       THEN /\ lane' = <<Head(lane)>>
            /\ phase' = [r \in Inputs |->
                  IF r = m THEN "deciding"
                  ELSE IF r \in ToSet(Tail(lane)) THEN "dropped" ELSE phase[r]]
            /\ excuses' = IF Tail(lane) = <<>> THEN excuses ELSE excuses \cup {"cleared"}
       ELSE Goes(m, "deciding") /\ UNCHANGED <<lane, excuses>>
    /\ UNCHANGED <<handle, streaming, followups>>

\* After the await: runReplyAgent up to its next one, which forgets what was read.
Decided(m, next) ==
    /\ Goes(m, next)
    /\ saw' = [saw EXCEPT ![m] = NoRun]
    /\ sawStream' = [sawStream EXCEPT ![m] = FALSE]
ShouldSteer(m) == Mode[m] \in {"steer", "steer-backlog"}
ShouldFollowup(m) == Mode[m] \in {"followup", "steer-backlog"}
\* queueEmbeddedPiMessage asks the registry again.
Steered(m) == ShouldSteer(m) /\ sawStream[m] /\ handle # NoRun /\ streaming

Steer(m) ==
    /\ phase[m] = "deciding"
    /\ Steered(m) /\ ~ShouldFollowup(m)
    /\ Decided(m, "steered")
    /\ UNCHANGED <<lane, handle, streaming, followups, excuses>>

Joins(m) == ~(Steered(m) /\ ~ShouldFollowup(m)) /\ saw[m] # NoRun
            /\ (ShouldFollowup(m) \/ Mode[m] = "steer")
EnqueueFollowup(m) ==
    /\ phase[m] = "deciding" /\ Joins(m)
    /\ Decided(m, "queued")
    /\ waiting' = Append(waiting, m)
    /\ excuses' = excuses
          \cup (IF phase[saw[m]] \in InTurn THEN {} ELSE {"stale"})
          \cup (IF Mode[saw[m]] = "foreign" THEN {"foreign"} ELSE {})
    /\ UNCHANGED <<lane, handle, streaming, draining, held>>

OwnTurn(m) ==
    /\ phase[m] = "deciding"
    /\ ~Joins(m) /\ ~(Steered(m) /\ ~ShouldFollowup(m))
    /\ Decided(m, "preparing")
    /\ UNCHANGED <<lane, handle, streaming, followups, excuses>>

-----------------------------------------------------------------------------
(* A run in the session (AgentRuns), and the turn around it.               *)

EnterLane(m) ==
    /\ phase[m] = "preparing"
    /\ Goes(m, "lane")
    /\ lane' = Append(lane, m)
    /\ UNCHANGED <<reading, handle, streaming, followups, excuses>>

StartAttempt(r) ==
    /\ phase[r] = "lane" /\ Head(lane) = r
    /\ Goes(r, "active")
    /\ handle' = r
    /\ streaming' \in BOOLEAN
    /\ UNCHANGED <<reading, lane, followups, excuses>>

\* A compaction begins or ends, the model streams or tools run.
StreamingChanges ==
    /\ handle # NoRun
    /\ streaming' = ~streaming
    /\ UNCHANGED <<reading, phase, lane, handle, followups, excuses>>

\* The attempt ends; another follows, or the run ends and leaves the lane: the
\* turn wraps up or makes another run (after a memory flush, for a fallback model).
EndAttempt(r) ==
    /\ phase[r] = "active"
    /\ handle' = NoRun /\ streaming' = FALSE
    /\ \/ Goes(r, "lane") /\ UNCHANGED lane
       \/ (Goes(r, "wrapping") \/ Goes(r, "preparing")) /\ lane' = Tail(lane)
    /\ UNCHANGED <<reading, followups, excuses>>

RunFails(r) ==
    /\ phase[r] = "lane" /\ Head(lane) = r
    /\ Goes(r, "wrapping")
    /\ lane' = Tail(lane)
    /\ UNCHANGED <<reading, handle, streaming, followups, excuses>>

\* scheduleFollowupDrain: nothing to do if a drain goes on.
ScheduleFollowupDrain ==
    /\ draining' = (draining \/ waiting # <<>>)
    /\ excuses' = IF draining THEN excuses ELSE {}
    /\ UNCHANGED <<waiting, held>>

\* finalizeWithFollowup at every regular return of runReplyAgent.
FinishTurn_NoDrain(m) ==
    /\ phase[m] = "wrapping" /\ held # m
    /\ Goes(m, "over")
    /\ UNCHANGED <<reading, lane, handle, streaming, followups, excuses>>
FinishTurn(m) ==
    /\ phase[m] = "wrapping" /\ held # m
    /\ Goes(m, "over")
    /\ IF Mode[m] = "foreign" THEN UNCHANGED <<followups, excuses>> ELSE ScheduleFollowupDrain
    /\ UNCHANGED <<reading, lane, handle, streaming>>

\* Preparing the turn, persisting or delivering its result throws.
TurnThrows(m) ==
    /\ phase[m] \in {"preparing", "wrapping"} /\ held # m /\ Mode[m] # "foreign"
    /\ Goes(m, "failed")
    /\ excuses' = excuses \cup {"threw"}
    /\ UNCHANGED <<reading, lane, handle, streaming, followups>>

-----------------------------------------------------------------------------
(* The drain loop (FollowupQueue): a run, awaited, for each message.       *)

DrainTakes ==
    /\ draining /\ held = NoRun /\ waiting # <<>>
    /\ held' = Head(waiting)
    /\ waiting' = Tail(waiting)
    /\ Goes(Head(waiting), "lane")
    /\ lane' = Append(lane, Head(waiting))
    /\ UNCHANGED <<reading, handle, streaming, draining, excuses>>

\* The followup runner reports the errors of a run itself; if it throws, the
\* loop's finally starts over with what is left.
FollowupEnds_StopsLoop(m) ==
    /\ held = m /\ phase[m] = "wrapping"
    /\ Goes(m, "over")
    /\ held' = NoRun /\ draining' = FALSE
    /\ UNCHANGED <<reading, lane, handle, streaming, waiting, excuses>>
FollowupEnds(m) ==
    /\ held = m /\ phase[m] = "wrapping"
    /\ Goes(m, "over")
    /\ held' = NoRun
    /\ draining' = (waiting # <<>>)
    /\ UNCHANGED <<reading, lane, handle, streaming, waiting, excuses>>

-----------------------------------------------------------------------------
Dispatch(m) == Steer(m) \/ EnqueueFollowup(m) \/ OwnTurn(m)
RunStep(m) ==
    EnterLane(m) \/ StartAttempt(m) \/ EndAttempt(m) \/ RunFails(m)
TurnStep(m) == FinishTurn(m) \/ TurnThrows(m) \/ FollowupEnds(m)

DispatchNext ==
    \/ \E m \in Inputs :
          RunForeign(m) \/ Read(m) \/ Dispatch(m) \/ RunStep(m) \/ TurnStep(m)
    \/ StreamingChanges \/ DrainTakes

\* Everything is bounded but the number of attempts, which the models to fall
\* back on bound in the code: a turn comes to its last one.
DispatchFairness ==
    /\ WF_dispatchVars(DrainTakes)
    /\ \A m \in Inputs :
          /\ WF_dispatchVars(Dispatch(m)) /\ WF_dispatchVars(RunStep(m))
          /\ WF_dispatchVars(TurnStep(m))
          /\ SF_dispatchVars(EndAttempt(m) /\ phase'[m] = "wrapping")

DispatchSpec == DispatchInit /\ [][DispatchNext]_dispatchVars
DispatchFairSpec == DispatchSpec /\ DispatchFairness

-----------------------------------------------------------------------------
(* What makes the dispatch correct.                                        *)

\* No message waits in a queue that nobody will come for: a drain goes on, or a
\* turn is under way that ends with one.  Four things may cut the queue off
\* until the next turn: the run that was seen at the read had ended with its
\* turn before the message joined the queue; it was a run without a queue; the
\* turn threw; or an interrupt cleared the lane, whose entries never settle.
QueueIsWatched ==
    waiting # <<>> =>
        \/ draining
        \/ \E m \in Inputs : phase[m] \in InTurn /\ Mode[m] # "foreign"
        \/ excuses # {}

\* And a drain that goes on gets somewhere: the message it awaits is in a turn,
\* unless an interrupt dropped it, in which case the drain never ends.
DrainIsAlive ==
    held # NoRun => phase[held] \in InTurn \/ "cleared" \in excuses

QueueIsServed == QueueIsWatched /\ DrainIsAlive

\* A queued message is taken in the end, if none of the four happens.
QueuedIsTaken ==
    \A m \in Inputs : phase[m] = "queued" ~> (phase[m] # "queued" \/ excuses # {})
=============================================================================
