------------------------------ MODULE LaneState ------------------------------
(***************************************************************************)
(* One LaneState record of src/src/process/command-queue.ts as a value,    *)
(* and what each function of that file does to it between two turns of the *)
(* event loop.  CommandLanes runs a set of lanes; AgentRuns nests two      *)
(* levels of them.                                                         *)
(*                                                                         *)
(* The draining flag of the code is only ever true inside a synchronous    *)
(* drainLane call: it folds a nested enqueue into the loop of the outer    *)
(* pump.  Between two turns it is always false, so the value has no field  *)
(* for it.                                                                 *)
(***************************************************************************)
EXTENDS Naturals, Sequences

Lane(queue, active, maxConcurrent) ==
    [queue |-> queue, active |-> active, maxConcurrent |-> maxConcurrent]

LaneType(Entry) ==
    [queue : Seq(Entry), active : Nat, maxConcurrent : Nat \ {0}]

\* getLaneState: a lane that does not exist yet.
NewLane == Lane(<<>>, 0, 1)

\* The condition of the pump's while loop, as the number of times it holds.
\* Lowering maxConcurrent may leave active above it: no slot is free then.
FreeSlots(lane) ==
    IF lane.active <= lane.maxConcurrent THEN lane.maxConcurrent - lane.active ELSE 0

PumpCount(lane) ==
    IF Len(lane.queue) <= FreeSlots(lane) THEN Len(lane.queue) ELSE FreeSlots(lane)

\* The entries the pump shifts off the queue, in the order it starts them.
Started_Lifo(lane) ==
    SubSeq(lane.queue, Len(lane.queue) - PumpCount(lane) + 1, Len(lane.queue))
Started(lane) == SubSeq(lane.queue, 1, PumpCount(lane))

\* The lane once drainLane has returned.
Pumped_PopsLast(lane) ==
    Lane(SubSeq(lane.queue, 1, Len(lane.queue) - PumpCount(lane)),
         lane.active + PumpCount(lane), lane.maxConcurrent)
Pumped(lane) ==
    Lane(SubSeq(lane.queue, PumpCount(lane) + 1, Len(lane.queue)),
         lane.active + PumpCount(lane), lane.maxConcurrent)

\* enqueueCommandInLane pushes the entry, then drains.
Pushed(lane, entry) ==
    Lane(Append(lane.queue, entry), lane.active, lane.maxConcurrent)

\* A task settles: the slot is given back before the pump runs again.
Released(lane) == Lane(lane.queue, lane.active - 1, lane.maxConcurrent)

\* setCommandLaneConcurrency stores Math.max(1, Math.floor(n)), then drains.
Resized(lane, n) == Lane(lane.queue, lane.active, IF n < 1 THEN 1 ELSE n)

\* clearCommandLane truncates the queue.  Running tasks are left alone, and
\* the promises of the removed entries are neither resolved nor rejected.
Cleared(lane) == Lane(<<>>, lane.active, lane.maxConcurrent)
==============================================================================
