---------------------------- MODULE CommandLanes ----------------------------
(***************************************************************************)
(* The lanes of src/src/process/command-queue.ts: every reply, cron job    *)
(* and sub-agent run of the gateway passes through one or two of them.     *)
(*                                                                         *)
(* The process is one JavaScript thread, so a call of enqueueCommandInLane,*)
(* setCommandLaneConcurrency or clearCommandLane, and the continuation of  *)
(* a task that has settled, each run to completion: each is one action,    *)
(* the pump that ends it included.                                         *)
(***************************************************************************)
EXTENDS LaneState, FiniteSets, Functions

CONSTANTS
    Lanes,           \* lane names in use ("main", "cron", "session:...", ...)
    Tasks,           \* the calls of enqueueCommandInLane, each made once
    MaxConcurrency   \* bound on the configured concurrency

ASSUME LanesAssumption == MaxConcurrency \in Nat \ {0}

VARIABLES
    lanes,     \* the lanes map: name -> LaneState
    running,   \* per lane, the tasks whose async wrapper awaits entry.task()
    promise    \* what the caller of enqueueCommandInLane holds

vars == <<lanes, running, promise>>

Outcomes == {"resolved", "rejected"}

Queued(l) == Range(lanes[l].queue)

TypeOK ==
    /\ lanes \in [Lanes -> LaneType(Tasks)]
    /\ running \in [Lanes -> SUBSET Tasks]
    /\ promise \in [Tasks -> {"none", "pending"} \cup Outcomes]

Init ==
    /\ lanes = [l \in Lanes |-> NewLane]
    /\ running = [l \in Lanes |-> {}]
    /\ promise = [t \in Tasks |-> "none"]

\* drainLane on a lane whose other fields the caller has just changed.
Drain(l, lane, stillRunning) ==
    /\ lanes' = [lanes EXCEPT ![l] = Pumped(lane)]
    /\ running' = [running EXCEPT ![l] = stillRunning \cup Range(Started(lane))]

Enqueue(l, t) ==
    /\ promise[t] = "none"
    /\ promise' = [promise EXCEPT ![t] = "pending"]
    /\ Drain(l, Pushed(lanes[l], t), running[l])

\* The continuation after `await entry.task()`, in the try or in the catch:
\* give the slot back, pump, then settle the caller's promise.
Settle_KeepsSlot(l, t, outcome) ==
    /\ t \in running[l]
    /\ promise' = [promise EXCEPT ![t] = outcome]
    /\ Drain(l, IF outcome = "rejected" THEN lanes[l] ELSE Released(lanes[l]),
             running[l] \ {t})
Settle(l, t, outcome) ==
    /\ t \in running[l]
    /\ promise' = [promise EXCEPT ![t] = outcome]
    /\ Drain(l, Released(lanes[l]), running[l] \ {t})

SetConcurrency_NoDrain(l, n) ==
    /\ lanes' = [lanes EXCEPT ![l] = Resized(lanes[l], n)]
    /\ UNCHANGED <<running, promise>>
SetConcurrency(l, n) ==
    /\ Drain(l, Resized(lanes[l], n), running[l])
    /\ UNCHANGED promise

Clear_ResetsActive(l) ==
    /\ lanes' = [lanes EXCEPT ![l] = [Cleared(@) EXCEPT !.active = 0]]
    /\ UNCHANGED <<running, promise>>
Clear(l) ==
    /\ lanes' = [lanes EXCEPT ![l] = Cleared(@)]
    /\ UNCHANGED <<running, promise>>

Finish(t) == \E l \in Lanes, outcome \in Outcomes : Settle(l, t, outcome)

Next ==
    \/ \E l \in Lanes, t \in Tasks : Enqueue(l, t)
    \/ \E t \in Tasks : Finish(t)
    \/ \E l \in Lanes, n \in 0..MaxConcurrency : SetConcurrency(l, n)
    \/ \E l \in Lanes : Clear(l)

\* Every task settles in the end: the callers bound their work with a timeout
\* (an agent run by its timeoutMs, a cron job by its payload's).  Nothing else
\* is fair: nobody is obliged to enqueue, to resize or to clear.
Fairness == \A t \in Tasks : WF_vars(Finish(t))

Spec == Init /\ [][Next]_vars
FairSpec == Spec /\ Fairness

-----------------------------------------------------------------------------
(* What makes the lanes correct.                                           *)

\* A slot is counted exactly while a task occupies it.  A leak would stop the
\* lane for ever, a double release would run two tasks of a serial lane at
\* once (state.active, command-queue.ts:62, 67 and 74).
SlotsExact ==
    \A l \in Lanes : /\ IsFiniteSet(running[l])
                     /\ lanes[l].active = Cardinality(running[l])

\* A task is in at most one place: waiting once in one lane, or running in
\* one lane, and in either case its promise is still pending.
OnePlace ==
    /\ \A l \in Lanes : \A i, j \in 1..Len(lanes[l].queue) :
          lanes[l].queue[i] = lanes[l].queue[j] => i = j
    /\ \A l, m \in Lanes :
          /\ Queued(l) \cap running[m] = {}
          /\ l # m => /\ Queued(l) \cap Queued(m) = {}
                      /\ running[l] \cap running[m] = {}
    /\ \A l \in Lanes : \A t \in Queued(l) \cup running[l] : promise[t] = "pending"

\* No lane idles while work waits: whatever just happened (a task failed, the
\* limit was raised, the queue was cleared and refilled), a non-empty queue
\* means every slot is taken.
NoIdleBacklog ==
    \A l \in Lanes :
        lanes[l].queue # <<>> => lanes[l].active >= lanes[l].maxConcurrent

\* A task only ever starts into a free slot, so a lowered limit is respected
\* by every later start even while older tasks still exceed it.
NoStartOverLimit ==
    [][\A l \in Lanes :
          running'[l] \ running[l] # {} =>
              Cardinality(running'[l]) <= lanes'[l].maxConcurrent]_vars

\* Nobody overtakes inside a lane: a waiting task starts only if everything
\* queued before it has left the queue too.
Fifo ==
    [][\A l \in Lanes : \A i, j \in 1..Len(lanes[l].queue) :
          (i < j /\ lanes[l].queue[j] \in running'[l]) =>
              lanes[l].queue[i] \in running'[l]]_vars

\* A caller whose entry was dropped by clearCommandLane: its promise is
\* pending and nobody is left to settle it.
Abandoned(t) ==
    /\ promise[t] = "pending"
    /\ \A l \in Lanes : t \notin Queued(l) \cup running[l]

\* Only a clear of the lane abandons a caller, and an abandoned caller stays
\* so: a task that has started always settles its promise.
OnlyClearAbandons ==
    [][\A t \in Tasks :
          /\ Abandoned(t) => Abandoned(t)'
          /\ ~Abandoned(t) /\ Abandoned(t)' =>
                \E l \in Lanes : t \in Queued(l) /\ lanes'[l].queue = <<>>]_vars

\* What a step may never do to the order, the limit and the callers.
LaneDiscipline == Fifo /\ NoStartOverLimit /\ OnlyClearAbandons

\* Every caller is answered in the end, unless its lane was cleared while it
\* was still waiting there.
EveryCallAnswered ==
    \A t \in Tasks :
        promise[t] = "pending" ~> (promise[t] \in Outcomes \/ Abandoned(t))
=============================================================================
