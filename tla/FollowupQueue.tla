---------------------------- MODULE FollowupQueue ----------------------------
(***************************************************************************)
(* The followup queue of one session (src/src/auto-reply/reply/queue):     *)
(* messages that arrive while the agent is busy wait here and are run one  *)
(* by one, or collected into one prompt, once it is free.                  *)
(*                                                                         *)
(* FOLLOWUP_QUEUES maps the session key to a queue object.  The drain loop *)
(* closes over the object but deletes and restarts by the key, so objects  *)
(* have an identity of their own here: clearFollowupQueue detaches the     *)
(* object of a loop that is still running, and the next message creates    *)
(* another one under the same key.                                         *)
(***************************************************************************)
EXTENDS Naturals, Sequences, FiniteSets, Functions

CONSTANTS
    Messages,       \* inbound messages, each enqueued at most once
    Id, Route,      \* of each message: provider message id, originating route
    NumericThreads, \* thread ids of type number; the others are strings
    Settings,       \* the queue settings a message may carry
    MaxQueues       \* bound on the queue objects ever created for the key

\* "followup" stands for every mode but "collect": they drain alike.
Modes == {"collect", "followup"}
DropPolicies == {"old", "new", "summarize"}

ASSUME QueueAssumption ==
    /\ MaxQueues \in Nat \ {0}
    /\ Id \in [Messages -> Range(Id)] /\ Route \in [Messages -> Range(Route)]
    /\ Settings # {}
    /\ Settings \subseteq [mode : Modes, cap : Nat, dropPolicy : DropPolicies]

\* A route is a place (channel, recipient and account) and a thread in it.
NoPlace == "no place"        \* no originating channel recorded at all
Unroutable == "unroutable"   \* a channel replies cannot be routed to
NoId == "no id"              \* the channel gave no message id
Queues == 1..MaxQueues
NoQueue == 0

VARIABLES
    queue,     \* the queue objects, each with the locals of its drain loop;
               \* those beyond created do not exist yet
    created,   \* how many of them exist
    current,   \* FOLLOWUP_QUEUES.get(key)
    outcome,   \* history: what became of each message
    overlap,   \* history: a clear has hit a queue whose loop was running
    switched   \* history: the drop policy changed while a summary was due

history == <<overlap, switched>>
vars == <<queue, created, current, outcome, overlap, switched>>

Outcomes == {"new", "pending", "handled", "failed", "dropped", "rejected",
             "duplicate", "cleared"}

\* items and dropped are what the object holds; at, force, batch and summary
\* belong to the loop: where it awaits and what it has handed to runFollowup.
QueueType ==
    [items : Seq(Messages), dropped : SUBSET Messages, lastRun : BOOLEAN,
     mode : Modes, cap : Nat \ {0}, dropPolicy : DropPolicies,
     at : {"idle", "debounce", "running"}, force : BOOLEAN,
     batch : Seq(Messages), summary : SUBSET Messages]

Draining(q) == queue[q].at # "idle"
Pending(rec) == rec.items # <<>> \/ rec.dropped # {}

TypeOK ==
    /\ queue \in [Queues -> QueueType]
    /\ created \in 0..MaxQueues
    /\ current \in {NoQueue} \cup 1..created
    /\ outcome \in [Messages -> Outcomes]
    /\ overlap \in BOOLEAN /\ switched \in BOOLEAN

\* resolveQueueSettings: Math.max(1, Math.floor(cap)).
ResolvedCap(cap) == IF cap < 1 THEN 1 ELSE cap

NewQueue(settings) ==
    [items |-> <<>>, dropped |-> {}, lastRun |-> FALSE,
     mode |-> settings.mode, cap |-> ResolvedCap(settings.cap), dropPolicy |-> settings.dropPolicy,
     at |-> "idle", force |-> FALSE, batch |-> <<>>, summary |-> {}]

Init ==
    /\ queue = [q \in Queues |-> NewQueue(CHOOSE s \in Settings : TRUE)]
    /\ created = 0 /\ current = NoQueue
    /\ outcome = [m \in Messages |-> "new"]
    /\ overlap = FALSE /\ switched = FALSE

-----------------------------------------------------------------------------
(* enqueueFollowupRun                                                      *)

\* isRunAlreadyQueued in its default mode: a message without id has no twin.
SameMessage_IgnoresRoute(m, n) == Id[m] # NoId /\ Id[m] = Id[n]
SameMessage(m, n) == Id[m] # NoId /\ Id[m] = Id[n] /\ Route[m] = Route[n]

\* getFollowupQueue: settings are updated in place on an existing object.
Configured(rec, settings) ==
    [rec EXCEPT !.mode = settings.mode, !.cap = ResolvedCap(settings.cap),
                !.dropPolicy = settings.dropPolicy]

\* applyQueueDropPolicy on a full queue: how many of the oldest items go.
Overflow_OffByOne(rec) == IF Len(rec.items) < rec.cap THEN 0 ELSE Len(rec.items) - rec.cap
Overflow(rec) == IF Len(rec.items) < rec.cap THEN 0 ELSE Len(rec.items) - rec.cap + 1

Evicted(rec) == {rec.items[i] : i \in DOMAIN rec.items \cap 1..Overflow(rec)}

Accepted(rec, m) ==
    [rec EXCEPT !.items = Append(SubSeq(@, Overflow(rec) + 1, Len(@)), m),
                !.dropped = IF rec.dropPolicy = "summarize" THEN @ \cup Evicted(rec) ELSE @,
                !.lastRun = TRUE]

Duplicate(rec, m) == \E n \in Range(rec.items) : SameMessage(m, n)
Refused(rec) == rec.dropPolicy = "new" /\ Overflow(rec) > 0

\* What happens to m and to the others when it is offered to rec.
Judged(rec, m) ==
    [n \in Messages |->
        IF n = m THEN IF Duplicate(rec, m) THEN "duplicate"
                      ELSE IF Refused(rec) THEN "rejected" ELSE "pending"
        ELSE IF /\ ~Duplicate(rec, m) /\ ~Refused(rec)
                /\ n \in Evicted(rec) /\ rec.dropPolicy # "summarize"
        THEN "dropped" ELSE outcome[n]]

Offered(rec, m) ==
    IF Duplicate(rec, m) THEN rec
    ELSE IF Refused(rec) THEN [rec EXCEPT !.lastRun = TRUE]
    ELSE Accepted(rec, m)

Enqueue(m, settings) ==
    /\ outcome[m] = "new"
    /\ current = NoQueue => created < MaxQueues
    /\ LET q == IF current = NoQueue THEN created + 1 ELSE current
           rec == IF current = NoQueue THEN NewQueue(settings)
                  ELSE Configured(queue[q], settings)
       IN  /\ current' = q
           /\ created' = IF current = NoQueue THEN q ELSE created
           /\ queue' = [queue EXCEPT ![q] = Offered(rec, m)]
           /\ outcome' = Judged(rec, m)
           /\ switched' = (switched \/ (rec.dropped # {} /\ rec.dropPolicy # "summarize"))
    /\ UNCHANGED overlap

-----------------------------------------------------------------------------
(* scheduleFollowupDrain                                                   *)

\* The end of the loop, its finally: delete the key if this object is empty,
\* else schedule a drain of whatever the key maps to by now.
Finally_NoRestart(q, rec) ==
    /\ queue' = [queue EXCEPT ![q] =
          [rec EXCEPT !.at = "idle", !.force = FALSE, !.batch = <<>>, !.summary = {}]]
    /\ current' = IF Pending(rec) THEN current ELSE NoQueue
Finally(q, rec) ==
    LET done == [rec EXCEPT !.at = "idle", !.force = FALSE, !.batch = <<>>, !.summary = {}]
        left == [queue EXCEPT ![q] = done]
        restart == Pending(done) /\ current # NoQueue /\ left[current].at = "idle"
    IN  /\ queue' = IF restart THEN [left EXCEPT ![current].at = "debounce"] ELSE left
        /\ current' = IF Pending(done) THEN current ELSE NoQueue

\* The condition of the while loop.
LoopTop(q, rec) ==
    IF Pending(rec)
    THEN /\ queue' = [queue EXCEPT ![q] =
                [rec EXCEPT !.at = "debounce", !.batch = <<>>, !.summary = {}]]
         /\ UNCHANGED current
    ELSE Finally(q, rec)

\* finalizeWithFollowup, at the end of a reply turn: start a loop unless one runs.
ScheduleDrain ==
    /\ current # NoQueue
    /\ ~Draining(current)
    /\ LoopTop(current, queue[current])
    /\ UNCHANGED <<created, outcome, history>>

\* The key hasCrossChannelItems compares.  A thread id counts if it is a
\* number only.
Unkeyed(m) == Route[m].place = NoPlace /\ Route[m].thread \notin NumericThreads
Cross(m) == ~Unkeyed(m) /\ Route[m].place \in {NoPlace, Unroutable}
ThreadKey(m) == IF Route[m].thread \in NumericThreads THEN Route[m].thread ELSE "none"
Key(m) == <<Route[m].place, ThreadKey(m)>>

HasCrossChannelItems_IgnoresUnkeyed(items) ==
    \/ \E m \in Range(items) : Cross(m)
    \/ Cardinality({Key(m) : m \in {n \in Range(items) : ~Unkeyed(n)}}) > 1
HasCrossChannelItems(items) ==
    LET keys == {Key(m) : m \in {n \in Range(items) : ~Unkeyed(n)}}
    IN  \/ \E m \in Range(items) : Cross(m)
        \/ keys # {} /\ \E m \in Range(items) : Unkeyed(m)
        \/ Cardinality(keys) > 1

SummaryDue(rec) == rec.dropPolicy = "summarize" /\ rec.dropped # {}

\* rec hands the first n items, and the summary if it is taken, to runFollowup.
HandOver_KeepsItems(rec, n, summarize) ==
    [rec EXCEPT !.batch = SubSeq(rec.items, 1, n),
                !.dropped = IF summarize THEN {} ELSE @,
                !.summary = IF summarize THEN rec.dropped ELSE {},
                !.at = "running"]
HandOver(rec, n, summarize) ==
    [rec EXCEPT !.items = SubSeq(@, n + 1, Len(@)), !.batch = SubSeq(rec.items, 1, n),
                !.dropped = IF summarize THEN {} ELSE @,
                !.summary = IF summarize THEN rec.dropped ELSE {},
                !.at = "running"]

\* Give the messages one by one: `shift`, and break on an empty queue.
RunOne_NoCheck(q, rec) ==
    LET n == IF rec.items = <<>> THEN 0 ELSE 1
    IN  queue' = [queue EXCEPT ![q] = HandOver(rec, n, FALSE)] /\ UNCHANGED current
RunOne(q, rec) ==
    IF rec.items = <<>> THEN Finally(q, rec)
    ELSE queue' = [queue EXCEPT ![q] = HandOver(rec, 1, FALSE)] /\ UNCHANGED current

\* Collect everything, with the summary of what was dropped; break if there
\* is no run to copy the parameters from.
RunAll_ForgetsKey(q, rec) ==
    IF rec.items = <<>> /\ ~rec.lastRun THEN Finally(q, rec)
    ELSE /\ queue' = [queue EXCEPT ![q] = HandOver(rec, Len(rec.items), SummaryDue(rec))]
         /\ current' = NoQueue
RunAll(q, rec) ==
    IF rec.items = <<>> /\ ~rec.lastRun THEN Finally(q, rec)
    ELSE /\ queue' = [queue EXCEPT ![q] = HandOver(rec, Len(rec.items), SummaryDue(rec))]
         /\ UNCHANGED current

\* The summary alone; the guard on lastRun cannot fail while one is due.
RunSummary(q, rec) ==
    IF rec.lastRun
    THEN queue' = [queue EXCEPT ![q] = HandOver(rec, 0, TRUE)] /\ UNCHANGED current
    ELSE Finally(q, [rec EXCEPT !.dropped = {}])

\* The continuation after waitForQueueDebounce.  Mode, items and policy are
\* read now: a clear or an enqueue may have come in between.
Debounced(q) ==
    LET rec == queue[q]
    IN  /\ rec.at = "debounce"
        /\ IF rec.mode = "collect"
           THEN IF rec.force \/ HasCrossChannelItems(rec.items)
                THEN RunOne(q, [rec EXCEPT !.force = TRUE])
                ELSE RunAll(q, rec)
           ELSE IF SummaryDue(rec) THEN RunSummary(q, rec) ELSE RunOne(q, rec)
        /\ UNCHANGED <<created, outcome, history>>

Settled(q, how) ==
    [m \in Messages |->
        IF m \in Range(queue[q].batch) \cup queue[q].summary THEN how ELSE outcome[m]]

\* runFollowup resolved: back to the loop's condition.
RunEnds(q) ==
    /\ queue[q].at = "running"
    /\ outcome' = Settled(q, "handled")
    /\ LoopTop(q, queue[q])
    /\ UNCHANGED <<created, history>>

\* runFollowup rejected (the session store or the send failed): the loop is
\* left through catch and finally, and what it carried is gone.
RunThrows(q) ==
    /\ queue[q].at = "running"
    /\ outcome' = Settled(q, "failed")
    /\ Finally(q, queue[q])
    /\ UNCHANGED <<created, history>>

-----------------------------------------------------------------------------
\* clearFollowupQueue (/stop, reset, sessions.delete): the object is emptied
\* and the key deleted.  What runs is left running, with its loop.
Clear ==
    /\ current # NoQueue
    /\ queue' = [queue EXCEPT ![current].items = <<>>, ![current].dropped = {},
                              ![current].lastRun = FALSE]
    /\ outcome' = [m \in Messages |->
          IF m \in Range(queue[current].items) \cup queue[current].dropped
          THEN "cleared" ELSE outcome[m]]
    /\ overlap' = (overlap \/ Draining(current))
    /\ current' = NoQueue
    /\ UNCHANGED <<created, switched>>

LoopStep(q) == Debounced(q) \/ RunEnds(q) \/ RunThrows(q)

Next ==
    \/ \E m \in Messages, s \in Settings : Enqueue(m, s)
    \/ ScheduleDrain
    \/ Clear
    \/ \E q \in Queues : LoopStep(q)

\* The loop's own steps are timers and awaits of a run that ends.
Fairness == \A q \in Queues : WF_vars(LoopStep(q))

Spec == Init /\ [][Next]_vars
FairSpec == Spec /\ Fairness

-----------------------------------------------------------------------------
(* What makes the queue correct.                                           *)

\* Where an accepted message can be: queued, in a prompt that is running, due
\* in a summary, or in a summary that is running.
Indices(seq, m) == {i \in DOMAIN seq : seq[i] = m}
PlacesIn(rec, m) ==
    ({"items"} \X Indices(rec.items, m)) \cup ({"batch"} \X Indices(rec.batch, m))
    \cup ({"dropped"} \X ({m} \cap rec.dropped)) \cup ({"summary"} \X ({m} \cap rec.summary))
Places(m) == UNION {{q} \X PlacesIn(queue[q], m) : q \in Queues}

\* No message is lost or run twice: from its acceptance until its outcome is
\* known it is in exactly one place, whatever is cleared, thrown or detached.
Conservation ==
    \A m \in Messages : Cardinality(Places(m)) = IF outcome[m] = "pending" THEN 1 ELSE 0

\* A message is only refused as a duplicate if the channel delivered it twice:
\* one with the same id from the same place and thread was accepted.
DuplicateHasTwin ==
    \A m \in Messages : outcome[m] = "duplicate" =>
        \E n \in Messages : /\ Id[n] = Id[m] /\ Route[n] = Route[m]
                            /\ outcome[n] \notin {"new", "duplicate", "rejected"}

\* A prompt that collects several messages has one destination: all of them
\* share place and numeric thread, or none of them has a route at all.
OneDestination ==
    \A q \in Queues : \A m, n \in Range(queue[q].batch) :
        Key(m) = Key(n) /\ (m # n => ~Cross(m))

\* The cap holds after every accepted message, however the settings moved.
CapHolds ==
    [][\A m \in Messages : (outcome[m] = "new" /\ outcome'[m] = "pending") =>
          Len(queue'[current'].items) <= queue'[current'].cap]_vars

\* There is one loop for a session and one queue for a loop.  Unless a clear hit
\* a running loop, no two loops answer two messages at once and out of order,
\* and no queue with work is held by no loop and found under no key.  And no
\* empty queue stays under the key once its loop has ended.
OneLoop ==
    overlap \/ Cardinality({q \in Queues : Draining(q)}) <= 1
NoOrphan ==
    overlap \/ \A q \in Queues : Pending(queue[q]) => (Draining(q) \/ current = q)
NoLeftover ==
    current # NoQueue /\ ~Draining(current) => Pending(queue[current])
LoopsKeepTheirQueue == OneLoop /\ NoOrphan /\ NoLeftover

\* The agent is never run on a prompt without a message or a summary, unless
\* the drop policy was changed while dropped messages were due.
NoEmptyPrompt ==
    switched \/ \A q \in Queues :
        queue[q].at = "running" => queue[q].batch # <<>> \/ queue[q].summary # {}

\* A message that a running loop holds is settled in the end, even when runs
\* before it throw.  After an overlap the loop may be left with it, and after
\* a change of the drop policy a dropped one may never be summarized.
HeldIsSettled ==
    \A m \in Messages :
        (\E q \in Queues : Draining(q) /\ m \in Range(queue[q].items))
            ~> (outcome[m] # "pending" \/ overlap \/ switched)

\* drain.ts:40: "Check if messages span multiple channels. If so, process
\* individually to preserve per-message routing."  types.ts:41: the routing
\* has a "Thread id for reply routing (Telegram topic id or Matrix thread
\* event id)", and an event id is a string.
BatchPreservesRouting ==
    \A q \in Queues : \A m, n \in Range(queue[q].batch) : Route[m] = Route[n]
==============================================================================
