------------------------- MODULE FollowupQueue_proofs -------------------------
(***************************************************************************)
(* That the followup queue loses and doubles no message, keeps one loop    *)
(* and its cap, and collects for one destination: for any messages, any    *)
(* settings and any number of queue objects.  And that the dispatch of the *)
(* session's messages (SessionDispatch) leaves no queue without a drain.   *)
(***************************************************************************)
EXTENDS FollowupQueue, SessionDispatch, FiniteSetTheorems, SequenceTheorems, TLAPS

-----------------------------------------------------------------------------
(* The invariant.                                                          *)

\* The messages a queue object and its loop hold, in four places.
Held(rec) == Range(rec.items) \cup Range(rec.batch) \cup rec.dropped \cup rec.summary

\* No message is twice in one object.
Tidy(rec) ==
    /\ IsInjective(rec.items) /\ IsInjective(rec.batch)
    /\ Range(rec.items) \cap Range(rec.batch) = {}
    /\ Range(rec.items) \cap (rec.dropped \cup rec.summary) = {}
    /\ Range(rec.batch) \cap (rec.dropped \cup rec.summary) = {}
    /\ rec.dropped \cap rec.summary = {}

\* What a loop has handed over it holds while the run lasts, and no longer.
HandsEmpty(rec) == rec.batch = <<>> /\ rec.summary = {}
BatchHasOneDestination(rec) ==
    \A m, n \in Range(rec.batch) : Key(m) = Key(n) /\ (m # n => ~Cross(m))

\* A loop waits for the debounce of something, unless a clear has taken it all
\* and the run to copy the parameters from with it.
WaitsForWork(rec) == rec.at = "debounce" => Pending(rec) \/ ~rec.lastRun

\* Whatever waits has left a run to copy the parameters from.
HasRun(rec) == Pending(rec) => rec.lastRun

\* While the drop policy stands, what was dropped is due in a summary, and a
\* prompt has a message or a summary.
PromptHasWork(rec) ==
    /\ rec.dropped # {} => rec.dropPolicy = "summarize"
    /\ rec.at = "running" => rec.batch # <<>> \/ rec.summary # {}

ObjectInv(rec, sw) ==
    /\ Tidy(rec) /\ HasRun(rec)
    /\ rec.at # "running" => HandsEmpty(rec)
    /\ BatchHasOneDestination(rec)
    /\ WaitsForWork(rec)
    /\ sw \/ PromptHasWork(rec)
ObjectsInv == \A q \in Queues : ObjectInv(queue[q], switched)

\* No two objects hold a message, and what is held is what is pending.
OneHolder ==
    \A p, q \in Queues : p # q => Held(queue[p]) \cap Held(queue[q]) = {}
PendingIsHeld ==
    \A m \in Messages : outcome[m] = "pending" <=> \E q \in Queues : m \in Held(queue[q])

\* Objects that do not exist yet are empty.
NoneBeforeCreation ==
    \A q \in Queues : q > created => queue[q].at = "idle" /\ ~Pending(queue[q])

\* Unless a clear has hit a running loop, whatever has work is under the key.
WorkIsUnderKey ==
    overlap \/ \A q \in Queues : (Draining(q) \/ Pending(queue[q])) => q = current

QueueInv ==
    /\ TypeOK /\ ObjectsInv /\ OneHolder /\ PendingIsHeld
    /\ NoneBeforeCreation /\ WorkIsUnderKey /\ NoLeftover /\ DuplicateHasTwin

-----------------------------------------------------------------------------
(* Sequences.                                                              *)

\* A sequence cut in two: the parts share nothing, and lose nothing.
LEMMA SplitFacts ==
    ASSUME NEW S, NEW s \in Seq(S), IsInjective(s), NEW n \in 0..Len(s)
    PROVE  /\ SubSeq(s, 1, n) \in Seq(S) /\ Len(SubSeq(s, 1, n)) = n
           /\ SubSeq(s, n + 1, Len(s)) \in Seq(S)
           /\ Len(SubSeq(s, n + 1, Len(s))) = Len(s) - n
           /\ IsInjective(SubSeq(s, 1, n)) /\ IsInjective(SubSeq(s, n + 1, Len(s)))
           /\ Range(SubSeq(s, 1, n)) = {s[i] : i \in 1..n}
           /\ Range(SubSeq(s, 1, n)) \cap Range(SubSeq(s, n + 1, Len(s))) = {}
           /\ Range(SubSeq(s, 1, n)) \cup Range(SubSeq(s, n + 1, Len(s))) = Range(s)
<1> DEFINE head == SubSeq(s, 1, n)
           rest == SubSeq(s, n + 1, Len(s))
<1>1. /\ Len(s) \in Nat /\ DOMAIN s = 1..Len(s)
      /\ \A i \in 1..Len(s) : s[i] \in S
      /\ \A i, j \in 1..Len(s) : s[i] = s[j] => i = j
    BY LenProperties, ElementOfSeq DEF IsInjective
<1>2. /\ head \in Seq(S) /\ Len(head) = n
      /\ \A i \in 1..n : head[i] = s[i]
    <2>1. \A i \in 1..n : s[i] \in S
        BY <1>1
    <2>2. /\ head \in Seq(S)
          /\ Len(head) = IF 1 <= n THEN n - 1 + 1 ELSE 0
          /\ \A i \in 1..(n - 1 + 1) : head[i] = s[1 + i - 1]
        BY <2>1, <1>1, SubSeqProperties
    <2>3. QED
        BY <2>2, <1>1
<1>3. /\ rest \in Seq(S) /\ Len(rest) = Len(s) - n
      /\ \A i \in 1..(Len(s) - n) : rest[i] = s[n + i]
    <2>1. \A i \in (n + 1)..Len(s) : s[i] \in S
        BY <1>1
    <2>2. n + 1 \in Int /\ Len(s) \in Int
        BY <1>1
    <2>3. /\ rest \in Seq(S)
          /\ Len(rest) = IF n + 1 <= Len(s) THEN Len(s) - (n + 1) + 1 ELSE 0
          /\ \A i \in 1..(Len(s) - (n + 1) + 1) : rest[i] = s[(n + 1) + i - 1]
        BY <2>1, <2>2, SubSeqProperties
    <2> HIDE DEF rest
    <2>4. Len(s) - (n + 1) + 1 = Len(s) - n /\ (n + 1 <= Len(s) \/ Len(s) - n = 0)
        <3>1. \A k \in Nat : \A i \in 0..k : k - (i + 1) + 1 = k - i /\ (i + 1 <= k \/ k - i = 0)
            OBVIOUS
        <3>2. QED
            BY <3>1, <1>1
    <2>5. \A i \in 1..(Len(s) - n) : (n + 1) + i - 1 = n + i
        BY <1>1
    <2>6. QED
        BY <2>3, <2>4, <2>5, <1>1
<1> HIDE DEF head, rest
<1>4. DOMAIN head = 1..n /\ DOMAIN rest = 1..(Len(s) - n)
    BY <1>2, <1>3, LenProperties
<1>5. IsInjective(head) /\ IsInjective(rest)
    <2>1. \A i, j \in 1..n : head[i] = head[j] => i = j
        BY <1>1, <1>2
    <2>2. \A i, j \in 1..(Len(s) - n) : rest[i] = rest[j] => i = j
        <3>1. \A i \in 1..(Len(s) - n) : n + i \in 1..Len(s)
            BY <1>1
        <3>2. \A i, j \in 1..(Len(s) - n) : n + i = n + j => i = j
            OBVIOUS
        <3>3. QED
            BY <3>1, <3>2, <1>1, <1>3
    <2>3. QED
        BY <2>1, <2>2, <1>4 DEF IsInjective
<1>6. Range(head) = {s[i] : i \in 1..n}
    BY <1>2, <1>4 DEF Range
<1>7. Range(rest) = {s[i] : i \in (n + 1)..Len(s)}
    <2>1. \A i \in 1..(Len(s) - n) : n + i \in (n + 1)..Len(s) /\ rest[i] = s[n + i]
        BY <1>1, <1>3
    <2>2. \A i \in (n + 1)..Len(s) : i - n \in 1..(Len(s) - n) /\ rest[i - n] = s[i]
        BY <1>1, <1>3
    <2>3. ASSUME NEW i \in 1..(Len(s) - n)
          PROVE  rest[i] \in {s[k] : k \in (n + 1)..Len(s)}
        BY <2>1
    <2>4. ASSUME NEW i \in (n + 1)..Len(s)
          PROVE  s[i] \in {rest[k] : k \in 1..(Len(s) - n)}
        BY <2>2
    <2>5. Range(rest) = {rest[k] : k \in 1..(Len(s) - n)}
        BY <1>4 DEF Range
    <2>6. QED
        BY <2>3, <2>4, <2>5
<1>8. Range(head) \cap Range(rest) = {}
    <2>1. \A i \in 1..n, j \in (n + 1)..Len(s) : s[i] # s[j]
        BY <1>1
    <2>2. QED
        BY <2>1, <1>6, <1>7
<1>9. Range(head) \cup Range(rest) = Range(s)
    <2>1. Range(s) = {s[i] : i \in 1..Len(s)}
        BY <1>1 DEF Range
    <2>2. 1..Len(s) = (1..n) \cup ((n + 1)..Len(s))
        BY <1>1
    <2>3. QED
        BY <2>1, <2>2, <1>6, <1>7
<1>10. QED
    BY <1>2, <1>3, <1>5, <1>6, <1>8, <1>9 DEF head, rest

\* A new message at the end of a sequence.
LEMMA AppendFacts ==
    ASSUME NEW S, NEW s \in Seq(S), IsInjective(s), NEW m \in S, m \notin Range(s)
    PROVE  /\ Append(s, m) \in Seq(S) /\ Append(s, m) # <<>>
           /\ Len(Append(s, m)) = Len(s) + 1
           /\ IsInjective(Append(s, m))
           /\ Range(Append(s, m)) = Range(s) \cup {m}
<1> DEFINE t == Append(s, m)
<1>1. /\ Len(s) \in Nat /\ DOMAIN s = 1..Len(s)
      /\ \A i, j \in 1..Len(s) : s[i] = s[j] => i = j
    BY LenProperties DEF IsInjective
<1>2. /\ t \in Seq(S) /\ t # <<>> /\ Len(t) = Len(s) + 1
      /\ \A i \in 1..Len(s) : t[i] = s[i]
      /\ t[Len(s) + 1] = m
    BY AppendProperties
<1> HIDE DEF t
<1>3. DOMAIN t = 1..(Len(s) + 1)
    BY <1>2, LenProperties
<1>4. \A i \in 1..Len(s) : s[i] # m
    BY <1>1 DEF Range
<1>5. 1..(Len(s) + 1) = (1..Len(s)) \cup {Len(s) + 1} /\ Len(s) + 1 \notin 1..Len(s)
    BY <1>1
<1>6. IsInjective(t)
    BY <1>1, <1>2, <1>3, <1>4, <1>5 DEF IsInjective
<1>7. Range(t) = Range(s) \cup {m}
    BY <1>1, <1>2, <1>3, <1>5 DEF Range
<1>8. QED
    BY <1>2, <1>6, <1>7 DEF t

\* The empty sequence.
LEMMA EmptyFacts ==
    ASSUME NEW S
    PROVE  /\ <<>> \in Seq(S) /\ Len(<<>>) = 0 /\ IsInjective(<<>>) /\ Range(<<>>) = {}
           /\ \A s \in Seq(S) : /\ Len(s) \in Nat /\ (s = <<>> <=> Len(s) = 0)
                                /\ (s = <<>> <=> Range(s) = {}) /\ Range(s) \subseteq S
<1>1. /\ <<>> \in Seq(S) /\ Len(<<>>) = 0
      /\ \A s \in Seq(S) : s # <<>> => Len(s) \in Nat \ {0}
    BY EmptySeq
<1>2. DOMAIN <<>> = {}
    BY <1>1, LenProperties
<1>3. IsInjective(<<>>) /\ Range(<<>>) = {}
    BY <1>2 DEF IsInjective, Range
<1>4. ASSUME NEW s \in Seq(S)
      PROVE  /\ Len(s) \in Nat /\ (s = <<>> <=> Len(s) = 0)
             /\ (s = <<>> <=> Range(s) = {}) /\ Range(s) \subseteq S
    <2>1. Len(s) \in Nat /\ DOMAIN s = 1..Len(s)
        BY LenProperties
    <2>2. Range(s) \subseteq S
        BY RangeOfSeq
    <2>3. ASSUME s # <<>> PROVE Range(s) # {}
        <3>1. 1 \in DOMAIN s
            BY <2>1, <2>3, <1>1
        <3>2. QED
            BY <3>1 DEF Range
    <2>4. QED
        BY <2>1, <2>2, <2>3, <1>1, <1>3
<1>5. QED
    BY <1>1, <1>3, <1>4

-----------------------------------------------------------------------------
(* Queue objects.                                                          *)

\* What was dropped is due in a summary, as far as the policy stands.
DropsAreDue(rec) == rec.dropped # {} => rec.dropPolicy = "summarize"

\* A loop that starts, goes on or ends holds nothing.
Rest(rec, at, force) ==
    [rec EXCEPT !.at = at, !.force = force, !.batch = <<>>, !.summary = {}]

\* An object whose loop has nothing in hand keeps its messages and its order.
LEMMA RestFacts ==
    ASSUME NEW rec \in QueueType, Tidy(rec), HasRun(rec), NEW force \in BOOLEAN,
           NEW at \in {"idle", "debounce"}, at = "debounce" => Pending(rec)
    PROVE  /\ Rest(rec, at, force) \in QueueType
           /\ Rest(rec, at, force).at = at
           /\ Held(Rest(rec, at, force)) = Range(rec.items) \cup rec.dropped
           /\ Pending(Rest(rec, at, force)) <=> Pending(rec)
           /\ \A sw \in BOOLEAN :
                 sw \/ DropsAreDue(rec) => ObjectInv(Rest(rec, at, force), sw)
<1> DEFINE R == Rest(rec, at, force)
<1>1. /\ R.items = rec.items /\ R.dropped = rec.dropped /\ R.lastRun = rec.lastRun
      /\ R.mode = rec.mode /\ R.cap = rec.cap /\ R.dropPolicy = rec.dropPolicy
      /\ R.at = at /\ R.force = force /\ R.batch = <<>> /\ R.summary = {}
    BY DEF Rest, QueueType
<1>2. /\ <<>> \in Seq(Messages) /\ IsInjective(<<>>) /\ Range(<<>>) = {}
    BY EmptyFacts
<1>3. R \in QueueType
    BY <1>2 DEF Rest, QueueType
<1> HIDE DEF R
<1>4. Held(R) = Range(rec.items) \cup rec.dropped
    BY <1>1, <1>2 DEF Held
<1>5. Tidy(R)
    BY <1>1, <1>2 DEF Tidy
<1>6. Pending(R) <=> Pending(rec)
    BY <1>1 DEF Pending
<1>7. HandsEmpty(R) /\ BatchHasOneDestination(R)
    BY <1>1, <1>2 DEF HandsEmpty, BatchHasOneDestination
<1>8. WaitsForWork(R)
    BY <1>1, <1>6 DEF WaitsForWork
<1>9. DropsAreDue(rec) => PromptHasWork(R)
    BY <1>1 DEF DropsAreDue, PromptHasWork
<1>10. \A sw \in BOOLEAN : sw \/ DropsAreDue(rec) => ObjectInv(R, sw)
    <2>1. HasRun(R)
        BY <1>1, <1>6 DEF HasRun
    <2>2. QED
        BY <2>1, <1>5, <1>7, <1>8, <1>9 DEF ObjectInv
<1>11. QED
    BY <1>1, <1>3, <1>4, <1>6, <1>10 DEF R

\* Handing over moves messages from the object to its loop, and loses none.
LEMMA HandOverFacts ==
    ASSUME NEW rec \in QueueType, Tidy(rec), HandsEmpty(rec),
           NEW n \in 0..Len(rec.items), NEW b \in BOOLEAN
    PROVE  /\ HandOver(rec, n, b) \in QueueType
           /\ HandOver(rec, n, b).at = "running"
           /\ Tidy(HandOver(rec, n, b))
           /\ Held(HandOver(rec, n, b)) = Held(rec)
           /\ \A m \in Range(HandOver(rec, n, b).batch) : \E i \in 1..n : m = rec.items[i]
           /\ Len(HandOver(rec, n, b).batch) = n
           /\ HandOver(rec, n, b).batch = <<>> <=> n = 0
           /\ b => /\ HandOver(rec, n, b).dropped = {}
                   /\ HandOver(rec, n, b).summary = rec.dropped
           /\ ~b => /\ HandOver(rec, n, b).dropped = rec.dropped
                    /\ HandOver(rec, n, b).summary = {}
           /\ HandOver(rec, n, b).lastRun = rec.lastRun
           /\ Range(HandOver(rec, n, b).items) \subseteq Range(rec.items)
           /\ HandOver(rec, n, b).dropPolicy = rec.dropPolicy
<1> DEFINE H == HandOver(rec, n, b)
           head == SubSeq(rec.items, 1, n)
           rest == SubSeq(rec.items, n + 1, Len(rec.items))
<1>1. /\ rec.items \in Seq(Messages) /\ rec.dropped \subseteq Messages
      /\ IsInjective(rec.items)
    BY DEF QueueType, Tidy
<1>2. /\ head \in Seq(Messages) /\ Len(head) = n
      /\ rest \in Seq(Messages)
      /\ IsInjective(head) /\ IsInjective(rest)
      /\ Range(head) = {rec.items[i] : i \in 1..n}
      /\ Range(head) \cap Range(rest) = {}
      /\ Range(head) \cup Range(rest) = Range(rec.items)
    BY <1>1, SplitFacts
<1>3. rec.batch = <<>> /\ rec.summary = {} /\ Range(<<>>) = {}
    BY EmptyFacts DEF HandsEmpty
<1>4. head = <<>> <=> n = 0
    BY <1>2, EmptyFacts
<1>5. /\ H.items = rest /\ H.batch = head /\ H.at = "running"
      /\ H.dropped = (IF b THEN {} ELSE rec.dropped)
      /\ H.summary = (IF b THEN rec.dropped ELSE {})
      /\ H.dropPolicy = rec.dropPolicy /\ H.lastRun = rec.lastRun
    BY DEF HandOver, QueueType
<1> HIDE DEF head, rest
<1>6. H \in QueueType
    <2>1. H = [rec EXCEPT !.items = rest, !.batch = head,
                          !.dropped = IF b THEN {} ELSE @,
                          !.summary = IF b THEN rec.dropped ELSE {}, !.at = "running"]
        BY DEF HandOver, head, rest
    <2>2. QED
        BY <2>1, <1>1, <1>2 DEF QueueType
<1> HIDE DEF H
<1>7. Tidy(H)
    BY <1>1, <1>2, <1>3, <1>5 DEF Tidy
<1>8. Held(H) = Held(rec)
    BY <1>2, <1>3, <1>5 DEF Held
<1>9. \A m \in Range(H.batch) : \E i \in 1..n : m = rec.items[i]
    BY <1>2, <1>5
<1>10. Range(H.items) \subseteq Range(rec.items) /\ Len(H.batch) = n
    BY <1>2, <1>5
<1>11. QED
    BY <1>4, <1>5, <1>6, <1>7, <1>8, <1>9, <1>10 DEF H

-----------------------------------------------------------------------------
(* The end of a loop step.                                                 *)

\* What a step of the loop of q leaves behind: the invariant, as far as it is
\* about the objects, and object q holding the messages of kept.
LoopLeaves(q, kept) ==
    /\ queue' \in [Queues -> QueueType] /\ current' \in {NoQueue} \cup 1..created
    /\ ObjectsInv' /\ NoneBeforeCreation' /\ WorkIsUnderKey' /\ NoLeftover'
    /\ Held(queue'[q]) = kept
    /\ \A p \in Queues \ {q} : Held(queue'[p]) = Held(queue[p])

\* The objects as they are before the step, in which the loop of q runs or is
\* about to.
LoopMayRun(q) ==
    /\ TypeOK /\ ObjectsInv /\ NoneBeforeCreation /\ WorkIsUnderKey /\ NoLeftover
    /\ q \in 1..created /\ q \in Queues /\ (overlap \/ q = current)
    /\ created' = created /\ overlap' = overlap /\ switched' = switched

\* The end of a loop deletes the key or schedules what is found under it.
LEMMA FinallyFacts ==
    ASSUME NEW q, LoopMayRun(q), NEW rec \in QueueType, Tidy(rec),
           HasRun(rec), switched \/ DropsAreDue(rec), Finally(q, rec)
    PROVE  LoopLeaves(q, Range(rec.items) \cup rec.dropped)
<1> DEFINE done == Rest(rec, "idle", FALSE)
           left == [queue EXCEPT ![q] = done]
           restart == Pending(done) /\ current # NoQueue /\ left[current].at = "idle"
<1>1. /\ queue' = IF restart THEN [left EXCEPT ![current].at = "debounce"] ELSE left
      /\ current' = IF Pending(done) THEN current ELSE NoQueue
    BY DEF Finally, Rest
<1>2. /\ queue \in [Queues -> QueueType] /\ q \in Queues /\ q \in 1..created
      /\ created \in 0..MaxQueues /\ current \in {NoQueue} \cup 1..created
      /\ switched \in BOOLEAN /\ switched' = switched
      /\ created' = created /\ overlap' = overlap /\ (overlap \/ q = current)
    BY DEF LoopMayRun, TypeOK
<1>3. /\ \A p \in Queues : ObjectInv(queue[p], switched)
      /\ \A p \in Queues : p > created => queue[p].at = "idle" /\ ~Pending(queue[p])
      /\ overlap \/ \A p \in Queues : queue[p].at # "idle" \/ Pending(queue[p]) => p = current
      /\ current # NoQueue /\ queue[current].at = "idle" => Pending(queue[current])
    BY DEF LoopMayRun, ObjectsInv, NoneBeforeCreation, WorkIsUnderKey, NoLeftover, Draining
<1>4. current # NoQueue => current \in Queues /\ current <= created
    BY <1>2, QueueAssumption DEF Queues, NoQueue
<1>5. /\ done \in QueueType /\ done.at = "idle" /\ Held(done) = Range(rec.items) \cup rec.dropped
      /\ Pending(done) <=> Pending(rec)
      /\ ObjectInv(done, switched)
    BY <1>2, RestFacts
<1>6. /\ left \in [Queues -> QueueType] /\ left[q] = done
      /\ \A p \in Queues \ {q} : left[p] = queue[p]
    BY <1>2, <1>5
<1> HIDE DEF done, left
<1>7. \A p \in Queues : ObjectInv(left[p], switched)
    BY <1>3, <1>5, <1>6
<1>8. CASE restart
    <2> DEFINE woken == Rest(left[current], "debounce", left[current].force)
    <2>1. /\ current \in Queues /\ current' = current /\ left[current] \in QueueType
          /\ left[current].at = "idle" /\ Pending(done)
        BY <1>1, <1>4, <1>6, <1>8
    <2>2. Pending(left[current])
        BY <1>3, <1>6, <1>8, <2>1
    <2>3. Tidy(left[current]) /\ HasRun(left[current]) /\ HandsEmpty(left[current]) /\ (switched \/ DropsAreDue(left[current]))
        BY <1>7, <2>1 DEF ObjectInv, PromptHasWork, DropsAreDue
    <2>4. [left[current] EXCEPT !.at = "debounce"] = woken
        BY <2>1, <2>3 DEF Rest, HandsEmpty, QueueType
    <2>5. queue' = [left EXCEPT ![current] = woken]
        <3>1. queue' = [left EXCEPT ![current] = [left[current] EXCEPT !.at = "debounce"]]
            BY <1>1, <1>8
        <3>2. QED
            BY <3>1, <2>4
    <2>6. /\ woken \in QueueType /\ woken.at = "debounce"
          /\ Held(woken) = Range(left[current].items) \cup left[current].dropped
          /\ Pending(woken)
          /\ ObjectInv(woken, switched)
        <3>1. left[current].force \in BOOLEAN
            BY <2>1 DEF QueueType
        <3>2. QED
            BY <1>2, <2>1, <2>2, <2>3, <3>1, RestFacts
    <2>7. Held(woken) = Held(left[current])
        BY <2>3, <2>6, EmptyFacts DEF Held, HandsEmpty
    <2> HIDE DEF woken
    <2>8. /\ queue' \in [Queues -> QueueType] /\ queue'[current] = woken
          /\ \A p \in Queues \ {current} : queue'[p] = left[p]
        BY <1>6, <2>1, <2>5, <2>6
    <2>9. \A p \in Queues : ObjectInv(queue'[p], switched)
        BY <1>7, <2>6, <2>8
    <2>10. \A p \in Queues : Held(queue'[p]) = Held(left[p])
        BY <2>7, <2>8
    <2>11. /\ Held(queue'[q]) = Range(rec.items) \cup rec.dropped
           /\ \A p \in Queues \ {q} : Held(queue'[p]) = Held(queue[p])
        BY <1>2, <1>5, <1>6, <2>10
    <2>12. \A p \in Queues : p > created => queue'[p].at = "idle" /\ ~Pending(queue'[p])
        <3>1. ASSUME NEW p \in Queues, p > created PROVE p # q /\ p # current
            BY <1>2, <1>4, <2>1, <1>8, <3>1 DEF Queues
        <3>2. QED
            BY <3>1, <1>3, <1>6, <2>8
    <2>13. overlap \/ \A p \in Queues : queue'[p].at # "idle" \/ Pending(queue'[p]) => p = current
        BY <1>2, <1>3, <1>6, <2>8
    <2>14. queue'[current].at # "idle"
        BY <2>6, <2>8
    <2>15. QED
        BY <1>2, <2>1, <2>8, <2>9, <2>11, <2>12, <2>13, <2>14
           DEF LoopLeaves, ObjectsInv, NoneBeforeCreation, WorkIsUnderKey, NoLeftover, Draining
<1>9. CASE ~restart
    <2>1. queue' = left
        BY <1>1, <1>9
    <2>2. \A p \in Queues : ObjectInv(queue'[p], switched)
        BY <1>7, <2>1
    <2>3. /\ Held(queue'[q]) = Range(rec.items) \cup rec.dropped
          /\ \A p \in Queues \ {q} : Held(queue'[p]) = Held(queue[p])
        BY <1>2, <1>5, <1>6, <2>1
    <2>4. \A p \in Queues : p > created => queue'[p].at = "idle" /\ ~Pending(queue'[p])
        <3>1. ASSUME NEW p \in Queues, p > created PROVE p # q
            BY <1>2, <3>1 DEF Queues
        <3>2. QED
            BY <3>1, <1>3, <1>6, <2>1
    <2>5. current' # NoQueue => Pending(done) /\ current' = current /\ queue'[current].at # "idle"
        BY <1>1, <1>9, <2>1
    <2>6. overlap \/ \A p \in Queues : queue'[p].at # "idle" \/ Pending(queue'[p]) => p = current'
        <3>1. SUFFICES ASSUME ~overlap, NEW p \in Queues, queue'[p].at # "idle" \/ Pending(queue'[p])
                       PROVE  p = current'
            OBVIOUS
        <3>2. q = current
            BY <1>2, <3>1
        <3>3. p = q
            BY <1>3, <1>6, <2>1, <3>1, <3>2
        <3>4. Pending(done)
            BY <1>5, <1>6, <2>1, <3>1, <3>3
        <3>5. QED
            BY <1>1, <3>2, <3>3, <3>4
    <2>7. current' \in {NoQueue} \cup 1..created
        BY <1>1, <1>2
    <2>8. queue' \in [Queues -> QueueType]
        BY <2>1, <1>6
    <2>9. QED
        BY <1>2, <2>2, <2>3, <2>4, <2>5, <2>6, <2>7, <2>8
           DEF LoopLeaves, ObjectsInv, NoneBeforeCreation, WorkIsUnderKey, NoLeftover, Draining
<1>10. QED
    BY <1>8, <1>9

\* Any other step of the loop of q replaces the object and keeps the key.
LEMMA ReplacedFacts ==
    ASSUME NEW q, LoopMayRun(q), NEW R \in QueueType, ObjectInv(R, switched),
           R.at # "idle", queue' = [queue EXCEPT ![q] = R], current' = current
    PROVE  LoopLeaves(q, Held(R))
<1>1. /\ queue \in [Queues -> QueueType] /\ q \in Queues /\ q \in 1..created
      /\ created \in 0..MaxQueues /\ current \in {NoQueue} \cup 1..created
      /\ switched' = switched /\ created' = created /\ overlap' = overlap
      /\ (overlap \/ q = current)
    BY DEF LoopMayRun, TypeOK
<1>2. /\ \A p \in Queues : ObjectInv(queue[p], switched)
      /\ \A p \in Queues : p > created => queue[p].at = "idle" /\ ~Pending(queue[p])
      /\ overlap \/ \A p \in Queues : queue[p].at # "idle" \/ Pending(queue[p]) => p = current
      /\ current # NoQueue /\ queue[current].at = "idle" => Pending(queue[current])
    BY DEF LoopMayRun, ObjectsInv, NoneBeforeCreation, WorkIsUnderKey, NoLeftover, Draining
<1>3. /\ queue' \in [Queues -> QueueType] /\ queue'[q] = R
      /\ \A p \in Queues \ {q} : queue'[p] = queue[p]
    BY <1>1
<1>4. \A p \in Queues : ObjectInv(queue'[p], switched)
    BY <1>2, <1>3
<1>5. \A p \in Queues : p > created => queue'[p].at = "idle" /\ ~Pending(queue'[p])
    <2>1. ASSUME NEW p \in Queues, p > created PROVE p # q
        BY <1>1, <2>1 DEF Queues
    <2>2. QED
        BY <2>1, <1>2, <1>3
<1>6. overlap \/ \A p \in Queues : queue'[p].at # "idle" \/ Pending(queue'[p]) => p = current
    BY <1>1, <1>2, <1>3
<1>7. current # NoQueue /\ queue'[current].at = "idle" => Pending(queue'[current])
    <2>1. current # NoQueue => current \in Queues
        BY <1>1, QueueAssumption DEF Queues, NoQueue
    <2>2. QED
        BY <2>1, <1>2, <1>3
<1>8. Held(queue'[q]) = Held(R) /\ \A p \in Queues \ {q} : Held(queue'[p]) = Held(queue[p])
    BY <1>3
<1>9. QED
    BY <1>1, <1>3, <1>4, <1>5, <1>6, <1>7, <1>8
       DEF LoopLeaves, ObjectsInv, NoneBeforeCreation, WorkIsUnderKey, NoLeftover, Draining

\* Back at the loop's condition, with nothing in hand.
LEMMA LoopTopFacts ==
    ASSUME NEW q, LoopMayRun(q), LoopTop(q, queue[q])
    PROVE  LoopLeaves(q, Range(queue[q].items) \cup queue[q].dropped)
<1> DEFINE rec == queue[q]
<1>1. /\ rec \in QueueType /\ Tidy(rec) /\ HasRun(rec) /\ (switched \/ DropsAreDue(rec)) /\ switched \in BOOLEAN
    BY DEF LoopMayRun, TypeOK, ObjectsInv, ObjectInv, PromptHasWork, DropsAreDue
<1>2. CASE Pending(rec)
    <2> DEFINE R == Rest(rec, "debounce", rec.force)
    <2>1. /\ R \in QueueType /\ R.at = "debounce"
          /\ Held(R) = Range(rec.items) \cup rec.dropped /\ ObjectInv(R, switched)
        <3>1. rec.force \in BOOLEAN
            BY <1>1 DEF QueueType
        <3> HIDE DEF rec
        <3>2. QED
            BY <1>1, <1>2, <3>1, RestFacts
    <2>2. queue' = [queue EXCEPT ![q] = R] /\ current' = current
        <3>1. R = [rec EXCEPT !.at = "debounce", !.batch = <<>>, !.summary = {}]
            BY <1>1 DEF Rest, QueueType
        <3>2. QED
            BY <1>2, <3>1 DEF LoopTop
    <2> HIDE DEF R
    <2>3. LoopLeaves(q, Held(R))
        BY <2>1, <2>2, ReplacedFacts
    <2>4. QED
        BY <2>1, <2>3
<1>3. CASE ~Pending(rec)
    <2>1. Finally(q, rec)
        BY <1>3 DEF LoopTop
    <2> HIDE DEF rec
    <2>2. LoopLeaves(q, Range(rec.items) \cup rec.dropped)
        BY <1>1, <2>1, FinallyFacts
    <2>3. QED
        BY <2>2 DEF rec
<1>4. QED
    BY <1>2, <1>3

-----------------------------------------------------------------------------
(* Messages and their outcomes.                                            *)

\* A step that changes what one object holds keeps one holder per message, if it
\* takes in new messages only and the outcomes agree.
LEMMA HoldersFacts ==
    ASSUME OneHolder, PendingIsHeld, NEW q \in Queues,
           \A p \in Queues \ {q} : Held(queue'[p]) = Held(queue[p]),
           \A m \in Held(queue'[q]) : m \in Held(queue[q]) \/ (m \in Messages /\ outcome[m] = "new"),
           \A m \in Messages : outcome'[m] = "pending" <=>
               (m \in Held(queue'[q]) \/ (outcome[m] = "pending" /\ m \notin Held(queue[q])))
    PROVE  OneHolder' /\ PendingIsHeld'
<1>1. ASSUME NEW p \in Queues, p # q PROVE Held(queue'[q]) \cap Held(queue'[p]) = {}
    <2>1. SUFFICES ASSUME NEW m, m \in Held(queue'[q]), m \in Held(queue[p]) PROVE FALSE
        BY <1>1
    <2>2. m \notin Held(queue[q])
        BY <1>1, <2>1 DEF OneHolder
    <2>3. m \in Messages /\ outcome[m] = "new"
        BY <2>1, <2>2
    <2>4. QED
        BY <2>1, <2>3 DEF PendingIsHeld
<1>2. OneHolder'
    BY <1>1 DEF OneHolder
<1>3. ASSUME NEW m \in Messages
      PROVE  outcome'[m] = "pending" <=> \E p \in Queues : m \in Held(queue'[p])
    <2>1. ASSUME NEW p \in Queues, p # q, m \in Held(queue'[p]) PROVE outcome'[m] = "pending"
        <3>1. m \in Held(queue[p]) /\ m \notin Held(queue[q])
            BY <2>1 DEF OneHolder
        <3>2. QED
            BY <3>1 DEF PendingIsHeld
    <2>2. ASSUME outcome[m] = "pending", m \notin Held(queue[q])
          PROVE  \E p \in Queues : m \in Held(queue'[p])
        BY <2>2 DEF PendingIsHeld
    <2>3. QED
        BY <2>1, <2>2
<1>4. PendingIsHeld'
    BY <1>3 DEF PendingIsHeld
<1>5. QED
    BY <1>2, <1>4

\* What an accepted message may have become.
Accounted == Outcomes \ {"new", "duplicate", "rejected"}

\* Once a message was accepted it stays the twin of those that were not.
LEMMA TwinsStay ==
    ASSUME TypeOK, DuplicateHasTwin, outcome' \in [Messages -> Outcomes],
           \A m \in Messages : outcome'[m] = "duplicate" => outcome[m] = "duplicate",
           \A m \in Messages : outcome[m] \in Accounted => outcome'[m] \in Accounted
    PROVE  DuplicateHasTwin'
<1>1. \A m \in Messages : outcome[m] \in Outcomes /\ outcome'[m] \in Outcomes
    BY DEF TypeOK
<1>2. QED
    BY <1>1 DEF DuplicateHasTwin, Accounted, Outcomes

\* How a loop step keeps the invariant: what the object no longer holds is
\* settled in one way.
LEMMA LoopKeepsInv ==
    ASSUME QueueInv, NEW q, LoopMayRun(q), NEW kept, LoopLeaves(q, kept),
           kept \subseteq Held(queue[q]), NEW how \in {"handled", "failed", "cleared"},
           outcome' = [m \in Messages |->
               IF m \in Held(queue[q]) \ kept THEN how ELSE outcome[m]]
    PROVE  QueueInv'
<1>1. /\ outcome \in [Messages -> Outcomes] /\ overlap \in BOOLEAN /\ switched \in BOOLEAN
      /\ created \in 0..MaxQueues
      /\ overlap' = overlap /\ switched' = switched /\ created' = created /\ q \in Queues
    BY DEF LoopMayRun, TypeOK
<1>2. outcome' \in [Messages -> Outcomes]
    BY <1>1 DEF Outcomes
<1>3. TypeOK'
    BY <1>1, <1>2 DEF LoopLeaves, TypeOK
<1>4. \A m \in Messages : m \in Held(queue[q]) => outcome[m] = "pending"
    BY <1>1 DEF QueueInv, PendingIsHeld
<1>5. OneHolder' /\ PendingIsHeld'
    <2>1. \A m \in Messages : outcome'[m] = "pending" <=>
               (m \in kept \/ (outcome[m] = "pending" /\ m \notin Held(queue[q])))
        BY <1>4
    <2>2. QED
        BY <1>1, <2>1, HoldersFacts DEF LoopLeaves, QueueInv
<1>6. DuplicateHasTwin'
    <2>1. \A m \in Messages : outcome'[m] = "duplicate" => outcome[m] = "duplicate"
        OBVIOUS
    <2>2. \A m \in Messages : outcome[m] \in Accounted => outcome'[m] \in Accounted
        BY DEF Accounted, Outcomes
    <2>3. QED
        BY <1>2, <2>1, <2>2, TwinsStay DEF QueueInv
<1>7. QED
    BY <1>3, <1>5, <1>6 DEF LoopLeaves, QueueInv

-----------------------------------------------------------------------------
(* The steps of a loop.                                                    *)

\* A loop that runs is one of an object that exists, under the key unless a
\* clear has hit a running loop.
LEMMA DrainingMayRun ==
    ASSUME QueueInv, NEW q \in Queues, Draining(q), UNCHANGED <<created, history>>
    PROVE  LoopMayRun(q)
<1>1. q \in 1..created
    BY QueueAssumption DEF QueueInv, NoneBeforeCreation, Draining, TypeOK, Queues
<1>2. overlap \/ q = current
    BY DEF QueueInv, WorkIsUnderKey
<1>3. QED
    BY <1>1, <1>2 DEF LoopMayRun, QueueInv, history

\* runFollowup ends well or badly: what the loop had in hand is settled.
LEMMA RunKeepsInv ==
    ASSUME QueueInv, NEW q \in Queues, RunEnds(q) \/ RunThrows(q)
    PROVE  QueueInv'
<1> DEFINE kept == Range(queue[q].items) \cup queue[q].dropped
<1>1. LoopMayRun(q)
    BY DrainingMayRun DEF RunEnds, RunThrows, Draining
<1>2. /\ queue[q] \in QueueType /\ Tidy(queue[q]) /\ HasRun(queue[q])
      /\ (switched \/ DropsAreDue(queue[q]))
    BY DEF QueueInv, TypeOK, ObjectsInv, ObjectInv, PromptHasWork, DropsAreDue
<1>3. LoopLeaves(q, kept)
    <2>1. CASE RunEnds(q)
        BY <2>1, <1>1, LoopTopFacts DEF RunEnds
    <2>2. CASE RunThrows(q)
        BY <2>2, <1>1, <1>2, FinallyFacts DEF RunThrows
    <2>3. QED
        BY <2>1, <2>2
<1>4. Held(queue[q]) \ kept = Range(queue[q].batch) \cup queue[q].summary
    BY <1>2 DEF Held, Tidy
<1>5. PICK how \in {"handled", "failed"} : outcome' = Settled(q, how)
    BY DEF RunEnds, RunThrows
<1>6. outcome' = [m \in Messages |->
          IF m \in Held(queue[q]) \ kept THEN how ELSE outcome[m]]
    BY <1>4, <1>5 DEF Settled
<1>7. kept \subseteq Held(queue[q])
    BY DEF Held
<1> HIDE DEF kept
<1>8. QED
    BY <1>1, <1>3, <1>6, <1>7, LoopKeepsInv

\* Items that hasCrossChannelItems lets pass have one destination.
LEMMA CollectedHaveOneDestination ==
    ASSUME NEW items \in Seq(Messages), ~HasCrossChannelItems(items)
    PROVE  \A m, n \in Range(items) : Key(m) = Key(n) /\ ~Cross(m)
<1> DEFINE keyed == {n \in Range(items) : ~Unkeyed(n)}
           keys == {Key(m) : m \in keyed}
<1>1. /\ \A m \in Range(items) : ~Cross(m)
      /\ keys = {} \/ \A m \in Range(items) : ~Unkeyed(m)
      /\ ~(Cardinality(keys) > 1)
    BY DEF HasCrossChannelItems
<1>2. IsFiniteSet(keys)
    <2>1. Len(items) \in Nat /\ DOMAIN items = 1..Len(items)
        BY LenProperties
    <2> DEFINE at == {i \in 1..Len(items) : ~Unkeyed(items[i])}
               f == [i \in at |-> Key(items[i])]
    <2>2. IsFiniteSet(at)
        <3>1. IsFiniteSet(1..Len(items))
            BY <2>1, FS_Interval
        <3>2. at \in SUBSET (1..Len(items))
            OBVIOUS
        <3> HIDE DEF at
        <3>3. QED
            BY <3>1, <3>2, FS_Subset
    <2>3. f \in Surjection(at, keys)
        <3>1. \A i \in at : items[i] \in keyed
            BY <2>1 DEF Range
        <3>2. \A m \in keyed : \E i \in at : items[i] = m
            BY <2>1 DEF Range
        <3>3. f \in [at -> keys]
            BY <3>1
        <3>4. \A k \in keys : \E i \in at : f[i] = k
            BY <3>2
        <3>5. QED
            BY <3>3, <3>4 DEF Surjection
    <2> HIDE DEF at, f, keys
    <2>4. QED
        BY <2>2, <2>3, FS_Surjection
<1>3. \A a, b \in keys : a = b
    <2>1. SUFFICES ASSUME NEW a \in keys, NEW b \in keys, a # b PROVE FALSE
        OBVIOUS
    <2> HIDE DEF keys
    <2>2. /\ IsFiniteSet({a}) /\ Cardinality({a}) = 1
        BY FS_Singleton
    <2>3. Cardinality({a} \cup {b}) = 2
        <3>1. Cardinality({a} \cup {b}) = IF b \in {a} THEN Cardinality({a}) ELSE Cardinality({a}) + 1
            BY <2>2, FS_AddElement
        <3>2. QED
            BY <2>1, <2>2, <3>1
    <2>4. {a} \cup {b} \in SUBSET keys
        BY <2>1
    <2>5. Cardinality({a} \cup {b}) <= Cardinality(keys)
        BY <1>2, <2>4, FS_Subset
    <2>6. Cardinality(keys) \in Nat
        BY <1>2, FS_CardinalityType
    <2>7. ~(Cardinality(keys) > 1)
        BY <1>1 DEF keys
    <2>8. 2 <= Cardinality(keys)
        BY <2>3, <2>5
    <2>9. QED
        BY <2>6, <2>7, <2>8
<1>4. ASSUME NEW m \in Range(items), NEW n \in Range(items) PROVE Key(m) = Key(n)
    <2>1. CASE keys = {}
        <3>1. Unkeyed(m) /\ Unkeyed(n)
            BY <2>1
        <3>2. QED
            BY <3>1 DEF Unkeyed, Key, ThreadKey
    <2>2. CASE keys # {}
        BY <1>1, <1>3, <2>2
    <2>3. QED
        BY <2>1, <2>2
<1>5. QED
    BY <1>1, <1>4

\* In particular no message is twice in what is left.
LEMMA HandOverIsTidy ==
    ASSUME NEW rec \in QueueType, Tidy(rec), HandsEmpty(rec),
           NEW n \in 0..Len(rec.items), NEW b \in BOOLEAN
    PROVE  Tidy(HandOver(rec, n, b))
BY HandOverFacts

\* What a loop hands over keeps the object's invariant, if it is one message or
\* several with one destination, and something at all.
LEMMA HandOverKeepsObject ==
    ASSUME NEW rec \in QueueType, NEW n \in 0..Len(rec.items), NEW b \in BOOLEAN,
           NEW sw \in BOOLEAN, Tidy(rec), HasRun(rec), HandsEmpty(rec), sw \/ DropsAreDue(rec),
           n <= 1 \/ ~HasCrossChannelItems(rec.items),
           sw \/ n > 0 \/ (b /\ rec.dropped # {})
    PROVE  ObjectInv(HandOver(rec, n, b), sw)
<1> DEFINE H == HandOver(rec, n, b)
<1>1. /\ H \in QueueType /\ H.at = "running" /\ Tidy(H)
      /\ \A m \in Range(H.batch) : \E i \in 1..n : m = rec.items[i]
      /\ H.batch = <<>> <=> n = 0
      /\ b => H.dropped = {} /\ H.summary = rec.dropped
      /\ ~b => H.dropped = rec.dropped /\ H.summary = {}
      /\ H.dropPolicy = rec.dropPolicy /\ H.lastRun = rec.lastRun
      /\ Range(H.items) \subseteq Range(rec.items)
    <2>1. H \in QueueType /\ H.at = "running" /\ Tidy(H)
        <3>1. H \in QueueType
            BY HandOverFacts
        <3>2. H.at = "running"
            BY HandOverFacts
        <3>3. Tidy(H)
            BY HandOverIsTidy
        <3>4. QED
            BY <3>1, <3>2, <3>3
    <2>2. \A m \in Range(H.batch) : \E i \in 1..n : m = rec.items[i]
        BY HandOverFacts
    <2>3. (H.batch = <<>> <=> n = 0) /\ Range(H.items) \subseteq Range(rec.items)
        <3>1. H.batch = <<>> <=> n = 0
            BY HandOverFacts
        <3>2. Range(H.items) \subseteq Range(rec.items)
            BY HandOverFacts
        <3>3. QED
            BY <3>1, <3>2
    <2>4. /\ b => H.dropped = {} /\ H.summary = rec.dropped
          /\ ~b => H.dropped = rec.dropped /\ H.summary = {}
        BY HandOverFacts
    <2>5. H.dropPolicy = rec.dropPolicy /\ H.lastRun = rec.lastRun
        BY HandOverFacts
    <2> HIDE DEF H
    <2>6. QED
        BY <2>1, <2>2, <2>3, <2>4, <2>5
<1> HIDE DEF H
<1>2. BatchHasOneDestination(H)
    <2>1. CASE n <= 1
        <3>1. \A i, j \in 1..n : i = j
            BY <2>1
        <3>2. \A m, k \in Range(H.batch) : m = k
            BY <1>1, <3>1
        <3>3. QED
            BY <3>2 DEF BatchHasOneDestination
    <2>2. CASE ~HasCrossChannelItems(rec.items)
        <3>1. rec.items \in Seq(Messages)
            BY DEF QueueType
        <3>2. DOMAIN rec.items = 1..Len(rec.items) /\ Len(rec.items) \in Nat
            BY <3>1, LenProperties
        <3>3. Range(H.batch) \subseteq Range(rec.items)
            <4>1. \A i \in 1..n : i \in DOMAIN rec.items
                BY <3>2
            <4>2. \A i \in 1..n : rec.items[i] \in Range(rec.items)
                BY <4>1 DEF Range
            <4>3. QED
                BY <1>1, <4>2
        <3>4. QED
            BY <2>2, <3>1, <3>3, CollectedHaveOneDestination DEF BatchHasOneDestination
    <2>3. QED
        BY <2>1, <2>2
<1>3. WaitsForWork(H)
    BY <1>1 DEF WaitsForWork
<1>4. sw \/ PromptHasWork(H)
    BY <1>1 DEF PromptHasWork, DropsAreDue
<1>5. HasRun(H)
    <2>1. rec.items \in Seq(Messages) /\ H.items \in Seq(Messages)
        BY <1>1 DEF QueueType
    <2>2. H.items # <<>> => rec.items # <<>>
        <3>1. \A s \in Seq(Messages) : s = <<>> <=> Range(s) = {}
            BY EmptyFacts
        <3>2. QED
            BY <1>1, <2>1, <3>1
    <2>3. QED
        BY <1>1, <2>2 DEF HasRun, Pending
<1>6. QED
    BY <1>1, <1>2, <1>3, <1>4, <1>5 DEF ObjectInv, H

\* The debounce is over: the loop takes messages, or finds none and ends.
LEMMA DebouncedLeaves ==
    ASSUME QueueInv, NEW q \in Queues, Debounced(q)
    PROVE  LoopLeaves(q, Held(queue[q]))
<1>1. LoopMayRun(q)
    BY DrainingMayRun DEF Debounced, Draining
<1> DEFINE rec == queue[q]
           forced == [rec EXCEPT !.force = TRUE]
<1>2. /\ rec \in QueueType /\ rec.at = "debounce" /\ Tidy(rec) /\ HasRun(rec) /\ HandsEmpty(rec)
      /\ WaitsForWork(rec) /\ (switched \/ DropsAreDue(rec)) /\ switched \in BOOLEAN
    BY DEF Debounced, QueueInv, TypeOK, ObjectsInv, ObjectInv, PromptHasWork, DropsAreDue
<1>3. IF rec.mode = "collect"
      THEN IF rec.force \/ HasCrossChannelItems(rec.items)
           THEN RunOne(q, forced) ELSE RunAll(q, rec)
      ELSE IF SummaryDue(rec) THEN RunSummary(q, rec) ELSE RunOne(q, rec)
    BY DEF Debounced
<1> SUFFICES LoopLeaves(q, Held(rec))
    OBVIOUS
<1> HIDE DEF rec
<1>4. /\ rec.items \in Seq(Messages) /\ Len(rec.items) \in Nat
      /\ rec.items = <<>> <=> Len(rec.items) = 0
      /\ Range(<<>>) = {}
    BY <1>2, EmptyFacts DEF QueueType
<1>5. Held(rec) = Range(rec.items) \cup rec.dropped
    BY <1>2, <1>4 DEF Held, HandsEmpty
<1>6. ASSUME NEW r \in QueueType, Tidy(r), HasRun(r), HandsEmpty(r), switched \/ DropsAreDue(r),
             r.items = rec.items, r.dropped = rec.dropped, RunOne(q, r)
      PROVE  LoopLeaves(q, Held(rec))
    <2>1. CASE r.items = <<>>
        <3>1. Finally(q, r)
            BY <1>6, <2>1 DEF RunOne
        <3>2. LoopLeaves(q, Range(r.items) \cup r.dropped)
            BY <1>1, <1>6, <3>1, FinallyFacts
        <3>3. QED
            BY <1>5, <1>6, <3>2
    <2>2. CASE r.items # <<>>
        <3> DEFINE H == HandOver(r, 1, FALSE)
        <3>1. queue' = [queue EXCEPT ![q] = H] /\ current' = current
            BY <1>6, <2>2 DEF RunOne
        <3>2. 1 \in 0..Len(r.items)
            BY <1>4, <1>6, <2>2
        <3>3. H \in QueueType /\ H.at = "running" /\ Held(H) = Held(r)
            BY <1>6, <3>2, HandOverFacts
        <3>4. ObjectInv(H, switched)
            <4>1. 1 <= 1 /\ 1 > 0 /\ FALSE \in BOOLEAN
                OBVIOUS
            <4>2. QED
                BY <4>1, <1>2, <1>6, <3>2, HandOverKeepsObject
        <3> HIDE DEF H
        <3>5. LoopLeaves(q, Held(H))
            BY <1>1, <3>1, <3>3, <3>4, ReplacedFacts
        <3>6. Held(r) = Held(rec)
            BY <1>2, <1>6 DEF Held, HandsEmpty
        <3>7. QED
            BY <3>3, <3>5, <3>6
    <2>3. QED
        BY <2>1, <2>2
<1>7. CASE rec.mode = "collect" /\ (rec.force \/ HasCrossChannelItems(rec.items))
    <2>1. /\ forced \in QueueType /\ Tidy(forced) /\ HasRun(forced) /\ HandsEmpty(forced)
          /\ (switched \/ DropsAreDue(forced))
          /\ forced.items = rec.items /\ forced.dropped = rec.dropped
        <3>1. /\ forced \in QueueType
              /\ forced.items = rec.items /\ forced.dropped = rec.dropped
              /\ forced.batch = rec.batch /\ forced.summary = rec.summary
              /\ forced.dropPolicy = rec.dropPolicy /\ forced.lastRun = rec.lastRun
            BY <1>2 DEF QueueType
        <3> HIDE DEF forced
        <3>2. QED
            BY <1>2, <3>1 DEF Tidy, HasRun, Pending, HandsEmpty, DropsAreDue
    <2> HIDE DEF forced
    <2>2. QED
        BY <1>3, <1>6, <1>7, <2>1
<1>8. CASE rec.mode = "collect" /\ ~(rec.force \/ HasCrossChannelItems(rec.items))
    <2>1. RunAll(q, rec)
        BY <1>3, <1>8
    <2>2. CASE rec.items = <<>> /\ ~rec.lastRun
        <3>1. Finally(q, rec)
            BY <2>1, <2>2 DEF RunAll
        <3>2. QED
            BY <1>1, <1>2, <1>5, <3>1, FinallyFacts
    <2>3. CASE ~(rec.items = <<>> /\ ~rec.lastRun)
        <3> DEFINE n == Len(rec.items)
                   due == SummaryDue(rec)
                   H == HandOver(rec, n, due)
        <3>1. queue' = [queue EXCEPT ![q] = H] /\ current' = current
            BY <2>1, <2>3 DEF RunAll
        <3>2. n \in 0..Len(rec.items) /\ due \in BOOLEAN
            BY <1>4 DEF SummaryDue
        <3>3. switched \/ n > 0 \/ (due /\ rec.dropped # {})
            BY <1>2, <1>4, <2>3 DEF WaitsForWork, Pending, SummaryDue, DropsAreDue
        <3> HIDE DEF n, due
        <3>4. H \in QueueType /\ H.at = "running" /\ Held(H) = Held(rec)
            BY <1>2, <3>2, HandOverFacts
        <3>5. ObjectInv(H, switched)
            BY <1>2, <1>8, <3>2, <3>3, HandOverKeepsObject
        <3> HIDE DEF H
        <3>6. QED
            BY <1>1, <3>1, <3>4, <3>5, ReplacedFacts
    <2>4. QED
        BY <2>2, <2>3
<1>9. CASE rec.mode # "collect" /\ SummaryDue(rec)
    <2>1. RunSummary(q, rec)
        BY <1>3, <1>9
    <2>2. CASE rec.lastRun
        <3> DEFINE H == HandOver(rec, 0, TRUE)
        <3>1. queue' = [queue EXCEPT ![q] = H] /\ current' = current
            BY <2>1, <2>2 DEF RunSummary
        <3>2. 0 \in 0..Len(rec.items) /\ rec.dropped # {}
            BY <1>4, <1>9 DEF SummaryDue
        <3>3. H \in QueueType /\ H.at = "running" /\ Held(H) = Held(rec)
            BY <1>2, <3>2, HandOverFacts
        <3>4. ObjectInv(H, switched)
            <4>1. 0 <= 1 /\ TRUE \in BOOLEAN
                OBVIOUS
            <4>2. QED
                BY <4>1, <1>2, <3>2, HandOverKeepsObject
        <3> HIDE DEF H
        <3>5. QED
            BY <1>1, <3>1, <3>3, <3>4, ReplacedFacts
    <2>3. rec.lastRun
        BY <1>2, <1>9 DEF HasRun, Pending, SummaryDue
    <2>4. QED
        BY <2>2, <2>3
<1>10. CASE rec.mode # "collect" /\ ~SummaryDue(rec)
    BY <1>2, <1>3, <1>6, <1>10
<1>11. QED
    BY <1>7, <1>8, <1>9, <1>10

\* No message changes its outcome when the loop takes it.
LEMMA DebouncedKeepsInv ==
    ASSUME QueueInv, NEW q \in Queues, Debounced(q)
    PROVE  QueueInv'
<1>1. LoopMayRun(q)
    BY DrainingMayRun DEF Debounced, Draining
<1>2. LoopLeaves(q, Held(queue[q]))
    BY DebouncedLeaves
<1>3. outcome' = outcome /\ outcome \in [Messages -> Outcomes]
    BY DEF Debounced, QueueInv, TypeOK
<1>4. outcome' = [m \in Messages |->
          IF m \in Held(queue[q]) \ Held(queue[q]) THEN "handled" ELSE outcome[m]]
    BY <1>3
<1>5. QED
    BY <1>1, <1>2, <1>4, LoopKeepsInv

\* The end of a turn starts the loop of the object under the key.
LEMMA ScheduleKeepsInv ==
    ASSUME QueueInv, ScheduleDrain
    PROVE  QueueInv'
<1>1. current \in 1..created /\ created \in 0..MaxQueues
    BY DEF ScheduleDrain, QueueInv, TypeOK
<1>2. current \in Queues
    BY <1>1, QueueAssumption DEF Queues
<1>3. LoopMayRun(current)
    BY <1>1, <1>2 DEF LoopMayRun, QueueInv, ScheduleDrain, history
<1>4. PICK q \in Queues : q = current
    BY <1>2
<1>5. LoopLeaves(q, Range(queue[q].items) \cup queue[q].dropped)
    BY <1>3, <1>4, LoopTopFacts DEF ScheduleDrain
<1>6. Range(queue[q].items) \cup queue[q].dropped = Held(queue[q])
    <2>1. HandsEmpty(queue[q])
        BY <1>4 DEF ScheduleDrain, Draining, QueueInv, ObjectsInv, ObjectInv
    <2>2. QED
        BY <2>1, EmptyFacts DEF HandsEmpty, Held
<1>7. outcome' = outcome /\ outcome \in [Messages -> Outcomes]
    BY DEF ScheduleDrain, QueueInv, TypeOK
<1>8. outcome' = [m \in Messages |->
          IF m \in Held(queue[q]) \ Held(queue[q]) THEN "handled" ELSE outcome[m]]
    BY <1>7
<1>9. LoopMayRun(q)
    BY <1>3, <1>4
<1>10. QED
    BY <1>5, <1>6, <1>8, <1>9, LoopKeepsInv

-----------------------------------------------------------------------------
(* The clear.                                                              *)

\* A clear takes what waits, and leaves what runs.
LEMMA ClearKeepsInv ==
    ASSUME QueueInv, Clear
    PROVE  QueueInv'
<1>1. /\ queue \in [Queues -> QueueType] /\ created \in 0..MaxQueues
      /\ current \in 1..created /\ outcome \in [Messages -> Outcomes]
      /\ overlap \in BOOLEAN /\ switched \in BOOLEAN
    BY DEF Clear, QueueInv, TypeOK
<1>2. PICK c \in Queues : c = current
    BY <1>1, QueueAssumption DEF Queues
<1> DEFINE rec == queue[c]
           R == [rec EXCEPT !.items = <<>>, !.dropped = {}, !.lastRun = FALSE]
<1>3. /\ rec \in QueueType /\ ObjectInv(rec, switched)
    BY <1>1 DEF QueueInv, ObjectsInv
<1>4. /\ created' = created /\ switched' = switched /\ current' = NoQueue
      /\ overlap' = (overlap \/ rec.at # "idle")
      /\ outcome' = [m \in Messages |->
            IF m \in Range(rec.items) \cup rec.dropped THEN "cleared" ELSE outcome[m]]
    BY <1>2 DEF Clear, Draining
<1>5. queue' = [queue EXCEPT ![c] = R]
    BY <1>1, <1>2 DEF Clear
<1> HIDE DEF rec
<1>6. /\ R \in QueueType /\ R.items = <<>> /\ R.dropped = {} /\ ~R.lastRun
      /\ R.at = rec.at /\ R.batch = rec.batch /\ R.summary = rec.summary
      /\ R.dropPolicy = rec.dropPolicy
    BY <1>3, EmptyFacts DEF QueueType
<1> HIDE DEF R
<1>7. ObjectInv(R, switched)
    <2>1. Tidy(R)
        BY <1>3, <1>6, EmptyFacts DEF ObjectInv, Tidy
    <2>2. /\ HasRun(R) /\ WaitsForWork(R) /\ (R.at # "running" => HandsEmpty(R))
          /\ BatchHasOneDestination(R)
        BY <1>3, <1>6
           DEF ObjectInv, HasRun, Pending, WaitsForWork, HandsEmpty, BatchHasOneDestination
    <2>3. switched \/ PromptHasWork(R)
        BY <1>3, <1>6 DEF ObjectInv, PromptHasWork
    <2>4. QED
        BY <2>1, <2>2, <2>3 DEF ObjectInv
<1>8. /\ Held(R) = Range(rec.batch) \cup rec.summary
      /\ Held(rec) \ Held(R) = Range(rec.items) \cup rec.dropped
      /\ Held(R) \subseteq Held(rec)
    BY <1>3, <1>6, EmptyFacts DEF Held, ObjectInv, Tidy
<1>9. /\ queue' \in [Queues -> QueueType] /\ queue'[c] = R
      /\ \A p \in Queues \ {c} : queue'[p] = queue[p]
    BY <1>1, <1>5, <1>6
<1>10. TypeOK'
    <2>1. outcome' \in [Messages -> Outcomes]
        BY <1>1, <1>4 DEF Outcomes
    <2>2. QED
        BY <1>1, <1>4, <1>9, <2>1 DEF TypeOK
<1>11. ObjectsInv'
    <2>1. \A p \in Queues : ObjectInv(queue'[p], switched)
        BY <1>7, <1>9 DEF QueueInv, ObjectsInv
    <2>2. QED
        BY <2>1, <1>4 DEF ObjectsInv
<1>12. NoneBeforeCreation'
    <2>1. ~(c > created)
        BY <1>1, <1>2
    <2>2. QED
        BY <2>1, <1>4, <1>9 DEF QueueInv, NoneBeforeCreation
<1>13. WorkIsUnderKey'
    <2>1. ~Pending(R)
        BY <1>6 DEF Pending
    <2>2. QED
        BY <1>2, <1>4, <1>6, <1>9, <2>1 DEF QueueInv, WorkIsUnderKey, Draining, rec
<1>14. NoLeftover'
    BY <1>4 DEF NoLeftover
<1>15. OneHolder' /\ PendingIsHeld'
    <2>1. \A m \in Messages : m \in Held(rec) => outcome[m] = "pending"
        BY DEF QueueInv, PendingIsHeld, rec
    <2>2. \A m \in Messages : outcome'[m] = "pending" <=>
              (m \in Held(R) \/ (outcome[m] = "pending" /\ m \notin Held(rec)))
        BY <1>4, <1>8, <2>1
    <2>3. \A p \in Queues \ {c} : Held(queue'[p]) = Held(queue[p])
        BY <1>9
    <2>4. QED
        BY <1>8, <1>9, <2>2, <2>3, HoldersFacts DEF QueueInv, rec
<1>16. DuplicateHasTwin'
    <2>1. \A m \in Messages : outcome'[m] = "duplicate" => outcome[m] = "duplicate"
        BY <1>4
    <2>2. \A m \in Messages : outcome[m] \in Accounted => outcome'[m] \in Accounted
        BY <1>4 DEF Accounted, Outcomes
    <2>3. QED
        BY <1>10, <2>1, <2>2, TwinsStay DEF QueueInv, TypeOK
<1>17. QED
    BY <1>10, <1>11, <1>12, <1>13, <1>14, <1>15, <1>16 DEF QueueInv

-----------------------------------------------------------------------------
(* The enqueue.                                                            *)

\* A new object is empty and idle; new settings leave the messages alone.
LEMMA SettingsFacts ==
    ASSUME NEW s \in Settings, NEW rec \in QueueType, NEW sw \in BOOLEAN
    PROVE  /\ NewQueue(s) \in QueueType /\ ObjectInv(NewQueue(s), sw)
           /\ NewQueue(s).items = <<>> /\ Held(NewQueue(s)) = {}
           /\ NewQueue(s).at = "idle" /\ NewQueue(s).dropped = {}
           /\ Configured(rec, s) \in QueueType
           /\ ObjectInv(rec, sw) =>
                 ObjectInv(Configured(rec, s), sw \/ ~DropsAreDue(Configured(rec, s)))
           /\ Held(Configured(rec, s)) = Held(rec)
           /\ Configured(rec, s).at = rec.at
           /\ Configured(rec, s).dropped = rec.dropped
           /\ Pending(Configured(rec, s)) <=> Pending(rec)
<1> DEFINE N == NewQueue(s)
           C == Configured(rec, s)
<1>1. /\ s.mode \in Modes /\ s.dropPolicy \in DropPolicies /\ s.cap \in Nat
      /\ ResolvedCap(s.cap) \in Nat \ {0}
    BY QueueAssumption DEF ResolvedCap
<1>2. /\ <<>> \in Seq(Messages) /\ IsInjective(<<>>) /\ Range(<<>>) = {}
    BY EmptyFacts
<1>3. /\ N \in QueueType /\ N.items = <<>> /\ N.batch = <<>> /\ N.dropped = {}
      /\ N.summary = {} /\ N.at = "idle"
    BY <1>1, <1>2 DEF NewQueue, QueueType
<1>4. /\ C \in QueueType /\ C.items = rec.items /\ C.batch = rec.batch
      /\ C.dropped = rec.dropped /\ C.summary = rec.summary /\ C.at = rec.at
      /\ C.lastRun = rec.lastRun
    BY <1>1 DEF Configured, QueueType
<1> HIDE DEF N, C
<1>5. ObjectInv(N, sw) /\ Held(N) = {}
    <2>1. Tidy(N) /\ Held(N) = {}
        BY <1>2, <1>3 DEF Tidy, Held
    <2>2. HasRun(N) /\ HandsEmpty(N) /\ BatchHasOneDestination(N) /\ WaitsForWork(N) /\ PromptHasWork(N)
        BY <1>2, <1>3 DEF HasRun, Pending, HandsEmpty, BatchHasOneDestination,
                          WaitsForWork, PromptHasWork
    <2>3. QED
        BY <2>1, <2>2 DEF ObjectInv
<1>6. Held(C) = Held(rec) /\ (Pending(C) <=> Pending(rec))
    BY <1>4 DEF Held, Pending
<1>7. ASSUME ObjectInv(rec, sw) PROVE ObjectInv(C, sw \/ ~DropsAreDue(C))
    <2>1. Tidy(C) /\ HasRun(C) /\ (C.at # "running" => HandsEmpty(C))
        BY <1>4, <1>7 DEF ObjectInv, Tidy, HasRun, Pending, HandsEmpty
    <2>2. BatchHasOneDestination(C) /\ WaitsForWork(C)
        BY <1>4, <1>7 DEF ObjectInv, BatchHasOneDestination, WaitsForWork, Pending
    <2>3. sw \/ ~DropsAreDue(C) \/ PromptHasWork(C)
        BY <1>4, <1>7 DEF ObjectInv, PromptHasWork, DropsAreDue
    <2>4. QED
        BY <2>1, <2>2, <2>3 DEF ObjectInv
<1>8. QED
    BY <1>3, <1>4, <1>5, <1>6, <1>7 DEF N, C

\* The overflow is what has to go for one more message to fit.
LEMMA OverflowFacts ==
    ASSUME NEW rec \in QueueType
    PROVE  /\ Overflow(rec) \in 0..Len(rec.items)
           /\ Overflow(rec) > 0 => rec.items # <<>>
           /\ Len(rec.items) - Overflow(rec) + 1 <= rec.cap
<1>1. /\ rec.items \in Seq(Messages) /\ Len(rec.items) \in Nat
      /\ rec.items = <<>> <=> Len(rec.items) = 0
      /\ rec.cap \in Nat \ {0}
    BY EmptyFacts DEF QueueType
<1>2. QED
    BY <1>1 DEF Overflow

\* An accepted message joins the others; what it displaces stays for the
\* summary, or goes.
LEMMA AcceptedFacts ==
    ASSUME NEW rec \in QueueType, Tidy(rec), NEW m \in Messages, m \notin Held(rec)
    PROVE  /\ Accepted(rec, m) \in QueueType /\ Tidy(Accepted(rec, m))
           /\ Len(Accepted(rec, m).items) <= rec.cap
           /\ Accepted(rec, m).items # <<>> /\ Accepted(rec, m).lastRun
           /\ Accepted(rec, m).at = rec.at /\ Accepted(rec, m).cap = rec.cap
           /\ Accepted(rec, m).batch = rec.batch /\ Accepted(rec, m).summary = rec.summary
           /\ Accepted(rec, m).dropPolicy = rec.dropPolicy
           /\ rec.dropPolicy # "summarize" => Accepted(rec, m).dropped = rec.dropped
           /\ Evicted(rec) \subseteq Held(rec)
           /\ Held(Accepted(rec, m)) =
                 (IF rec.dropPolicy = "summarize" THEN Held(rec) ELSE Held(rec) \ Evicted(rec))
                 \cup {m}
<1> DEFINE n == Overflow(rec)
           head == SubSeq(rec.items, 1, n)
           rest == SubSeq(rec.items, n + 1, Len(rec.items))
           A == Accepted(rec, m)
<1>1. /\ rec.items \in Seq(Messages) /\ rec.dropped \subseteq Messages /\ rec.cap \in Nat
      /\ Len(rec.items) \in Nat /\ DOMAIN rec.items = 1..Len(rec.items)
      /\ IsInjective(rec.items)
    BY LenProperties DEF QueueType, Tidy
<1>2. n \in 0..Len(rec.items) /\ Len(rec.items) - n + 1 <= rec.cap
    BY OverflowFacts
<1> HIDE DEF n
<1>3. /\ rest \in Seq(Messages) /\ Len(rest) = Len(rec.items) - n
      /\ IsInjective(rest)
      /\ Range(head) = {rec.items[i] : i \in 1..n}
      /\ Range(head) \cap Range(rest) = {}
      /\ Range(head) \cup Range(rest) = Range(rec.items)
    <2>1. /\ rest \in Seq(Messages) /\ Len(rest) = Len(rec.items) - n
          /\ IsInjective(rest)
        BY <1>1, <1>2, SplitFacts
    <2>2. Range(head) = {rec.items[i] : i \in 1..n}
        BY <1>1, <1>2, SplitFacts
    <2>3. /\ Range(head) \cap Range(rest) = {}
          /\ Range(head) \cup Range(rest) = Range(rec.items)
        BY <1>1, <1>2, SplitFacts
    <2> HIDE DEF head, rest
    <2>4. QED
        BY <2>1, <2>2, <2>3
<1>4. Evicted(rec) = Range(head)
    <2>1. DOMAIN rec.items \cap 1..n = 1..n
        BY <1>1, <1>2
    <2>2. QED
        BY <1>3, <2>1 DEF Evicted, n
<1> HIDE DEF head, rest
<1>5. m \notin Range(rest) /\ m \notin Range(rec.items)
    BY <1>3 DEF Held
<1>6. /\ Append(rest, m) \in Seq(Messages) /\ Append(rest, m) # <<>>
      /\ Len(Append(rest, m)) = Len(rest) + 1
      /\ IsInjective(Append(rest, m))
      /\ Range(Append(rest, m)) = Range(rest) \cup {m}
    BY <1>3, <1>5, AppendFacts
<1>7. A = [rec EXCEPT !.items = Append(rest, m),
                      !.dropped = IF rec.dropPolicy = "summarize" THEN @ \cup Evicted(rec) ELSE @,
                      !.lastRun = TRUE]
    BY DEF Accepted, rest, n
<1>8. /\ A.items = Append(rest, m) /\ A.lastRun
      /\ A.dropped = IF rec.dropPolicy = "summarize" THEN rec.dropped \cup Evicted(rec)
                     ELSE rec.dropped
      /\ A.at = rec.at /\ A.batch = rec.batch /\ A.summary = rec.summary
      /\ A.cap = rec.cap /\ A.dropPolicy = rec.dropPolicy
    BY <1>7 DEF QueueType
<1>9. Evicted(rec) \subseteq Messages /\ Evicted(rec) \subseteq Range(rec.items)
    <2>1. Range(rec.items) \subseteq Messages
        BY <1>1, RangeOfSeq
    <2>2. QED
        BY <2>1, <1>3, <1>4
<1>10. A \in QueueType
    BY <1>1, <1>6, <1>7, <1>9 DEF QueueType
<1> HIDE DEF A
<1>11. Tidy(A)
    <2>1. /\ m \notin Range(rec.batch) /\ m \notin rec.dropped /\ m \notin rec.summary
        BY DEF Held
    <2>2. /\ Range(A.items) \subseteq Range(rec.items) \cup {m}
          /\ Range(A.items) \cap Evicted(rec) = {}
          /\ A.dropped \subseteq rec.dropped \cup Evicted(rec)
        BY <1>3, <1>4, <1>5, <1>6, <1>8
    <2>3. IsInjective(A.items) /\ IsInjective(A.batch)
        BY <1>6, <1>8 DEF Tidy
    <2>4. A.batch = rec.batch /\ A.summary = rec.summary
        BY <1>8
    <2>5. Evicted(rec) \subseteq Range(rec.items)
        BY <1>9
    <2>6. Tidy(rec)
        OBVIOUS
    <2>7. QED
        BY <2>1, <2>2, <2>3, <2>4, <2>5, <2>6 DEF Tidy
<1>12. Held(A) = (IF rec.dropPolicy = "summarize" THEN Held(rec) ELSE Held(rec) \ Evicted(rec))
                 \cup {m}
    BY <1>3, <1>4, <1>6, <1>8 DEF Held, Tidy
<1>13. Len(A.items) <= rec.cap
    BY <1>1, <1>2, <1>3, <1>6, <1>8
<1>14. Evicted(rec) \subseteq Held(rec)
    BY <1>9 DEF Held
<1>15. QED
    BY <1>6, <1>8, <1>10, <1>11, <1>12, <1>13, <1>14 DEF A

\* The three things that may become of a message that is offered to an object,
\* and what they mean for those that are in it.
LEMMA OfferedFacts ==
    ASSUME NEW rec \in QueueType, NEW sw \in BOOLEAN, ObjectInv(rec, sw),
           sw \/ DropsAreDue(rec), outcome \in [Messages -> Outcomes],
           NEW m \in Messages, m \notin Held(rec), outcome[m] = "new",
           \A n \in Messages : n \in Held(rec) => outcome[n] = "pending"
    PROVE  /\ Offered(rec, m) \in QueueType /\ ObjectInv(Offered(rec, m), sw)
           /\ Offered(rec, m).at = rec.at
           /\ Pending(rec) \/ rec.items = <<>> => Pending(Offered(rec, m))
           /\ \A n \in Held(Offered(rec, m)) : n \in Held(rec) \/ n = m
           /\ Judged(rec, m) \in [Messages -> Outcomes]
           /\ \A n \in Messages : Judged(rec, m)[n] = "pending" <=>
                 (n \in Held(Offered(rec, m)) \/ (outcome[n] = "pending" /\ n \notin Held(rec)))
           /\ \A n \in Messages : Judged(rec, m)[n] = "duplicate" =>
                 outcome[n] = "duplicate" \/ (n = m /\ Duplicate(rec, m))
           /\ \A n \in Messages : outcome[n] \in Accounted => Judged(rec, m)[n] \in Accounted
           /\ \A n \in Messages : (outcome[n] = "new" /\ Judged(rec, m)[n] = "pending") =>
                 Len(Offered(rec, m).items) <= Offered(rec, m).cap
<1> DEFINE O == Offered(rec, m)
           J == Judged(rec, m)
<1>1. J \in [Messages -> Outcomes]
    BY DEF Judged, Outcomes
<1>2. \A n \in Messages :
          J[n] = IF n = m THEN IF Duplicate(rec, m) THEN "duplicate"
                               ELSE IF Refused(rec) THEN "rejected" ELSE "pending"
                 ELSE IF /\ ~Duplicate(rec, m) /\ ~Refused(rec)
                         /\ n \in Evicted(rec) /\ rec.dropPolicy # "summarize"
                 THEN "dropped" ELSE outcome[n]
    BY DEF Judged
<1>3. O = IF Duplicate(rec, m) THEN rec
          ELSE IF Refused(rec) THEN [rec EXCEPT !.lastRun = TRUE] ELSE Accepted(rec, m)
    BY DEF Offered
<1> HIDE DEF O, J
<1>4. \A n \in Messages : J[n] = "duplicate" =>
          outcome[n] = "duplicate" \/ (n = m /\ Duplicate(rec, m))
    BY <1>2
<1>5. \A n \in Messages : outcome[n] \in Accounted => J[n] \in Accounted
    BY <1>2 DEF Accounted, Outcomes
<1>6. Duplicate(rec, m) => rec.items # <<>>
    BY EmptyFacts DEF Duplicate, QueueType
<1>7. Refused(rec) => rec.items # <<>>
    BY OverflowFacts DEF Refused
<1>8. CASE Duplicate(rec, m)
    <2>1. O = rec
        BY <1>3, <1>8
    <2>2. \A n \in Messages : J[n] = "pending" <=> n # m /\ outcome[n] = "pending"
        BY <1>2, <1>8
    <2>3. \A n \in Messages : J[n] = "pending" <=>
              (n \in Held(O) \/ (outcome[n] = "pending" /\ n \notin Held(rec)))
        BY <2>1, <2>2
    <2>4. Pending(rec) \/ rec.items = <<>> => Pending(O)
        BY <1>6, <1>8, <2>1
    <2>5. \A n \in Messages : outcome[n] = "new" => J[n] # "pending"
        BY <2>2
    <2>6. QED
        BY <1>1, <1>4, <1>5, <2>1, <2>3, <2>4, <2>5 DEF O, J
<1>9. CASE ~Duplicate(rec, m) /\ Refused(rec)
    <2>1. O = [rec EXCEPT !.lastRun = TRUE]
        BY <1>3, <1>9
    <2>2. /\ O \in QueueType /\ O.items = rec.items /\ O.batch = rec.batch /\ O.at = rec.at
          /\ O.dropped = rec.dropped /\ O.summary = rec.summary /\ O.lastRun
          /\ O.dropPolicy = rec.dropPolicy
        BY <2>1 DEF QueueType
    <2>3. Held(O) = Held(rec) /\ Tidy(O) /\ Pending(O)
        BY <1>7, <1>9, <2>2 DEF Held, Tidy, ObjectInv, Pending
    <2>4. HasRun(O) /\ WaitsForWork(O) /\ (O.at # "running" => HandsEmpty(O))
        BY <2>2, <2>3 DEF ObjectInv, HasRun, WaitsForWork, HandsEmpty
    <2>5. BatchHasOneDestination(O) /\ (sw \/ PromptHasWork(O))
        BY <2>2 DEF ObjectInv, BatchHasOneDestination, PromptHasWork
    <2>6. ObjectInv(O, sw)
        BY <2>3, <2>4, <2>5 DEF ObjectInv
    <2>7. \A n \in Messages : J[n] = "pending" <=> n # m /\ outcome[n] = "pending"
        BY <1>2, <1>9
    <2>8. \A n \in Messages : J[n] = "pending" <=>
              (n \in Held(O) \/ (outcome[n] = "pending" /\ n \notin Held(rec)))
        BY <2>3, <2>7
    <2>9. \A n \in Messages : outcome[n] = "new" => J[n] # "pending"
        BY <2>7
    <2>10. QED
        BY <1>1, <1>4, <1>5, <2>2, <2>3, <2>6, <2>8, <2>9 DEF O, J
<1>10. CASE ~Duplicate(rec, m) /\ ~Refused(rec)
    <2>1. O = Accepted(rec, m)
        BY <1>3, <1>10
    <2>2. /\ O \in QueueType /\ Tidy(O) /\ Len(O.items) <= O.cap
          /\ O.items # <<>> /\ O.lastRun /\ O.at = rec.at
          /\ O.batch = rec.batch /\ O.summary = rec.summary
          /\ O.dropPolicy = rec.dropPolicy
          /\ rec.dropPolicy # "summarize" => O.dropped = rec.dropped
          /\ Evicted(rec) \subseteq Held(rec)
        BY <2>1, AcceptedFacts DEF ObjectInv
    <2>3. Held(O) = (IF rec.dropPolicy = "summarize" THEN Held(rec) ELSE Held(rec) \ Evicted(rec))
                    \cup {m}
        BY <2>1, AcceptedFacts DEF ObjectInv
    <2>4. Pending(O) /\ HasRun(O) /\ WaitsForWork(O) /\ (O.at # "running" => HandsEmpty(O))
        BY <2>2 DEF ObjectInv, Pending, HasRun, WaitsForWork, HandsEmpty
    <2>5. BatchHasOneDestination(O) /\ (sw \/ PromptHasWork(O))
        BY <2>2 DEF ObjectInv, BatchHasOneDestination, PromptHasWork, DropsAreDue
    <2>6. ObjectInv(O, sw)
        BY <2>2, <2>4, <2>5 DEF ObjectInv
    <2>7. ASSUME NEW n \in Messages
          PROVE  J[n] = "pending" <=>
                     (n \in Held(O) \/ (outcome[n] = "pending" /\ n \notin Held(rec)))
        <3>1. CASE n = m
            BY <1>2, <1>10, <2>3, <3>1
        <3>2. CASE n # m /\ rec.dropPolicy = "summarize"
            BY <1>2, <1>10, <2>3, <3>2
        <3>3. CASE n # m /\ rec.dropPolicy # "summarize" /\ n \in Evicted(rec)
            BY <1>2, <1>10, <2>2, <2>3, <3>3
        <3>4. CASE n # m /\ rec.dropPolicy # "summarize" /\ n \notin Evicted(rec)
            BY <1>2, <1>10, <2>3, <3>4
        <3>5. QED
            BY <3>1, <3>2, <3>3, <3>4
    <2>8. \A n \in Held(O) : n \in Held(rec) \/ n = m
        BY <2>3
    <2>9. QED
        BY <1>1, <1>4, <1>5, <2>2, <2>4, <2>6, <2>7, <2>8 DEF O, J
<1>11. QED
    BY <1>8, <1>9, <1>10

\* What an enqueue does: the object it offers the message to, and the settings
\* that it has by then.
LEMMA EnqueueFacts ==
    ASSUME QueueInv, NEW m \in Messages, NEW s \in Settings, Enqueue(m, s)
    PROVE  \E q \in Queues, rec \in QueueType :
              /\ q \in 1..created' /\ created' \in 0..MaxQueues /\ created <= created'
              /\ current' = q /\ (current = NoQueue \/ current = q)
              /\ queue' = [queue EXCEPT ![q] = Offered(rec, m)]
              /\ outcome' = Judged(rec, m) /\ outcome[m] = "new"
              /\ overlap' = overlap
              /\ switched' \in BOOLEAN /\ (switched => switched') /\ (switched' \/ DropsAreDue(rec))
              /\ ObjectInv(rec, switched') /\ Held(rec) = Held(queue[q])
              /\ rec.at = queue[q].at /\ (Pending(rec) <=> Pending(queue[q]))
              /\ current = NoQueue => rec.items = <<>>
<1>1. /\ queue \in [Queues -> QueueType] /\ created \in 0..MaxQueues /\ switched \in BOOLEAN
      /\ current \in {NoQueue} \cup 1..created
    BY DEF QueueInv, TypeOK
<1>2. outcome[m] = "new" /\ overlap' = overlap
    BY DEF Enqueue
<1>3. CASE current = NoQueue
    <2> DEFINE q == created + 1
               rec == NewQueue(s)
    <2>1. /\ created < MaxQueues /\ current' = q /\ created' = q
          /\ queue' = [queue EXCEPT ![q] = Offered(rec, m)] /\ outcome' = Judged(rec, m)
          /\ switched' = (switched \/ (rec.dropped # {} /\ rec.dropPolicy # "summarize"))
        BY <1>3 DEF Enqueue
    <2>2. q \in Queues /\ q \in 1..q /\ q \in 0..MaxQueues /\ created <= q /\ q > created
        BY <1>1, <2>1, QueueAssumption DEF Queues
    <2>3. /\ rec \in QueueType /\ ObjectInv(rec, switched) /\ rec.items = <<>>
          /\ Held(rec) = {} /\ rec.at = "idle" /\ rec.dropped = {}
        <3>1. queue[q] \in QueueType
            BY <1>1, <2>2
        <3>2. NewQueue(s) \in QueueType /\ ObjectInv(NewQueue(s), switched)
            BY <1>1, <3>1, SettingsFacts
        <3>3. /\ NewQueue(s).items = <<>> /\ Held(NewQueue(s)) = {}
              /\ NewQueue(s).at = "idle" /\ NewQueue(s).dropped = {}
            BY <1>1, <3>1, SettingsFacts
        <3>4. QED
            BY <3>2, <3>3
    <2>4. queue[q].at = "idle" /\ ~Pending(queue[q]) /\ HandsEmpty(queue[q])
        BY <2>2 DEF QueueInv, NoneBeforeCreation, ObjectsInv, ObjectInv
    <2>5. Held(queue[q]) = {}
        BY <2>4, EmptyFacts DEF Held, HandsEmpty, Pending
    <2> HIDE DEF q, rec
    <2>6. switched' = switched /\ DropsAreDue(rec) /\ ~Pending(rec)
        BY <1>1, <2>1, <2>3 DEF DropsAreDue, Pending
    <2>7. QED
        BY <1>1, <1>2, <1>3, <2>1, <2>2, <2>3, <2>4, <2>5, <2>6
<1>4. CASE current # NoQueue
    <2> DEFINE q == current
               rec == Configured(queue[q], s)
    <2>1. /\ current' = q /\ created' = created
          /\ queue' = [queue EXCEPT ![q] = Offered(rec, m)] /\ outcome' = Judged(rec, m)
          /\ switched' = (switched \/ (rec.dropped # {} /\ rec.dropPolicy # "summarize"))
        BY <1>4 DEF Enqueue
    <2>2. q \in Queues /\ q \in 1..created
        BY <1>1, <1>4, QueueAssumption DEF Queues
    <2>3. queue[q] \in QueueType /\ ObjectInv(queue[q], switched)
        BY <1>1, <2>2 DEF QueueInv, ObjectsInv
    <2>4. /\ rec \in QueueType /\ ObjectInv(rec, switched \/ ~DropsAreDue(rec))
          /\ Held(rec) = Held(queue[q]) /\ rec.at = queue[q].at
          /\ Pending(rec) <=> Pending(queue[q])
        BY <1>1, <2>3, SettingsFacts
    <2>5. switched' <=> (switched \/ ~DropsAreDue(rec))
        BY <2>1 DEF DropsAreDue
    <2>6. switched' = (switched \/ ~DropsAreDue(rec)) /\ switched' \in BOOLEAN
        BY <1>1, <2>1 DEF DropsAreDue
    <2>7. PICK r \in QueueType : r = rec
        BY <2>4
    <2>8. ObjectInv(r, switched')
        BY <2>4, <2>6, <2>7
    <2> HIDE DEF rec
    <2>9. PICK k \in Queues : k = current
        BY <2>2
    <2>10. /\ k \in 1..created' /\ created' \in 0..MaxQueues /\ created <= created'
           /\ current' = k /\ (current = NoQueue \/ current = k)
        BY <1>1, <2>1, <2>2, <2>9
    <2>11. queue' = [queue EXCEPT ![k] = Offered(r, m)] /\ outcome' = Judged(r, m)
        BY <2>1, <2>7, <2>9
    <2>12. /\ switched => switched'
           /\ switched' \/ DropsAreDue(r)
        BY <2>5, <2>7
    <2>13. /\ Held(r) = Held(queue[k]) /\ r.at = queue[k].at
           /\ Pending(r) <=> Pending(queue[k])
        BY <2>4, <2>7, <2>9
    <2>14. QED
        BY <1>2, <1>4, <2>6, <2>8, <2>10, <2>11, <2>12, <2>13
<1>5. QED
    BY <1>3, <1>4

\* An enqueue keeps the invariant, whatever settings the message comes with.
LEMMA EnqueueKeepsInv ==
    ASSUME QueueInv, NEW m \in Messages, NEW s \in Settings, Enqueue(m, s)
    PROVE  QueueInv'
<1>1. PICK q \in Queues, rec \in QueueType :
          /\ q \in 1..created' /\ created' \in 0..MaxQueues /\ created <= created'
          /\ current' = q /\ (current = NoQueue \/ current = q)
          /\ queue' = [queue EXCEPT ![q] = Offered(rec, m)]
          /\ outcome' = Judged(rec, m) /\ outcome[m] = "new"
          /\ overlap' = overlap
          /\ switched' \in BOOLEAN /\ (switched => switched') /\ (switched' \/ DropsAreDue(rec))
          /\ ObjectInv(rec, switched') /\ Held(rec) = Held(queue[q])
          /\ rec.at = queue[q].at /\ (Pending(rec) <=> Pending(queue[q]))
          /\ current = NoQueue => rec.items = <<>>
    BY EnqueueFacts
<1>2. /\ queue \in [Queues -> QueueType] /\ outcome \in [Messages -> Outcomes]
      /\ overlap \in BOOLEAN /\ created \in Nat
    BY QueueAssumption DEF QueueInv, TypeOK
<1>3. \A n \in Messages : n \in Held(rec) => outcome[n] = "pending"
    BY <1>1 DEF QueueInv, PendingIsHeld
<1>4. m \notin Held(rec)
    BY <1>1, <1>3
<1> DEFINE O == Offered(rec, m)
<1>5. PICK sw \in BOOLEAN : sw = switched'
    BY <1>1
<1>6. /\ O \in QueueType /\ ObjectInv(O, sw)
      /\ O.at = rec.at
      /\ Pending(rec) \/ rec.items = <<>> => Pending(O)
    BY <1>1, <1>2, <1>3, <1>4, <1>5, OfferedFacts
<1>7. /\ outcome' \in [Messages -> Outcomes]
      /\ \A n \in Held(O) : n \in Held(rec) \/ n = m
      /\ \A n \in Messages : outcome'[n] = "pending" <=>
            (n \in Held(O) \/ (outcome[n] = "pending" /\ n \notin Held(rec)))
    BY <1>1, <1>2, <1>3, <1>4, <1>5, OfferedFacts
<1>8. /\ \A n \in Messages : outcome'[n] = "duplicate" =>
            outcome[n] = "duplicate" \/ (n = m /\ Duplicate(rec, m))
      /\ \A n \in Messages : outcome[n] \in Accounted => outcome'[n] \in Accounted
    BY <1>1, <1>2, <1>3, <1>4, <1>5, OfferedFacts
<1> HIDE DEF O
<1>9. /\ queue' \in [Queues -> QueueType] /\ queue'[q] = O
      /\ \A p \in Queues \ {q} : queue'[p] = queue[p]
    BY <1>1, <1>2, <1>6 DEF O
<1>10. TypeOK'
    BY <1>1, <1>2, <1>7, <1>9 DEF TypeOK
<1>11. ObjectsInv'
    <2>1. \A p \in Queues : ObjectInv(queue[p], switched)
        BY DEF QueueInv, ObjectsInv
    <2>2. \A p \in Queues : ObjectInv(queue[p], switched')
        BY <1>1, <2>1 DEF ObjectInv
    <2>3. \A p \in Queues : ObjectInv(queue'[p], switched')
        BY <1>5, <1>6, <1>9, <2>2
    <2>4. QED
        BY <2>3 DEF ObjectsInv
<1>12. NoneBeforeCreation'
    <2>1. ASSUME NEW p \in Queues, p > created' PROVE p # q /\ p > created
        BY <1>1, <1>2, <2>1 DEF Queues
    <2>2. QED
        BY <2>1, <1>9 DEF QueueInv, NoneBeforeCreation
<1>13. WorkIsUnderKey'
    <2>1. ASSUME ~overlap, NEW p \in Queues, queue'[p].at # "idle" \/ Pending(queue'[p])
          PROVE  p = q
        <3>1. SUFFICES ASSUME p # q PROVE FALSE
            OBVIOUS
        <3>2. p = current
            BY <1>9, <2>1, <3>1 DEF QueueInv, WorkIsUnderKey, Draining
        <3>3. QED
            BY <1>1, <3>1, <3>2, QueueAssumption DEF NoQueue, Queues
    <2>2. QED
        BY <1>1, <2>1 DEF WorkIsUnderKey, Draining
<1>14. NoLeftover'
    <2>1. CASE current = NoQueue
        BY <1>1, <1>6, <1>9, <2>1 DEF NoLeftover
    <2>2. CASE current # NoQueue
        <3>1. current = q
            BY <1>1, <2>2
        <3>2. O.at = "idle" => Pending(O)
            BY <1>1, <1>6, <2>2, <3>1 DEF QueueInv, NoLeftover, Draining
        <3>3. QED
            BY <1>1, <1>9, <3>2 DEF NoLeftover, Draining
    <2>3. QED
        BY <2>1, <2>2
<1>15. OneHolder' /\ PendingIsHeld'
    <2>1. \A p \in Queues \ {q} : Held(queue'[p]) = Held(queue[p])
        BY <1>9
    <2>2. \A n \in Held(queue'[q]) :
              n \in Held(queue[q]) \/ (n \in Messages /\ outcome[n] = "new")
        BY <1>1, <1>7, <1>9
    <2>3. \A n \in Messages : outcome'[n] = "pending" <=>
              (n \in Held(queue'[q]) \/ (outcome[n] = "pending" /\ n \notin Held(queue[q])))
        BY <1>1, <1>7, <1>9
    <2>4. QED
        BY <2>1, <2>2, <2>3, HoldersFacts DEF QueueInv
<1>16. DuplicateHasTwin'
    <2>1. ASSUME Duplicate(rec, m)
          PROVE  \E n \in Messages : /\ Id[n] = Id[m] /\ Route[n] = Route[m]
                                     /\ outcome'[n] \in Accounted
        <3>1. PICK n \in Range(rec.items) : SameMessage(m, n)
            BY <2>1 DEF Duplicate
        <3>2. n \in Messages
            BY EmptyFacts DEF QueueType
        <3>3. outcome[n] = "pending"
            BY <1>3, <3>2 DEF Held
        <3>4. outcome'[n] \in Accounted
            BY <1>8, <3>2, <3>3 DEF Accounted, Outcomes
        <3>5. QED
            BY <3>1, <3>2, <3>4 DEF SameMessage
    <2>2. ASSUME NEW k \in Messages, outcome'[k] = "duplicate"
          PROVE  \E n \in Messages : /\ Id[n] = Id[k] /\ Route[n] = Route[k]
                                     /\ outcome'[n] \in Accounted
        <3>1. CASE k = m /\ Duplicate(rec, m)
            BY <2>1, <3>1
        <3>2. CASE outcome[k] = "duplicate"
            <4>1. PICK n \in Messages : /\ Id[n] = Id[k] /\ Route[n] = Route[k]
                                        /\ outcome[n] \notin {"new", "duplicate", "rejected"}
                BY <3>2 DEF QueueInv, DuplicateHasTwin
            <4>2. outcome[n] \in Accounted
                BY <1>2, <4>1 DEF Accounted
            <4>3. QED
                BY <1>8, <4>1, <4>2
        <3>3. QED
            BY <1>8, <2>2, <3>1, <3>2
    <2>3. QED
        BY <2>2 DEF DuplicateHasTwin, Accounted
<1>17. QED
    BY <1>10, <1>11, <1>12, <1>13, <1>14, <1>15, <1>16 DEF QueueInv

-----------------------------------------------------------------------------
(* The invariant is inductive.                                             *)

\* It holds before any message has come.
LEMMA InitKeepsInv == Init => QueueInv
<1> SUFFICES ASSUME Init PROVE QueueInv
    OBVIOUS
<1>1. PICK s \in Settings : s = CHOOSE x \in Settings : TRUE
    BY QueueAssumption
<1>2. /\ queue = [q \in Queues |-> NewQueue(s)]
      /\ created = 0 /\ current = NoQueue /\ outcome = [m \in Messages |-> "new"]
      /\ overlap = FALSE /\ switched = FALSE
    BY <1>1 DEF Init
<1>3. /\ NewQueue(s) \in QueueType /\ NewQueue(s).items = <<>>
      /\ NewQueue(s).at = "idle" /\ NewQueue(s).dropped = {}
    <2>1. s.mode \in Modes /\ s.dropPolicy \in DropPolicies /\ ResolvedCap(s.cap) \in Nat \ {0}
        BY QueueAssumption DEF ResolvedCap
    <2>2. QED
        BY <2>1, EmptyFacts DEF NewQueue, QueueType
<1>4. ObjectInv(NewQueue(s), FALSE) /\ Held(NewQueue(s)) = {}
    BY <1>3, SettingsFacts
<1> DEFINE N == NewQueue(s)
<1>5. N \in QueueType /\ N.at = "idle" /\ ~Pending(N) /\ ObjectInv(N, FALSE) /\ Held(N) = {}
    BY <1>3, <1>4 DEF Pending
<1> HIDE DEF N
<1>6. \A q \in Queues : queue[q] = N
    BY <1>2 DEF N
<1>7. TypeOK
    <2>1. queue \in [Queues -> QueueType]
        BY <1>2, <1>5 DEF N
    <2>2. outcome \in [Messages -> Outcomes]
        BY <1>2 DEF Outcomes
    <2>3. created \in 0..MaxQueues /\ current \in {NoQueue} \cup 1..created
        BY <1>2, QueueAssumption
    <2>4. QED
        BY <1>2, <2>1, <2>2, <2>3 DEF TypeOK
<1>8. ObjectsInv /\ NoneBeforeCreation /\ WorkIsUnderKey
    BY <1>2, <1>5, <1>6 DEF ObjectsInv, NoneBeforeCreation, WorkIsUnderKey, Draining
<1>9. OneHolder /\ PendingIsHeld
    BY <1>2, <1>5, <1>6 DEF OneHolder, PendingIsHeld
<1>10. NoLeftover /\ DuplicateHasTwin
    BY <1>2 DEF NoLeftover, DuplicateHasTwin
<1>11. QED
    BY <1>7, <1>8, <1>9, <1>10 DEF QueueInv

\* Every step keeps it.
LEMMA QueueInvInductive == QueueInv /\ [Next]_vars => QueueInv'
<1> SUFFICES ASSUME QueueInv, [Next]_vars PROVE QueueInv'
    OBVIOUS
<1>1. ASSUME NEW m \in Messages, NEW s \in Settings, Enqueue(m, s) PROVE QueueInv'
    BY <1>1, EnqueueKeepsInv
<1>2. CASE ScheduleDrain
    BY <1>2, ScheduleKeepsInv
<1>3. CASE Clear
    BY <1>3, ClearKeepsInv
<1>4. ASSUME NEW q \in Queues, Debounced(q) PROVE QueueInv'
    BY <1>4, DebouncedKeepsInv
<1>5. ASSUME NEW q \in Queues, RunEnds(q) \/ RunThrows(q) PROVE QueueInv'
    BY <1>5, RunKeepsInv
<1>6. CASE UNCHANGED vars
    BY <1>6 DEF vars, QueueInv, TypeOK, ObjectsInv, OneHolder, PendingIsHeld, NoneBeforeCreation,
                WorkIsUnderKey, NoLeftover, DuplicateHasTwin, Draining
<1>7. QED
    BY <1>1, <1>2, <1>3, <1>4, <1>5, <1>6 DEF Next, LoopStep

\* The invariant holds throughout.
LEMMA QueueInvariant == Spec => []QueueInv
<1>1. QED
    BY InitKeepsInv, QueueInvInductive, PTL DEF Spec

-----------------------------------------------------------------------------
(* The theorems.                                                           *)

\* Every record keeps its fields and their types, whatever settings the
\* messages come with (state.ts).
THEOREM QueueTypeCorrect == Spec => []TypeOK
<1>1. QueueInv => TypeOK
    BY DEF QueueInv
<1>2. QED
    BY <1>1, QueueInvariant, PTL

\* An injective sequence has a message at one index, or at none.
LEMMA IndexFacts ==
    ASSUME NEW s \in Seq(Messages), IsInjective(s), NEW m
    PROVE  /\ m \notin Range(s) => Indices(s, m) = {}
           /\ m \in Range(s) => \E i : Indices(s, m) = {i}
<1>1. CASE m \notin Range(s)
    BY <1>1 DEF Indices, Range
<1>2. CASE m \in Range(s)
    <2>1. PICK i \in DOMAIN s : s[i] = m
        BY <1>2 DEF Range
    <2>2. \A j \in DOMAIN s : s[j] = m => j = i
        BY <2>1 DEF IsInjective
    <2>3. Indices(s, m) = {i}
        BY <2>1, <2>2 DEF Indices
    <2>4. QED
        BY <1>2, <2>3
<1>3. QED
    BY <1>1, <1>2

\* An object that does not hold a message has no place for it, one that does
\* has one.
LEMMA OnePlacePerObject ==
    ASSUME NEW rec \in QueueType, Tidy(rec), NEW m
    PROVE  /\ m \notin Held(rec) => PlacesIn(rec, m) = {}
           /\ m \in Held(rec) => \E x : PlacesIn(rec, m) = {x}
<1> DEFINE inItems == {"items"} \X Indices(rec.items, m)
           inBatch == {"batch"} \X Indices(rec.batch, m)
           inDropped == {"dropped"} \X ({m} \cap rec.dropped)
           inSummary == {"summary"} \X ({m} \cap rec.summary)
<1>1. PlacesIn(rec, m) = inItems \cup inBatch \cup inDropped \cup inSummary
    BY DEF PlacesIn
<1>2. /\ rec.items \in Seq(Messages) /\ rec.batch \in Seq(Messages)
      /\ IsInjective(rec.items) /\ IsInjective(rec.batch)
    BY DEF QueueType, Tidy
<1>3. /\ m \notin Range(rec.items) => inItems = {}
      /\ m \in Range(rec.items) => \E x : inItems = {x}
    <2>1. ASSUME NEW i, Indices(rec.items, m) = {i} PROVE inItems = {<<"items", i>>}
        BY <2>1
    <2>2. Indices(rec.items, m) = {} => inItems = {}
        OBVIOUS
    <2>3. QED
        BY <1>2, <2>1, <2>2, IndexFacts
<1>4. /\ m \notin Range(rec.batch) => inBatch = {}
      /\ m \in Range(rec.batch) => \E x : inBatch = {x}
    <2>1. ASSUME NEW i, Indices(rec.batch, m) = {i} PROVE inBatch = {<<"batch", i>>}
        BY <2>1
    <2>2. Indices(rec.batch, m) = {} => inBatch = {}
        OBVIOUS
    <2>3. QED
        BY <1>2, <2>1, <2>2, IndexFacts
<1>5. /\ m \notin rec.dropped => inDropped = {}
      /\ m \in rec.dropped => inDropped = {<<"dropped", m>>}
    OBVIOUS
<1>6. /\ m \notin rec.summary => inSummary = {}
      /\ m \in rec.summary => inSummary = {<<"summary", m>>}
    OBVIOUS
<1>7. m \in Held(rec) <=> \/ m \in Range(rec.items) \/ m \in Range(rec.batch)
                          \/ m \in rec.dropped \/ m \in rec.summary
    BY DEF Held
<1>8. /\ ~(m \in Range(rec.items) /\ m \in Range(rec.batch))
      /\ ~(m \in Range(rec.items) /\ (m \in rec.dropped \/ m \in rec.summary))
      /\ ~(m \in Range(rec.batch) /\ (m \in rec.dropped \/ m \in rec.summary))
      /\ ~(m \in rec.dropped /\ m \in rec.summary)
    BY DEF Tidy
<1> HIDE DEF inItems, inBatch, inDropped, inSummary
<1>9. m \notin Held(rec) => PlacesIn(rec, m) = {}
    BY <1>1, <1>3, <1>4, <1>5, <1>6, <1>7
<1>10. CASE m \in Range(rec.items)
    BY <1>1, <1>3, <1>4, <1>5, <1>6, <1>7, <1>8, <1>10
<1>11. CASE m \in Range(rec.batch)
    BY <1>1, <1>3, <1>4, <1>5, <1>6, <1>7, <1>8, <1>11
<1>12. CASE m \in rec.dropped
    BY <1>1, <1>3, <1>4, <1>5, <1>6, <1>7, <1>8, <1>12
<1>13. CASE m \in rec.summary
    BY <1>1, <1>3, <1>4, <1>5, <1>6, <1>7, <1>8, <1>13
<1>14. QED
    BY <1>7, <1>9, <1>10, <1>11, <1>12, <1>13

\* No message is lost or run twice: from its acceptance until its outcome is
\* known it is in one place, whatever is cleared, thrown or detached.
THEOREM MessagesAreConserved == Spec => []Conservation
<1>1. ASSUME QueueInv, NEW m \in Messages
      PROVE  Cardinality(Places(m)) = IF outcome[m] = "pending" THEN 1 ELSE 0
    <2>1. \A q \in Queues : queue[q] \in QueueType /\ Tidy(queue[q])
        BY <1>1 DEF QueueInv, TypeOK, ObjectsInv, ObjectInv
    <2>2. Places(m) = UNION {{q} \X PlacesIn(queue[q], m) : q \in Queues}
        BY DEF Places
    <2>3. CASE outcome[m] = "pending"
        <3>1. PICK q \in Queues : m \in Held(queue[q])
            BY <1>1, <2>3 DEF QueueInv, PendingIsHeld
        <3>2. \A p \in Queues \ {q} : m \notin Held(queue[p])
            BY <1>1, <3>1 DEF QueueInv, OneHolder
        <3>3. PICK x : PlacesIn(queue[q], m) = {x}
            BY <2>1, <3>1, OnePlacePerObject
        <3>4. \A p \in Queues \ {q} : PlacesIn(queue[p], m) = {}
            BY <2>1, <3>2, OnePlacePerObject
        <3>5. Places(m) = {<<q, x>>}
            <4>1. \A p \in Queues : {p} \X PlacesIn(queue[p], m) =
                                        IF p = q THEN {<<q, x>>} ELSE {}
                BY <3>3, <3>4
            <4>2. QED
                BY <2>2, <4>1
        <3>6. QED
            BY <2>3, <3>5, FS_Singleton
    <2>4. CASE outcome[m] # "pending"
        <3>1. \A q \in Queues : m \notin Held(queue[q])
            BY <1>1, <2>4 DEF QueueInv, PendingIsHeld
        <3>2. \A q \in Queues : PlacesIn(queue[q], m) = {}
            BY <2>1, <3>1, OnePlacePerObject
        <3>3. \A q \in Queues : {q} \X PlacesIn(queue[q], m) = {}
            BY <3>2
        <3>4. Places(m) = {}
            BY <2>2, <3>3
        <3>5. QED
            BY <2>4, <3>4, FS_EmptySet
    <2>5. QED
        BY <2>3, <2>4
<1>2. QueueInv => Conservation
    BY <1>1 DEF Conservation
<1>3. QED
    BY <1>2, QueueInvariant, PTL

\* A message is refused as a duplicate only after its twin was accepted.
THEOREM DuplicatesHaveTwins == Spec => []DuplicateHasTwin
<1>1. QueueInv => DuplicateHasTwin
    BY DEF QueueInv
<1>2. QED
    BY <1>1, QueueInvariant, PTL

\* A collected prompt has one destination, although mode and items may have
\* changed since the loop began to wait (drain.ts:40-101).
THEOREM PromptsHaveOneDestination == Spec => []OneDestination
<1>1. QueueInv => OneDestination
    BY DEF QueueInv, ObjectsInv, ObjectInv, BatchHasOneDestination, OneDestination
<1>2. QED
    BY <1>1, QueueInvariant, PTL

\* One loop for the session, no queue with work out of reach, none left empty
\* under the key.
THEOREM LoopsAreKept == Spec => []LoopsKeepTheirQueue
<1>1. ASSUME QueueInv PROVE OneLoop
    <2>1. SUFFICES ASSUME ~overlap PROVE Cardinality({q \in Queues : Draining(q)}) <= 1
        BY DEF OneLoop
    <2> DEFINE D == {q \in Queues : Draining(q)}
    <2>2. D \subseteq {current}
        BY <1>1, <2>1 DEF QueueInv, WorkIsUnderKey
    <2> HIDE DEF D
    <2>3. IsFiniteSet({current}) /\ Cardinality({current}) = 1
        BY FS_Singleton
    <2>4. Cardinality(D) <= Cardinality({current})
        BY <2>2, <2>3, FS_Subset
    <2>5. QED
        BY <2>3, <2>4 DEF D
<1>2. QueueInv => NoOrphan
    BY DEF QueueInv, WorkIsUnderKey, NoOrphan
<1>3. QueueInv => LoopsKeepTheirQueue
    BY <1>1, <1>2 DEF QueueInv, LoopsKeepTheirQueue
<1>4. QED
    BY <1>3, QueueInvariant, PTL

\* The agent is never run on an empty prompt while the drop policy stands; in
\* particular the guard on lastRun before a summary never fails (drain.ts:104).
THEOREM PromptsAreNotEmpty == Spec => []NoEmptyPrompt
<1>1. QueueInv => NoEmptyPrompt
    BY DEF QueueInv, ObjectsInv, ObjectInv, PromptHasWork, NoEmptyPrompt
<1>2. QED
    BY <1>1, QueueInvariant, PTL

\* The cap holds after every accepted message, however the settings moved.
THEOREM CapIsKept == Spec => CapHolds
<1>1. ASSUME QueueInv, Next, NEW m \in Messages, outcome[m] = "new", outcome'[m] = "pending"
      PROVE  Len(queue'[current'].items) <= queue'[current'].cap
    <2>1. ASSUME NEW n \in Messages, NEW s \in Settings, Enqueue(n, s)
          PROVE  Len(queue'[current'].items) <= queue'[current'].cap
        <3>1. PICK q \in Queues, rec \in QueueType :
                  /\ current' = q /\ queue' = [queue EXCEPT ![q] = Offered(rec, n)]
                  /\ outcome' = Judged(rec, n) /\ outcome[n] = "new"
                  /\ switched' \in BOOLEAN /\ (switched' \/ DropsAreDue(rec))
                  /\ ObjectInv(rec, switched') /\ Held(rec) = Held(queue[q])
            BY <1>1, <2>1, EnqueueFacts
        <3>2. outcome \in [Messages -> Outcomes] /\ queue \in [Queues -> QueueType]
            BY <1>1 DEF QueueInv, TypeOK
        <3>3. \A k \in Messages : k \in Held(rec) => outcome[k] = "pending"
            BY <1>1, <3>1 DEF QueueInv, PendingIsHeld
        <3>4. n \notin Held(rec)
            BY <3>1, <3>3
        <3>5. PICK sw \in BOOLEAN : sw = switched'
            BY <3>1
        <3>6. Len(Offered(rec, n).items) <= Offered(rec, n).cap
            BY <1>1, <3>1, <3>2, <3>3, <3>4, <3>5, OfferedFacts
        <3>7. queue'[current'] = Offered(rec, n)
            BY <3>1, <3>2
        <3>8. QED
            BY <3>6, <3>7
    <2>2. ASSUME ScheduleDrain \/ Clear \/ \E q \in Queues : LoopStep(q) PROVE FALSE
        BY <1>1, <2>2 DEF ScheduleDrain, Clear, LoopStep, Debounced, RunEnds, RunThrows, Settled
    <2>3. QED
        BY <1>1, <2>1, <2>2 DEF Next
<1>2. QueueInv /\ [Next]_vars =>
          [\A m \in Messages : (outcome[m] = "new" /\ outcome'[m] = "pending") =>
              Len(queue'[current'].items) <= queue'[current'].cap]_vars
    BY <1>1
<1>3. QED
    BY <1>2, QueueInvariant, PTL DEF Spec, CapHolds

-----------------------------------------------------------------------------
(* The dispatch of the session's messages, over the queue as one sequence. *)

\* The lane holds the runs that wait and the one that is active, each once and
\* that one first; the queue holds the queued messages, each once.
LaneHoldsRuns ==
    /\ IsInjective(lane)
    /\ Range(lane) = {m \in Inputs : phase[m] \in {"lane", "active"}}
    /\ \A m \in Inputs : phase[m] = "active" => lane[1] = m
WaitingAreQueued ==
    /\ IsInjective(waiting)
    /\ Range(waiting) = {m \in Inputs : phase[m] = "queued"}
DrainHolds == held # NoRun => draining

SessionInv ==
    /\ DispatchTypeOK
    /\ LaneHoldsRuns /\ WaitingAreQueued /\ DrainHolds
    /\ QueueIsWatched /\ DrainIsAlive

\* A sequence without its first element: that one is gone, the others stay.
LEMMA TailFacts ==
    ASSUME NEW S, NEW s \in Seq(S), IsInjective(s), s # <<>>
    PROVE  /\ Tail(s) \in Seq(S) /\ IsInjective(Tail(s))
           /\ Head(s) \in S /\ Head(s) = s[1] /\ Head(s) \in Range(s)
           /\ Range(Tail(s)) = Range(s) \ {Head(s)}
<1>1. /\ Tail(s) \in Seq(S) /\ Len(s) \in Nat \ {0} /\ Len(Tail(s)) = Len(s) - 1
      /\ \A i \in 1..Len(Tail(s)) : Tail(s)[i] = s[i + 1]
      /\ Head(s) \in S /\ Head(s) = s[1]
    BY HeadTailProperties, EmptySeq, LenProperties
<1>2. DOMAIN s = 1..Len(s) /\ DOMAIN Tail(s) = 1..(Len(s) - 1)
    BY <1>1, LenProperties
<1>3. \A i, j \in 1..Len(s) : s[i] = s[j] => i = j
    BY <1>2 DEF IsInjective
<1>4. IsInjective(Tail(s))
    BY <1>1, <1>2, <1>3 DEF IsInjective
<1>5. Head(s) \in Range(s)
    BY <1>1, <1>2 DEF Range
<1>6. Range(Tail(s)) = {s[i + 1] : i \in 1..(Len(s) - 1)}
    BY <1>1, <1>2 DEF Range
<1>7. ASSUME NEW x \in Range(s), x # s[1] PROVE x \in Range(Tail(s))
    <2>1. PICK i \in 1..Len(s) : x = s[i]
        BY <1>2 DEF Range
    <2>2. i - 1 \in 1..(Len(s) - 1) /\ (i - 1) + 1 = i
        BY <1>1, <1>7, <2>1
    <2>3. QED
        BY <1>6, <2>1, <2>2
<1>8. Range(Tail(s)) \subseteq Range(s) \ {s[1]}
    <2>1. \A i \in 1..(Len(s) - 1) : i + 1 \in 1..Len(s) /\ 1 \in 1..Len(s) /\ i + 1 # 1
        BY <1>1
    <2>2. QED
        BY <1>2, <1>3, <1>6, <2>1 DEF Range
<1>9. QED
    BY <1>1, <1>4, <1>5, <1>7, <1>8

\* A lane that holds a run is not empty.
LEMMA LaneIsNotEmpty ==
    ASSUME SessionInv, NEW r \in Inputs, phase[r] \in {"lane", "active"}
    PROVE  lane \in Seq(Inputs) /\ lane # <<>> /\ (phase[r] = "active" => Head(lane) = r)
<1>1. lane \in Seq(Inputs) /\ r \in Range(lane)
    BY DEF SessionInv, DispatchTypeOK, LaneHoldsRuns
<1>2. lane # <<>>
    BY <1>1, EmptyFacts
<1>3. Head(lane) = lane[1]
    BY <1>1, <1>2, HeadTailProperties
<1>4. QED
    BY <1>1, <1>2, <1>3 DEF SessionInv, LaneHoldsRuns

\* What joins the lane, leaves it, or stays in it: the lane holds the runs again.
LEMMA LaneStep ==
    ASSUME SessionInv, NEW r \in Inputs, NEW next \in Phases,
           phase' = [phase EXCEPT ![r] = next],
           \/ /\ phase[r] \notin {"lane", "active"} /\ next = "lane"
              /\ lane' = Append(lane, r)
           \/ /\ phase[r] \in {"lane", "active"} /\ Head(lane) = r
              /\ next \notin {"lane", "active"} /\ lane' = Tail(lane)
           \/ /\ phase[r] \in {"lane", "active"} /\ Head(lane) = r
              /\ next \in {"lane", "active"} /\ lane' = lane
           \/ /\ phase[r] \notin {"lane", "active"}
              /\ next \notin {"lane", "active"} /\ lane' = lane
    PROVE  lane' \in Seq(Inputs) /\ LaneHoldsRuns'
<1>1. /\ lane \in Seq(Inputs) /\ phase \in [Inputs -> Phases]
      /\ IsInjective(lane)
      /\ Range(lane) = {m \in Inputs : phase[m] \in {"lane", "active"}}
      /\ \A m \in Inputs : phase[m] = "active" => lane[1] = m
    BY DEF SessionInv, DispatchTypeOK, LaneHoldsRuns
<1>2. \A m \in Inputs : phase'[m] = IF m = r THEN next ELSE phase[m]
    BY <1>1
<1>3. CASE /\ phase[r] \notin {"lane", "active"} /\ next = "lane"
           /\ lane' = Append(lane, r)
    <2>1. /\ lane' \in Seq(Inputs) /\ IsInjective(lane') /\ Range(lane') = Range(lane) \cup {r}
        BY <1>1, <1>3, AppendFacts
    <2>2. ASSUME NEW m \in Inputs, phase'[m] = "active" PROVE lane'[1] = m
        <3>1. phase[m] = "active" /\ m \in Range(lane) /\ lane[1] = m
            BY <1>1, <1>2, <1>3, <2>2
        <3>2. 1 \in 1..Len(lane)
            BY <1>1, <3>1, EmptyFacts
        <3>3. QED
            BY <1>1, <1>3, <3>1, <3>2, AppendProperties
    <2>3. QED
        BY <1>1, <1>2, <1>3, <2>1, <2>2 DEF LaneHoldsRuns
<1>4. CASE /\ phase[r] \in {"lane", "active"} /\ Head(lane) = r
           /\ next \notin {"lane", "active"} /\ lane' = Tail(lane)
    <2>1. /\ lane' \in Seq(Inputs) /\ IsInjective(lane') /\ Range(lane') = Range(lane) \ {r}
          /\ lane[1] = r
        BY <1>1, <1>4, TailFacts, LaneIsNotEmpty
    <2>2. \A m \in Inputs : phase'[m] # "active"
        BY <1>1, <1>2, <1>4, <2>1
    <2>3. QED
        BY <1>1, <1>2, <1>4, <2>1, <2>2 DEF LaneHoldsRuns
<1>5. CASE /\ phase[r] \in {"lane", "active"} /\ Head(lane) = r
           /\ next \in {"lane", "active"} /\ lane' = lane
    <2>1. lane[1] = r
        BY <1>5, LaneIsNotEmpty, HeadTailProperties
    <2>2. QED
        BY <1>1, <1>2, <1>5, <2>1 DEF LaneHoldsRuns
<1>6. CASE /\ phase[r] \notin {"lane", "active"}
           /\ next \notin {"lane", "active"} /\ lane' = lane
    BY <1>1, <1>2, <1>6 DEF LaneHoldsRuns
<1>7. QED
    BY <1>3, <1>4, <1>5, <1>6

\* A message that does not touch the queue leaves it what it was.
LEMMA WaitingStays ==
    ASSUME SessionInv, waiting' = waiting,
           \A m \in Inputs : phase'[m] = "queued" <=> phase[m] = "queued"
    PROVE  WaitingAreQueued' /\ waiting' \in Seq(Inputs)
BY DEF SessionInv, WaitingAreQueued, DispatchTypeOK

\* A step that moves one run on its turn, and leaves queue and drain alone.
LEMMA TurnGoesOn ==
    ASSUME SessionInv, NEW r \in Inputs, NEW next \in Phases,
           phase' = [phase EXCEPT ![r] = next], phase[r] # "queued", next # "queued",
           phase[r] \in InTurn => next \in InTurn,
           waiting' = waiting, draining' = draining, held' = held, excuses' = excuses
    PROVE  /\ WaitingAreQueued' /\ DrainHolds'
           /\ QueueIsWatched' /\ DrainIsAlive'
<1>1. /\ phase \in [Inputs -> Phases] /\ held \in Inputs \cup {NoRun}
    BY DEF SessionInv, DispatchTypeOK
<1>2. \A m \in Inputs : phase'[m] = IF m = r THEN next ELSE phase[m]
    BY <1>1
<1>3. WaitingAreQueued'
    BY <1>2, WaitingStays
<1>4. DrainHolds'
    BY DEF SessionInv, DrainHolds
<1>5. \A m \in Inputs : phase[m] \in InTurn => phase'[m] \in InTurn
    BY <1>2
<1>6. QueueIsWatched'
    BY <1>5 DEF SessionInv, QueueIsWatched
<1>7. DrainIsAlive'
    BY <1>1, <1>5 DEF SessionInv, DrainIsAlive
<1>8. QED
    BY <1>3, <1>4, <1>6, <1>7

\* Each step of the dispatch keeps the invariant.
LEMMA RunForeignKeeps ==
    ASSUME SessionInv, NEW r \in Inputs, RunForeign(r) PROVE SessionInv'
<1>. USE DEF RunForeign, Goes, reading, followups
<1>1. "lane" \in Phases /\ "lane" \in InTurn
    BY DEF Phases, InTurn
<1>2. lane' \in Seq(Inputs) /\ LaneHoldsRuns'
    BY <1>1, LaneStep
<1>3. /\ WaitingAreQueued' /\ DrainHolds'
      /\ QueueIsWatched' /\ DrainIsAlive'
    BY <1>1, TurnGoesOn
<1>4. DispatchTypeOK'
    BY <1>1, <1>2 DEF SessionInv, DispatchTypeOK
<1>5. QED
    BY <1>2, <1>3, <1>4 DEF SessionInv

\* A read remembers the handle; an interrupt drops what waits in the lane.
LEMMA ReadKeeps ==
    ASSUME SessionInv, NEW m \in Inputs, Read(m) PROVE SessionInv'
<1>. USE DEF Goes, reading, followups
<1>1. /\ phase \in [Inputs -> Phases] /\ phase[m] = "new"
      /\ lane \in Seq(Inputs) /\ held \in Inputs \cup {NoRun}
      /\ UNCHANGED <<handle, streaming, waiting, draining, held>>
      /\ "deciding" \in Phases /\ "dropped" \in Phases
      /\ {"new", "deciding", "dropped"} \cap InTurn = {}
    BY DEF Read, SessionInv, DispatchTypeOK, Phases, InTurn
<1>2. /\ saw' \in [Inputs -> Inputs \cup {NoRun}] /\ sawStream' \in [Inputs -> BOOLEAN]
    BY DEF Read, SessionInv, DispatchTypeOK
<1>3. CASE Interrupts(m)
    <2>1. /\ lane # <<>> /\ lane' = <<Head(lane)>>
          /\ phase' = [r \in Inputs |->
                IF r = m THEN "deciding"
                ELSE IF r \in ToSet(Tail(lane)) THEN "dropped" ELSE phase[r]]
          /\ excuses' = IF Tail(lane) = <<>> THEN excuses ELSE excuses \cup {"cleared"}
        BY <1>3 DEF Read, Interrupts
    <2>2. /\ Tail(lane) \in Seq(Inputs) /\ Head(lane) \in Range(lane)
          /\ Head(lane) = lane[1] /\ Range(Tail(lane)) = Range(lane) \ {Head(lane)}
        BY <1>1, <2>1, TailFacts DEF SessionInv, LaneHoldsRuns
    <2>3. ToSet(Tail(lane)) = Range(lane) \ {Head(lane)}
        BY <2>2 DEF ToSet, Range
    <2>4. Tail(lane) = <<>> => Range(lane) \ {Head(lane)} = {}
        BY <2>2, EmptyFacts
    <2>5. \A r \in Inputs : phase'[r] =
              IF r = m THEN "deciding"
              ELSE IF r \in Range(lane) /\ r # lane[1] THEN "dropped" ELSE phase[r]
        BY <2>1, <2>2, <2>3
    <2>6. Range(lane) = {r \in Inputs : phase[r] \in {"lane", "active"}}
        BY DEF SessionInv, LaneHoldsRuns
    <2>7. \A r \in Inputs : phase[r] = "active" => lane[1] = r
        BY DEF SessionInv, LaneHoldsRuns
    <2>8. phase' \in [Inputs -> Phases]
        BY <1>1, <2>1
    <2>9. LaneHoldsRuns' /\ lane' \in Seq(Inputs)
        <3>1. PICK h \in Inputs : h = Head(lane)
            BY <2>2, <2>6
        <3>2. lane' = <<h>> /\ h \in Range(lane) /\ h = lane[1]
            BY <2>1, <2>2, <3>1
        <3>3. lane' \in Seq(Inputs) /\ IsInjective(lane') /\ Range(lane') = {h} /\ lane'[1] = h
            BY <3>2 DEF IsInjective, Range
        <3>4. h # m
            BY <1>1, <2>6, <3>2
        <3>5. \A r \in Inputs : phase'[r] \in {"lane", "active"} <=> r = h
            BY <1>1, <2>5, <2>6, <3>2, <3>4
        <3>6. QED
            BY <3>3, <3>5 DEF LaneHoldsRuns
    <2>10. WaitingAreQueued'
        <3>1. \A r \in Inputs : phase'[r] = "queued" <=> phase[r] = "queued"
            BY <1>1, <2>5, <2>6
        <3>2. QED
            BY <1>1, <3>1, WaitingStays
    <2>11. excuses \subseteq excuses'
        BY <2>1
    <2>12. ASSUME Tail(lane) = <<>>
           PROVE  QueueIsWatched' /\ DrainIsAlive'
        <3>1. \A r \in Inputs : phase[r] \in InTurn => phase'[r] \in InTurn
            BY <1>1, <2>2, <2>4, <2>5, <2>12
        <3>2. excuses' = excuses
            BY <2>1, <2>12
        <3>3. QueueIsWatched' /\ DrainIsAlive'
            BY <1>1, <3>1, <3>2 DEF SessionInv, QueueIsWatched, DrainIsAlive
        <3>4. QED
            BY <3>3
    <2>13. ASSUME Tail(lane) # <<>>
           PROVE  QueueIsWatched' /\ DrainIsAlive'
        <3>1. "cleared" \in excuses'
            BY <2>1, <2>13
        <3>2. QED
            BY <3>1 DEF QueueIsWatched, DrainIsAlive
    <2>14. QueueIsWatched' /\ DrainIsAlive'
        BY <2>12, <2>13
    <2>15. excuses' \subseteq {"stale", "foreign", "threw", "cleared"}
        BY <2>1 DEF SessionInv, DispatchTypeOK
    <2>16. DispatchTypeOK'
        BY <1>1, <1>2, <2>8, <2>9, <2>15 DEF SessionInv, DispatchTypeOK
    <2>17. DrainHolds'
        BY <1>1 DEF SessionInv, DrainHolds
    <2>18. QED
        BY <2>9, <2>10, <2>14, <2>16, <2>17 DEF SessionInv
<1>4. CASE ~Interrupts(m)
    <2>1. phase' = [phase EXCEPT ![m] = "deciding"] /\ UNCHANGED <<lane, excuses>>
        BY <1>4 DEF Read
    <2>2. lane' \in Seq(Inputs) /\ LaneHoldsRuns'
        BY <1>1, <2>1, LaneStep
    <2>3. /\ WaitingAreQueued' /\ DrainHolds'
          /\ QueueIsWatched' /\ DrainIsAlive'
        BY <1>1, <2>1, TurnGoesOn
    <2>4. DispatchTypeOK'
        BY <1>1, <1>2, <2>1, <2>2 DEF SessionInv, DispatchTypeOK
    <2>5. QED
        BY <2>2, <2>3, <2>4 DEF SessionInv
<1>5. QED
    BY <1>3, <1>4

\* A message steered into the attempt, or given a turn of its own.
LEMMA DecidedKeeps ==
    ASSUME SessionInv, NEW m \in Inputs, Steer(m) \/ OwnTurn(m)
    PROVE  SessionInv'
<1>1. PICK next \in {"steered", "preparing"} :
          /\ phase[m] = "deciding" /\ Decided(m, next)
          /\ UNCHANGED <<lane, handle, streaming, waiting, draining, held, excuses>>
    BY DEF Steer, OwnTurn, followups
<1>2. /\ phase' = [phase EXCEPT ![m] = next]
      /\ saw' = [saw EXCEPT ![m] = NoRun] /\ sawStream' = [sawStream EXCEPT ![m] = FALSE]
    BY <1>1 DEF Decided, Goes
<1>3. next \in Phases /\ "deciding" \notin InTurn
    BY DEF Phases, InTurn
<1>4. lane' \in Seq(Inputs) /\ LaneHoldsRuns'
    BY <1>1, <1>2, <1>3, LaneStep
<1>5. /\ WaitingAreQueued' /\ DrainHolds'
      /\ QueueIsWatched' /\ DrainIsAlive'
    BY <1>1, <1>2, <1>3, TurnGoesOn
<1>6. DispatchTypeOK'
    BY <1>1, <1>2, <1>3, <1>4 DEF SessionInv, DispatchTypeOK
<1>7. QED
    BY <1>4, <1>5, <1>6 DEF SessionInv

\* A message joins the queue: the run it saw is in a turn that drains, or the
\* reason why it is not is noted.
LEMMA EnqueueKeeps ==
    ASSUME SessionInv, NEW m \in Inputs, EnqueueFollowup(m) PROVE SessionInv'
<1>1. /\ phase[m] = "deciding" /\ saw[m] # NoRun
      /\ phase' = [phase EXCEPT ![m] = "queued"]
      /\ saw' = [saw EXCEPT ![m] = NoRun] /\ sawStream' = [sawStream EXCEPT ![m] = FALSE]
      /\ waiting' = Append(waiting, m)
      /\ excuses' = excuses
            \cup (IF phase[saw[m]] \in InTurn THEN {} ELSE {"stale"})
            \cup (IF Mode[saw[m]] = "foreign" THEN {"foreign"} ELSE {})
      /\ UNCHANGED <<lane, handle, streaming, draining, held>>
    BY DEF EnqueueFollowup, Joins, Decided, Goes
<1>2. /\ phase \in [Inputs -> Phases] /\ waiting \in Seq(Inputs)
      /\ saw \in [Inputs -> Inputs \cup {NoRun}] /\ held \in Inputs \cup {NoRun}
    BY DEF SessionInv, DispatchTypeOK
<1>3. "queued" \in Phases /\ {"deciding", "queued"} \cap InTurn = {}
    BY DEF Phases, InTurn
<1>4. \A k \in Inputs : phase'[k] = IF k = m THEN "queued" ELSE phase[k]
    BY <1>1, <1>2
<1>5. lane' \in Seq(Inputs) /\ LaneHoldsRuns'
    BY <1>1, <1>3, LaneStep
<1>6. waiting' \in Seq(Inputs) /\ WaitingAreQueued'
    <2>1. /\ IsInjective(waiting) /\ Range(waiting) = {k \in Inputs : phase[k] = "queued"}
        BY DEF SessionInv, WaitingAreQueued
    <2>2. /\ waiting' \in Seq(Inputs) /\ IsInjective(waiting')
          /\ Range(waiting') = Range(waiting) \cup {m}
        BY <1>1, <1>2, <2>1, AppendFacts
    <2>3. QED
        BY <1>1, <1>4, <2>1, <2>2 DEF WaitingAreQueued
<1>7. QueueIsWatched'
    <2>1. PICK k \in Inputs : k = saw[m]
        BY <1>1, <1>2
    <2>2. CASE phase[k] \in InTurn /\ Mode[k] # "foreign"
        <3>1. phase'[k] \in InTurn
            BY <1>1, <1>3, <1>4, <2>2
        <3>2. QED
            BY <2>2, <3>1 DEF QueueIsWatched
    <2>3. CASE ~(phase[k] \in InTurn /\ Mode[k] # "foreign")
        <3>1. excuses' # {}
            BY <1>1, <2>1, <2>3
        <3>2. QED
            BY <3>1 DEF QueueIsWatched
    <2>4. QED
        BY <2>2, <2>3
<1>8. DrainIsAlive' /\ DrainHolds'
    BY <1>1, <1>2, <1>3, <1>4 DEF SessionInv, DrainIsAlive, DrainHolds
<1>9. DispatchTypeOK'
    BY <1>1, <1>2, <1>3, <1>5, <1>6 DEF SessionInv, DispatchTypeOK
<1>10. QED
    BY <1>5, <1>6, <1>7, <1>8, <1>9 DEF SessionInv

\* The steps of a run.
LEMMA RunStepKeeps ==
    ASSUME SessionInv, NEW r \in Inputs, RunStep(r) PROVE SessionInv'
<1>. USE DEF Goes, reading, followups
<1>1. PICK next \in {"lane", "active", "wrapping", "preparing"} :
          /\ phase[r] \in {"preparing", "lane", "active"}
          /\ phase' = [phase EXCEPT ![r] = next]
          /\ UNCHANGED <<saw, sawStream, waiting, draining, held, excuses>>
          /\ handle' \in {handle, NoRun, r} /\ streaming' \in BOOLEAN
          /\ \/ /\ phase[r] = "preparing" /\ next = "lane"
                /\ lane' = Append(lane, r)
             \/ /\ phase[r] \in {"lane", "active"} /\ Head(lane) = r
                /\ next \notin {"lane", "active"} /\ lane' = Tail(lane)
             \/ /\ phase[r] \in {"lane", "active"} /\ Head(lane) = r
                /\ next \in {"lane", "active"} /\ lane' = lane
    <2>0. streaming \in BOOLEAN
        BY DEF SessionInv, DispatchTypeOK
    <2>1. CASE EnterLane(r)
        BY <2>0, <2>1 DEF EnterLane
    <2>2. CASE StartAttempt(r)
        BY <2>2 DEF StartAttempt
    <2>3. CASE EndAttempt(r)
        <3>1. Head(lane) = r
            BY <2>3, LaneIsNotEmpty DEF EndAttempt
        <3>2. QED
            BY <2>3, <3>1 DEF EndAttempt
    <2>4. CASE RunFails(r)
        BY <2>0, <2>4 DEF RunFails
    <2>5. QED
        BY <2>1, <2>2, <2>3, <2>4 DEF RunStep
<1>2. next \in Phases /\ next \in InTurn
    BY DEF Phases, InTurn
<1>3. lane' \in Seq(Inputs) /\ LaneHoldsRuns'
    BY <1>1, <1>2, LaneStep
<1>4. /\ WaitingAreQueued' /\ DrainHolds'
      /\ QueueIsWatched' /\ DrainIsAlive'
    BY <1>1, <1>2, TurnGoesOn
<1>5. DispatchTypeOK'
    BY <1>1, <1>2, <1>3 DEF SessionInv, DispatchTypeOK
<1>6. QED
    BY <1>3, <1>4, <1>5 DEF SessionInv

\* The end of a turn: it schedules the drain, or notes that it threw.
LEMMA TurnStepKeeps ==
    ASSUME SessionInv, NEW m \in Inputs, TurnStep(m) PROVE SessionInv'
<1>. USE DEF Goes, reading, followups
<1>1. /\ phase \in [Inputs -> Phases] /\ waiting \in Seq(Inputs)
      /\ held \in Inputs \cup {NoRun} /\ draining \in BOOLEAN
      /\ "over" \in Phases /\ "failed" \in Phases
      /\ NoRun \notin Inputs
    BY DispatchAssumption DEF SessionInv, DispatchTypeOK, Phases
<1>2. PICK next \in {"over", "failed"} :
          /\ phase[m] \in {"wrapping", "preparing"}
          /\ phase' = [phase EXCEPT ![m] = next]
          /\ UNCHANGED <<saw, sawStream, lane, handle, streaming, waiting>>
    BY DEF TurnStep, FinishTurn, TurnThrows, FollowupEnds,
           ScheduleFollowupDrain
<1>3. \A k \in Inputs : phase'[k] = IF k = m THEN next ELSE phase[k]
    BY <1>1, <1>2
<1>4. lane' \in Seq(Inputs) /\ LaneHoldsRuns'
    BY <1>1, <1>2, LaneStep
<1>5. WaitingAreQueued'
    BY <1>2, <1>3, WaitingStays
<1>6. waiting' # <<>> =>
          \/ draining' \/ excuses' # {}
          \/ \E k \in Inputs : phase[k] \in InTurn /\ Mode[k] # "foreign"
    BY <1>2 DEF SessionInv, QueueIsWatched, TurnStep, FinishTurn,
           ScheduleFollowupDrain, TurnThrows, FollowupEnds
<1>7. QueueIsWatched'
    <2>1. CASE FinishTurn(m) /\ Mode[m] # "foreign"
        BY <2>1 DEF FinishTurn, ScheduleFollowupDrain, QueueIsWatched
    <2>2. CASE FinishTurn(m) /\ Mode[m] = "foreign"
        <3>1. UNCHANGED <<waiting, draining, excuses>>
            BY <2>2 DEF FinishTurn
        <3>2. \A k \in Inputs : phase[k] \in InTurn /\ Mode[k] # "foreign"
                  => phase'[k] \in InTurn
            BY <1>3, <2>2
        <3>3. QED
            BY <3>1, <3>2 DEF SessionInv, QueueIsWatched
    <2>3. CASE TurnThrows(m)
        BY <2>3 DEF TurnThrows, QueueIsWatched
    <2>4. CASE FollowupEnds(m)
        BY <2>4 DEF FollowupEnds, QueueIsWatched
    <2>5. QED
        BY <2>1, <2>2, <2>3, <2>4 DEF TurnStep
<1>8. DrainHolds' /\ DrainIsAlive'
    <2>1. CASE FollowupEnds(m)
        <3>1. held' = NoRun
            BY <2>1 DEF FollowupEnds
        <3>2. QED
            BY <3>1 DEF DrainHolds, DrainIsAlive
    <2>2. CASE FinishTurn(m) \/ TurnThrows(m)
        <3>1. /\ held' = held /\ held # m
              /\ held # NoRun => draining' /\ excuses \subseteq excuses'
            BY <2>2 DEF SessionInv, DrainHolds, FinishTurn, TurnThrows,
                        ScheduleFollowupDrain
        <3>2. held # NoRun => phase'[held] = phase[held]
            BY <1>1, <1>3, <3>1
        <3>3. QED
            BY <3>1, <3>2 DEF SessionInv, DrainHolds, DrainIsAlive
    <2>3. QED
        BY <2>1, <2>2 DEF TurnStep
<1>9. /\ held' \in Inputs \cup {NoRun} /\ draining' \in BOOLEAN
      /\ excuses' \subseteq {"stale", "foreign", "threw", "cleared"}
    BY <1>1 DEF SessionInv, DispatchTypeOK, TurnStep, FinishTurn,
           ScheduleFollowupDrain, TurnThrows, FollowupEnds
<1>10. DispatchTypeOK'
    BY <1>1, <1>2, <1>4, <1>9 DEF SessionInv, DispatchTypeOK
<1>11. QED
    BY <1>4, <1>5, <1>7, <1>8, <1>10 DEF SessionInv

\* The drain takes the first message and awaits its run.
LEMMA DrainTakesKeeps ==
    ASSUME SessionInv, DrainTakes PROVE SessionInv'
<1>. USE DEF Goes, reading
<1>1. /\ waiting \in Seq(Inputs) /\ waiting # <<>> /\ IsInjective(waiting)
      /\ Range(waiting) = {k \in Inputs : phase[k] = "queued"}
      /\ phase \in [Inputs -> Phases]
      /\ draining /\ held' = Head(waiting) /\ waiting' = Tail(waiting)
      /\ phase' = [phase EXCEPT ![Head(waiting)] = "lane"]
      /\ lane' = Append(lane, Head(waiting))
      /\ UNCHANGED <<saw, sawStream, handle, streaming, draining, excuses>>
    BY DEF SessionInv, DispatchTypeOK, WaitingAreQueued, DrainTakes
<1>2. PICK m \in Inputs : m = Head(waiting)
    BY <1>1, TailFacts
<1>3. /\ Tail(waiting) \in Seq(Inputs) /\ IsInjective(Tail(waiting)) /\ m \in Range(waiting)
      /\ Range(Tail(waiting)) = Range(waiting) \ {m}
    BY <1>1, <1>2, TailFacts
<1>4. "lane" \in Phases /\ "lane" \in InTurn
    BY DEF Phases, InTurn
<1>5. \A k \in Inputs : phase'[k] = IF k = m THEN "lane" ELSE phase[k]
    BY <1>1, <1>2
<1>6. lane' \in Seq(Inputs) /\ LaneHoldsRuns'
    <2>1. phase[m] = "queued" /\ phase' = [phase EXCEPT ![m] = "lane"] /\ lane' = Append(lane, m)
        BY <1>1, <1>2, <1>3
    <2>2. QED
        BY <1>4, <2>1, LaneStep
<1>7. WaitingAreQueued' /\ waiting' \in Seq(Inputs)
    BY <1>1, <1>3, <1>5 DEF WaitingAreQueued
<1>8. DrainHolds' /\ QueueIsWatched'
    BY <1>1 DEF DrainHolds, QueueIsWatched
<1>9. DrainIsAlive'
    <2>1. phase'[held'] = "lane"
        BY <1>1, <1>2, <1>5
    <2>2. QED
        BY <1>4, <2>1 DEF DrainIsAlive
<1>10. DispatchTypeOK'
    <2>1. held' \in Inputs /\ phase' \in [Inputs -> Phases]
        BY <1>1, <1>2, <1>4
    <2>2. QED
        BY <1>1, <1>6, <1>7, <2>1 DEF SessionInv, DispatchTypeOK
<1>11. QED
    BY <1>6, <1>7, <1>8, <1>9, <1>10 DEF SessionInv

\* A change of streaming, and a stutter, touch nothing the invariant relates.
LEMMA StreamingKeeps ==
    ASSUME SessionInv, StreamingChanges \/ UNCHANGED dispatchVars
    PROVE  SessionInv'
<1>1. /\ UNCHANGED <<phase, saw, sawStream, lane, handle, waiting, draining, held, excuses>>
      /\ streaming' \in BOOLEAN
    BY DEF SessionInv, DispatchTypeOK, StreamingChanges, dispatchVars,
           reading, followups
<1>2. DispatchTypeOK'
    BY <1>1 DEF SessionInv, DispatchTypeOK
<1>3. LaneHoldsRuns' /\ WaitingAreQueued' /\ DrainHolds'
    BY <1>1 DEF SessionInv, LaneHoldsRuns, WaitingAreQueued, DrainHolds
<1>4. QueueIsWatched' /\ DrainIsAlive'
    BY <1>1 DEF SessionInv, QueueIsWatched, DrainIsAlive
<1>5. QED
    BY <1>2, <1>3, <1>4 DEF SessionInv

\* The invariant holds throughout.
LEMMA SessionInvariant == DispatchSpec => []SessionInv
<1>1. DispatchInit => SessionInv
    <2>. SUFFICES ASSUME DispatchInit PROVE SessionInv
        OBVIOUS
    <2>1. /\ <<>> \in Seq(Inputs) /\ IsInjective(<<>>) /\ Range(<<>>) = {}
        BY EmptyFacts
    <2>2. DispatchTypeOK
        BY <2>1 DEF DispatchInit, DispatchTypeOK, Phases
    <2>3. LaneHoldsRuns /\ WaitingAreQueued /\ DrainHolds
        BY <2>1 DEF DispatchInit, LaneHoldsRuns, WaitingAreQueued, DrainHolds
    <2>4. QueueIsWatched /\ DrainIsAlive
        BY DEF DispatchInit, QueueIsWatched, DrainIsAlive
    <2>5. QED
        BY <2>2, <2>3, <2>4 DEF SessionInv
<1>2. SessionInv /\ [DispatchNext]_dispatchVars => SessionInv'
    <2>1. ASSUME SessionInv, NEW m \in Inputs, Dispatch(m) PROVE SessionInv'
        BY <2>1, DecidedKeeps, EnqueueKeeps DEF Dispatch
    <2>2. QED
        BY <2>1, RunForeignKeeps, ReadKeeps, RunStepKeeps, TurnStepKeeps, DrainTakesKeeps,
           StreamingKeeps DEF DispatchNext
<1>3. QED
    BY <1>1, <1>2, PTL DEF DispatchSpec

-----------------------------------------------------------------------------
\* The state of the dispatch has its type.
THEOREM DispatchTypeCorrect == DispatchSpec => []DispatchTypeOK
<1>1. SessionInv => DispatchTypeOK
    BY DEF SessionInv
<1>2. QED
    BY <1>1, SessionInvariant, PTL

\* No message waits in a queue that nobody will come for, and no drain awaits a
\* turn that is gone, unless one of the four things happened that cut it off.
THEOREM QueueIsAlwaysServed == DispatchSpec => []QueueIsServed
<1>1. SessionInv => QueueIsServed
    BY DEF SessionInv, QueueIsServed
<1>2. QED
    BY <1>1, SessionInvariant, PTL
=============================================================================
