------------------------- MODULE CommandLanes_proofs -------------------------
(***************************************************************************)
(* Proofs about CommandLanes, for any set of lanes and tasks and any       *)
(* concurrency limits.  The invariant is the conjunction of the four that  *)
(* the runs check: TypeOK needs SlotsExact (a released slot was taken, so  *)
(* active stays a natural number), SlotsExact needs OnePlace (the started  *)
(* tasks are distinct and new to the running set), and OnePlace is         *)
(* inductive with the types.                                               *)
(***************************************************************************)
EXTENDS CommandLanes, FiniteSetTheorems, SequenceTheorems, TLAPS

-----------------------------------------------------------------------------
(* What the transitions of one lane do, for any entries.  The proofs about  *)
(* AgentRuns, which nests two levels of lanes, cite these lemmas too.        *)

Injective(queue) == \A i, j \in 1..Len(queue) : queue[i] = queue[j] => i = j

\* How far one pump goes, and what it leaves in the queue.
LEMMA PumpFacts ==
    ASSUME NEW E, NEW lane \in LaneType(E)
    PROVE  /\ PumpCount(lane) \in 0..Len(lane.queue)
           /\ PumpCount(lane) > 0 =>
                lane.active + PumpCount(lane) <= lane.maxConcurrent
           /\ PumpCount(lane) < Len(lane.queue) =>
                lane.active + PumpCount(lane) >= lane.maxConcurrent
           /\ Pumped(lane) \in LaneType(E)
           /\ Pumped(lane).active = lane.active + PumpCount(lane)
           /\ Pumped(lane).maxConcurrent = lane.maxConcurrent
           /\ Len(Pumped(lane).queue) = Len(lane.queue) - PumpCount(lane)
           /\ \A i \in 1..Len(Pumped(lane).queue) :
                 Pumped(lane).queue[i] = lane.queue[PumpCount(lane) + i]
           /\ Started(lane) \in Seq(E)
           /\ Len(Started(lane)) = PumpCount(lane)
           /\ \A i \in 1..PumpCount(lane) : Started(lane)[i] = lane.queue[i]
  <1> DEFINE n == PumpCount(lane)
             q == lane.queue
             rest == SubSeq(q, n + 1, Len(q))
  <1>1. /\ q \in Seq(E) /\ lane.active \in Nat /\ lane.maxConcurrent \in Nat
        /\ lane = [queue |-> q, active |-> lane.active,
                   maxConcurrent |-> lane.maxConcurrent]
    BY DEF LaneType
  <1>2. /\ Len(q) \in Nat
        /\ \A i \in 1..Len(q) : q[i] \in E
    BY <1>1, LenProperties, ElementOfSeq
  <1>3. /\ n \in 0..Len(q)
        /\ n > 0 => lane.active + n <= lane.maxConcurrent
        /\ n < Len(q) => lane.active + n >= lane.maxConcurrent
    BY <1>1, <1>2 DEF PumpCount, FreeSlots
  <1> HIDE DEF n, q
  <1>4. /\ rest \in Seq(E) /\ Len(rest) = Len(q) - n
        /\ \A i \in 1..Len(rest) : rest[i] = q[n + i]
    <2>1. \A i \in (n + 1)..Len(q) : q[i] \in E
      BY <1>2, <1>3
    <2>2. /\ rest \in Seq(E)
          /\ Len(rest) = IF n + 1 <= Len(q) THEN Len(q) - (n + 1) + 1 ELSE 0
          /\ \A i \in 1..(Len(q) - (n + 1) + 1) : rest[i] = q[(n + 1) + i - 1]
      <3>1. n + 1 \in Int /\ Len(q) \in Int
        BY <1>2, <1>3
      <3>2. QED
        BY <2>1, <3>1, SubSeqProperties DEF rest
    <2> HIDE DEF rest
    <2>3. QED
      BY <2>2, <1>2, <1>3
  <1>5. /\ SubSeq(q, 1, n) \in Seq(E)
        /\ Len(SubSeq(q, 1, n)) = n
        /\ \A i \in 1..n : SubSeq(q, 1, n)[i] = q[i]
    <2>1. \A i \in 1..n : q[i] \in E
      BY <1>2, <1>3
    <2>2. /\ SubSeq(q, 1, n) \in Seq(E)
          /\ Len(SubSeq(q, 1, n)) = IF 1 <= n THEN n - 1 + 1 ELSE 0
          /\ \A i \in 1..(n - 1 + 1) : SubSeq(q, 1, n)[i] = q[1 + i - 1]
      BY <2>1, <1>3, SubSeqProperties
    <2>3. QED
      BY <2>2, <1>3
  <1>6. Pumped(lane) = [queue |-> rest, active |-> lane.active + n,
                        maxConcurrent |-> lane.maxConcurrent]
    BY DEF Pumped, Lane, n, q
  <1>7. Pumped(lane) \in LaneType(E)
    BY <1>1, <1>3, <1>4, <1>6 DEF LaneType
  <1>8. Started(lane) = SubSeq(q, 1, n)
    BY DEF Started, n, q
  <1> HIDE DEF rest
  <1>9. QED
    BY <1>1, <1>3, <1>4, <1>5, <1>6, <1>7, <1>8 DEF n, q

\* No pump leaves a free slot beside work, and one that finds none does nothing.
LEMMA PumpSaturates ==
    ASSUME NEW E, NEW lane \in LaneType(E)
    PROVE  /\ Pumped(lane).queue # <<>> => Pumped(lane).active >= Pumped(lane).maxConcurrent
           /\ (lane.queue # <<>> => lane.active >= lane.maxConcurrent) =>
                 Pumped(lane) = lane /\ Started(lane) = <<>>
  <1>1. /\ lane.queue \in Seq(E) /\ lane.active \in Nat /\ lane.maxConcurrent \in Nat
        /\ lane = Lane(lane.queue, lane.active, lane.maxConcurrent)
    BY DEF LaneType, Lane
  <1>2. Len(lane.queue) \in Nat /\ (lane.queue = <<>> => Len(lane.queue) = 0)
    BY <1>1, EmptySeq, LenProperties
  <1>3. Pumped(lane).queue # <<>> => Pumped(lane).active >= Pumped(lane).maxConcurrent
    <2>1. Pumped(lane).queue \in Seq(E)
      BY PumpFacts DEF LaneType
    <2>2. Pumped(lane).queue # <<>> => Len(Pumped(lane).queue) # 0
      BY <2>1, EmptySeq
    <2>3. QED
      BY <1>2, <2>2, PumpFacts
  <1>4. ASSUME lane.queue # <<>> => lane.active >= lane.maxConcurrent
        PROVE  Pumped(lane) = lane /\ Started(lane) = <<>>
    <2>1. /\ PumpCount(lane) = 0 /\ PumpCount(lane) + 1 = 1
          /\ lane.active + PumpCount(lane) = lane.active
      BY <1>1, <1>2, <1>4 DEF PumpCount, FreeSlots
    <2>2. /\ SubSeq(lane.queue, 1, 0) = <<>>
          /\ SubSeq(lane.queue, 1, Len(lane.queue)) = lane.queue
      BY <1>1, SubSeqEmpty, SubSeqFull
    <2>3. QED
      BY <1>1, <2>1, <2>2 DEF Pumped, Started
  <1>5. QED
    BY <1>3, <1>4

\* A pump moves the head of the queue into the running set and loses nothing.
LEMMA PumpMoves ==
    ASSUME NEW E, NEW lane \in LaneType(E), Injective(lane.queue)
    PROVE  /\ Injective(Pumped(lane).queue)
           /\ Range(Started(lane)) \cup Range(Pumped(lane).queue) = Range(lane.queue)
           /\ Range(Started(lane)) \cap Range(Pumped(lane).queue) = {}
           /\ Injective(Started(lane))
           /\ IsFiniteSet(Range(Started(lane)))
           /\ Cardinality(Range(Started(lane))) = PumpCount(lane)
  <1> DEFINE n == PumpCount(lane)
             q == lane.queue
             rest == Pumped(lane).queue
             head == Started(lane)
  <1>1. /\ n \in 0..Len(q) /\ q \in Seq(E)
        /\ rest \in Seq(E) /\ Len(rest) = Len(q) - n
        /\ \A i \in 1..Len(rest) : rest[i] = q[n + i]
        /\ head \in Seq(E) /\ Len(head) = n
        /\ \A i \in 1..n : head[i] = q[i]
    BY PumpFacts DEF LaneType
  <1>2. \A i, j \in 1..Len(q) : q[i] = q[j] => i = j
    BY DEF Injective
  <1> HIDE DEF n, q, rest, head
  <1>3. /\ Len(q) \in Nat /\ DOMAIN q = 1..Len(q)
        /\ DOMAIN rest = 1..Len(rest) /\ DOMAIN head = 1..n
    BY <1>1, LenProperties
  <1>4. Injective(rest)
    BY <1>1, <1>2, <1>3 DEF Injective
  <1>5. Range(head) \cap Range(rest) = {}
    <2>1. ASSUME NEW i \in 1..n, NEW j \in 1..Len(rest) PROVE head[i] # rest[j]
      <3>1. i \in 1..Len(q) /\ n + j \in 1..Len(q) /\ i # n + j
        BY <1>1, <1>3
      <3>2. QED
        BY <3>1, <1>1, <1>2
    <2>2. QED
      BY <2>1, <1>3 DEF Range
  <1>6. Range(head) \cup Range(rest) = Range(q)
    <2>1. ASSUME NEW x \in Range(q) PROVE x \in Range(head) \cup Range(rest)
      <3>1. PICK i \in 1..Len(q) : x = q[i]
        BY <1>3 DEF Range
      <3>2. CASE i <= n
        BY <3>1, <3>2, <1>1, <1>3 DEF Range
      <3>3. CASE i > n
        <4>1. i - n \in 1..Len(rest) /\ rest[i - n] = q[i]
          BY <3>3, <1>1, <1>3
        <4>2. QED
          BY <4>1, <3>1, <1>3 DEF Range
      <3>4. QED
        BY <3>2, <3>3, <1>1
    <2>2. Range(head) \subseteq Range(q) /\ Range(rest) \subseteq Range(q)
      <3>1. \A i \in 1..n : i \in 1..Len(q) /\ head[i] = q[i]
        BY <1>1, <1>3
      <3>2. \A i \in 1..Len(rest) : n + i \in 1..Len(q) /\ rest[i] = q[n + i]
        BY <1>1, <1>3
      <3>3. QED
        BY <3>1, <3>2, <1>3 DEF Range
    <2>3. QED
      BY <2>1, <2>2
  <1>7. head \in Bijection(1..n, Range(head))
    BY <1>1, <1>2, <1>3 DEF Bijection, Injection, Surjection, IsInjective, Range
  <1>8. n \in Nat /\ ExistsBijection(1..n, Range(head))
    BY <1>1, <1>3, <1>7 DEF ExistsBijection
  <1>9. IsFiniteSet(Range(head)) /\ Cardinality(Range(head)) = n
    BY <1>8, FS_NatBijection, FS_CountingElements
  <1>10. Injective(head)
    BY <1>1, <1>2, <1>3 DEF Injective
  <1>11. QED
    BY <1>4, <1>5, <1>6, <1>9, <1>10 DEF n, q, rest, head

\* What a pump starts is the head of the queue.
LEMMA StartedIsHead ==
    ASSUME NEW E, NEW lane \in LaneType(E), Injective(lane.queue),
           NEW i \in 1..Len(lane.queue), NEW j \in 1..Len(lane.queue), i < j,
           lane.queue[j] \in Range(Started(lane))
    PROVE  lane.queue[i] \in Range(Started(lane))
  <1> DEFINE n == PumpCount(lane)
             q == lane.queue
             head == Started(lane)
  <1>1. /\ n \in 0..Len(q) /\ head \in Seq(E) /\ Len(head) = n
        /\ \A k \in 1..n : head[k] = q[k]
    BY PumpFacts
  <1>2. DOMAIN head = 1..n /\ Len(q) \in Nat
    BY <1>1, LenProperties DEF LaneType
  <1> HIDE DEF n, q, head
  <1>3. PICK k \in 1..n : q[j] = head[k]
    BY <1>2 DEF Range, head, q
  <1>4. k = j
    BY <1>1, <1>2, <1>3 DEF Injective, q
  <1>5. i \in 1..n
    BY <1>1, <1>2, <1>4 DEF q
  <1>6. QED
    BY <1>1, <1>2, <1>5 DEF Range, q, head

\* A pump of a lane whose slots are counted exactly, `still' being the entries
\* that hold them: the count stays exact, and a start finds a free slot.
LEMMA PumpOccupies ==
    ASSUME NEW E, NEW lane \in LaneType(E), NEW still \in SUBSET E,
           IsFiniteSet(still), lane.active = Cardinality(still),
           Injective(lane.queue), Range(lane.queue) \cap still = {}
    PROVE  /\ Range(Started(lane)) \subseteq E
           /\ IsFiniteSet(still \cup Range(Started(lane)))
           /\ Pumped(lane).active = Cardinality(still \cup Range(Started(lane)))
           /\ Range(Started(lane)) # {} => Pumped(lane).active <= lane.maxConcurrent
  <1> DEFINE begun == Range(Started(lane))
  <1>1. begun \subseteq E
    <2>1. Started(lane) \in Seq(E)
      BY PumpFacts
    <2>2. QED
      BY <2>1, LenProperties, ElementOfSeq DEF Range
  <1>2. /\ begun \subseteq Range(lane.queue)
        /\ IsFiniteSet(begun) /\ Cardinality(begun) = PumpCount(lane)
    BY PumpMoves
  <1> HIDE DEF begun
  <1>3. /\ IsFiniteSet(still \cup begun)
        /\ Cardinality(still \cup begun) = lane.active + PumpCount(lane)
    <2>1. still \cap begun = {}
      BY <1>2
    <2>2. Cardinality(still \cap begun) = 0
      BY <2>1, FS_EmptySet
    <2>3. /\ IsFiniteSet(still \cup begun)
          /\ Cardinality(still \cup begun) =
                Cardinality(still) + Cardinality(begun) - Cardinality(still \cap begun)
      BY <1>2, FS_Union
    <2>4. Cardinality(still) \in Nat /\ Cardinality(begun) \in Nat
      BY <1>2, FS_CardinalityType
    <2>5. QED
      BY <2>2, <2>3, <2>4, <1>2
  <1>4. begun # {} => Pumped(lane).active <= lane.maxConcurrent
    <2>1. begun # {} => PumpCount(lane) # 0
      BY <1>2, FS_EmptySet
    <2>2. Len(lane.queue) \in Nat
      BY LenProperties DEF LaneType
    <2>3. QED
      BY <2>1, <2>2, PumpFacts
  <1>5. Pumped(lane).active = Cardinality(still \cup begun)
    BY <1>3, PumpFacts
  <1>6. QED
    BY <1>1, <1>3, <1>4, <1>5 DEF begun

\* A pushed entry is new to its lane.
LEMMA PushFacts ==
    ASSUME NEW E, NEW lane \in LaneType(E), NEW t \in E,
           Injective(lane.queue), t \notin Range(lane.queue)
    PROVE  /\ Pushed(lane, t) \in LaneType(E)
           /\ Pushed(lane, t).active = lane.active
           /\ Pushed(lane, t).maxConcurrent = lane.maxConcurrent
           /\ Injective(Pushed(lane, t).queue)
           /\ Range(Pushed(lane, t).queue) = Range(lane.queue) \cup {t}
           /\ Len(lane.queue) <= Len(Pushed(lane, t).queue)
           /\ \A i \in 1..Len(lane.queue) : Pushed(lane, t).queue[i] = lane.queue[i]
  <1> DEFINE q == lane.queue
             p == Append(q, t)
  <1>1. q \in Seq(E) /\ lane.active \in Nat /\ lane.maxConcurrent \in Nat \ {0}
    BY DEF LaneType
  <1>2. Pushed(lane, t) = [queue |-> p, active |-> lane.active,
                           maxConcurrent |-> lane.maxConcurrent]
    BY DEF Pushed, Lane
  <1> HIDE DEF q
  <1>3. /\ p \in Seq(E) /\ Len(p) = Len(q) + 1 /\ Len(q) \in Nat
        /\ DOMAIN q = 1..Len(q) /\ DOMAIN p = 1..(Len(q) + 1)
        /\ \A i \in 1..Len(q) : p[i] = q[i]
        /\ p[Len(q) + 1] = t
    BY <1>1, AppendProperties, LenProperties
  <1> HIDE DEF p
  <1>4. Range(p) = Range(q) \cup {t}
    BY <1>3 DEF Range
  <1>5. \A i \in 1..Len(q) : q[i] # t
    BY <1>3 DEF Range, q
  <1>6. Injective(p)
    <2> SUFFICES ASSUME NEW i \in 1..Len(p), NEW j \in 1..Len(p), p[i] = p[j]
                 PROVE  i = j
      BY DEF Injective
    <2>1. \A a, b \in 1..Len(q) : q[a] = q[b] => a = b
      BY DEF Injective, q
    <2>2. QED
      BY <2>1, <1>3, <1>5
  <1>7. [queue |-> p, active |-> lane.active,
         maxConcurrent |-> lane.maxConcurrent] \in LaneType(E)
    BY <1>1, <1>3 DEF LaneType
  <1>8. QED
    BY <1>2, <1>3, <1>4, <1>6, <1>7 DEF q

\* A queue to which another one is appended.
LEMMA ConcatFacts ==
    ASSUME NEW E, NEW p \in Seq(E), NEW q \in Seq(E),
           Injective(p), Injective(q), Range(p) \cap Range(q) = {}
    PROVE  /\ p \o q \in Seq(E) /\ Injective(p \o q)
           /\ Range(p \o q) = Range(p) \cup Range(q)
  <1> DEFINE c == p \o q
  <1>1. /\ c \in Seq(E) /\ Len(c) = Len(p) + Len(q)
        /\ \A i \in 1..(Len(p) + Len(q)) : c[i] = IF i <= Len(p) THEN p[i] ELSE q[i - Len(p)]
    BY ConcatProperties
  <1> HIDE DEF c
  <1>2. /\ Len(p) \in Nat /\ DOMAIN p = 1..Len(p)
        /\ Len(q) \in Nat /\ DOMAIN q = 1..Len(q)
        /\ DOMAIN c = 1..Len(c)
    BY <1>1, LenProperties
  <1>3. /\ \A i \in 1..Len(p) : i \in 1..Len(c) /\ c[i] = p[i]
        /\ \A i \in 1..Len(q) : Len(p) + i \in 1..Len(c) /\ c[Len(p) + i] = q[i]
        /\ \A i \in 1..Len(c) : i > Len(p) => i - Len(p) \in 1..Len(q) /\ c[i] = q[i - Len(p)]
    <2>1. ASSUME NEW i \in 1..Len(p) PROVE i \in 1..Len(c) /\ c[i] = p[i]
      BY <1>1, <1>2
    <2>2. ASSUME NEW i \in 1..Len(q)
          PROVE  Len(p) + i \in 1..Len(c) /\ c[Len(p) + i] = q[i]
      <3>1. /\ Len(p) + i \in 1..(Len(p) + Len(q)) /\ ~(Len(p) + i <= Len(p))
            /\ (Len(p) + i) - Len(p) = i
        BY <1>2
      <3>2. c[Len(p) + i] = q[(Len(p) + i) - Len(p)]
        BY <1>1, <3>1
      <3>3. QED
        BY <1>1, <3>1, <3>2
    <2>3. ASSUME NEW i \in 1..Len(c), i > Len(p)
          PROVE  i - Len(p) \in 1..Len(q) /\ c[i] = q[i - Len(p)]
      <3>1. i \in 1..(Len(p) + Len(q)) /\ ~(i <= Len(p))
        BY <1>1, <1>2, <2>3
      <3>2. i - Len(p) \in 1..Len(q)
        BY <1>2, <3>1
      <3>3. c[i] = q[i - Len(p)]
        BY <1>1, <3>1
      <3>4. QED
        BY <3>2, <3>3
    <2>4. QED
      BY <2>1, <2>2, <2>3
  <1>4. \A i \in 1..Len(p), j \in 1..Len(q) : p[i] # q[j]
    BY <1>2 DEF Range
  <1>5. ASSUME NEW i \in 1..Len(c), NEW j \in 1..Len(c), c[i] = c[j]
        PROVE  i = j
    <2>1. CASE i <= Len(p) /\ j <= Len(p)
      BY <1>2, <1>3, <1>5, <2>1 DEF Injective
    <2>2. CASE i > Len(p) /\ j > Len(p)
      <3>1. i - Len(p) = j - Len(p)
        <4>1. /\ i - Len(p) \in 1..Len(q) /\ j - Len(p) \in 1..Len(q)
              /\ q[i - Len(p)] = q[j - Len(p)]
          BY <1>3, <1>5, <2>2
        <4>2. QED
          BY <4>1 DEF Injective
      <3>2. QED
        BY <3>1, <1>1, <1>2
    <2>3. CASE i <= Len(p) /\ j > Len(p)
      BY <1>2, <1>3, <1>4, <1>5, <2>3
    <2>4. CASE i > Len(p) /\ j <= Len(p)
      BY <1>2, <1>3, <1>4, <1>5, <2>4
    <2>5. QED
      BY <1>1, <1>2, <2>1, <2>2, <2>3, <2>4
  <1>6. Range(c) = Range(p) \cup Range(q)
    <2>1. Range(c) \subseteq Range(p) \cup Range(q)
      <3> SUFFICES ASSUME NEW i \in 1..Len(c) PROVE c[i] \in Range(p) \cup Range(q)
        BY <1>2 DEF Range
      <3>1. CASE i <= Len(p)
        BY <1>2, <1>3, <3>1 DEF Range
      <3>2. CASE i > Len(p)
        BY <1>2, <1>3, <3>2 DEF Range
      <3>3. QED
        BY <1>2, <3>1, <3>2
    <2>2. Range(p) \cup Range(q) \subseteq Range(c)
      <3>1. \A i \in 1..Len(p) : p[i] \in Range(c)
        BY <1>2, <1>3 DEF Range
      <3>2. \A i \in 1..Len(q) : q[i] \in Range(c)
        <4>1. \A k \in 1..Len(c) : c[k] \in Range(c)
          BY <1>2 DEF Range
        <4>2. QED
          BY <1>3, <4>1
      <3>3. QED
        BY <1>2, <3>1, <3>2 DEF Range
    <2>3. QED
      BY <2>1, <2>2
  <1>7. QED
    BY <1>1, <1>5, <1>6 DEF Injective, c

-----------------------------------------------------------------------------
(* The lanes.                                                              *)

Occupants(l) == Queued(l) \cup running[l]

\* What drainLane does to the lane it is called on, and that it touches no
\* other: the premises are what each caller has established before the call.
LEMMA DrainFacts ==
    ASSUME NEW l \in Lanes, NEW lane \in LaneType(Tasks), NEW still \in SUBSET Tasks,
           IsFiniteSet(still), lane.active = Cardinality(still),
           Injective(lane.queue), Range(lane.queue) \cap still = {},
           lanes \in [Lanes -> LaneType(Tasks)], running \in [Lanes -> SUBSET Tasks],
           Drain(l, lane, still)
    PROVE  /\ lanes' \in [Lanes -> LaneType(Tasks)]
           /\ running' \in [Lanes -> SUBSET Tasks]
           /\ \A m \in Lanes \ {l} : lanes'[m] = lanes[m] /\ running'[m] = running[m]
           /\ IsFiniteSet(running'[l])
           /\ lanes'[l].active = Cardinality(running'[l])
           /\ Injective(lanes'[l].queue)
           /\ Occupants(l)' = Range(lane.queue) \cup still
           /\ Queued(l)' \cap running'[l] = {}
           /\ lanes'[l].queue # <<>> => lanes'[l].active >= lanes'[l].maxConcurrent
           /\ running'[l] # still => lanes'[l].active <= lanes'[l].maxConcurrent
  <1> DEFINE begun == Range(Started(lane))
  <1>1. /\ lanes'[l] = Pumped(lane) /\ running'[l] = still \cup begun
        /\ \A m \in Lanes \ {l} : lanes'[m] = lanes[m] /\ running'[m] = running[m]
    BY DEF Drain
  <1>2. Pumped(lane) \in LaneType(Tasks)
    BY PumpFacts
  <1>3. /\ begun \subseteq Tasks
        /\ IsFiniteSet(still \cup begun)
        /\ Pumped(lane).active = Cardinality(still \cup begun)
        /\ begun # {} => Pumped(lane).active <= lane.maxConcurrent
    BY PumpOccupies
  <1>4. lanes' \in [Lanes -> LaneType(Tasks)]
    BY <1>2 DEF Drain
  <1>5. running' \in [Lanes -> SUBSET Tasks]
    BY <1>3 DEF Drain
  <1>6. /\ Injective(Pumped(lane).queue)
        /\ begun \cup Range(Pumped(lane).queue) = Range(lane.queue)
        /\ begun \cap Range(Pumped(lane).queue) = {}
    BY PumpMoves
  <1> HIDE DEF begun
  <1>8. lanes'[l].active = Cardinality(running'[l]) /\ IsFiniteSet(running'[l])
    BY <1>1, <1>3
  <1>9. Occupants(l)' = Range(lane.queue) \cup still
    BY <1>1, <1>6 DEF Occupants, Queued
  <1>10. Queued(l)' \cap running'[l] = {}
    BY <1>1, <1>6 DEF Queued
  <1>11. lanes'[l].queue # <<>> => lanes'[l].active >= lanes'[l].maxConcurrent
    <2> SUFFICES ASSUME Pumped(lane).queue # <<>>
                 PROVE  Pumped(lane).active >= Pumped(lane).maxConcurrent
      BY <1>1
    <2>1. Pumped(lane).queue \in Seq(Tasks)
      BY <1>2 DEF LaneType
    <2>2. Len(Pumped(lane).queue) # 0
      BY <2>1, EmptySeq
    <2>3. Len(lane.queue) \in Nat
      BY LenProperties DEF LaneType
    <2>4. QED
      BY <2>2, <2>3, PumpFacts
  <1>12. running'[l] # still => lanes'[l].active <= lanes'[l].maxConcurrent
    BY <1>1, <1>3, PumpFacts
  <1>13. QED
    BY <1>1, <1>4, <1>5, <1>6, <1>8, <1>9, <1>10, <1>11, <1>12

-----------------------------------------------------------------------------
LaneInv == TypeOK /\ SlotsExact /\ OnePlace /\ NoIdleBacklog

\* OnePlace, split into what concerns one lane, two lanes and the promises.
LEMMA OnePlaceParts ==
    OnePlace <=> /\ \A l \in Lanes : Injective(lanes[l].queue)
                 /\ \A l \in Lanes : Queued(l) \cap running[l] = {}
                 /\ \A l, m \in Lanes : l # m => Occupants(l) \cap Occupants(m) = {}
                 /\ \A l \in Lanes : \A t \in Occupants(l) : promise[t] = "pending"
  BY Zenon DEF OnePlace, Injective, Occupants

\* A drained lane next to untouched ones: what a step must still show is that
\* the occupants of the drained lane are its own and have pending promises.
LEMMA DrainKeepsInv ==
    ASSUME LaneInv,
           NEW l \in Lanes, NEW lane \in LaneType(Tasks), NEW still \in SUBSET Tasks,
           IsFiniteSet(still), lane.active = Cardinality(still),
           Injective(lane.queue), Range(lane.queue) \cap still = {},
           Drain(l, lane, still),
           promise' \in [Tasks -> {"none", "pending"} \cup Outcomes],
           \A m \in Lanes \ {l} :
              /\ (Range(lane.queue) \cup still) \cap Occupants(m) = {}
              /\ \A t \in Occupants(m) : promise'[t] = "pending",
           \A t \in Range(lane.queue) \cup still : promise'[t] = "pending"
    PROVE  LaneInv'
  <1>1. /\ lanes \in [Lanes -> LaneType(Tasks)]
        /\ running \in [Lanes -> SUBSET Tasks]
    BY DEF LaneInv, TypeOK
  <1>2. /\ lanes' \in [Lanes -> LaneType(Tasks)]
        /\ running' \in [Lanes -> SUBSET Tasks]
        /\ \A m \in Lanes \ {l} : lanes'[m] = lanes[m] /\ running'[m] = running[m]
        /\ IsFiniteSet(running'[l])
        /\ lanes'[l].active = Cardinality(running'[l])
        /\ Injective(lanes'[l].queue)
        /\ Occupants(l)' = Range(lane.queue) \cup still
        /\ Queued(l)' \cap running'[l] = {}
        /\ lanes'[l].queue # <<>> => lanes'[l].active >= lanes'[l].maxConcurrent
    BY <1>1, DrainFacts
  <1>3. TypeOK'
    BY <1>2 DEF TypeOK
  <1>4. SlotsExact'
    BY <1>2 DEF LaneInv, SlotsExact
  <1>5. NoIdleBacklog'
    BY <1>2 DEF LaneInv, NoIdleBacklog
  <1>6. \A m \in Lanes \ {l} : Occupants(m)' = Occupants(m) /\ Queued(m)' = Queued(m)
    BY <1>2 DEF Occupants, Queued
  <1>7. /\ \A m \in Lanes : Injective(lanes[m].queue)
        /\ \A m \in Lanes : Queued(m) \cap running[m] = {}
        /\ \A m, k \in Lanes : m # k => Occupants(m) \cap Occupants(k) = {}
    BY OnePlaceParts DEF LaneInv
  <1>8. \A m \in Lanes : Injective(lanes'[m].queue) /\ Queued(m)' \cap running'[m] = {}
    BY <1>2, <1>6, <1>7
  <1>9. \A m, k \in Lanes : m # k => Occupants(m)' \cap Occupants(k)' = {}
    BY <1>2, <1>6, <1>7
  <1>10. \A m \in Lanes : \A t \in Occupants(m)' : promise'[t] = "pending"
    BY <1>2, <1>6
  <1>11. OnePlace'
    BY <1>8, <1>9, <1>10, Zenon DEF OnePlace, Injective, Occupants
  <1>12. QED
    BY <1>3, <1>4, <1>5, <1>11 DEF LaneInv

\* LaneInv for one lane, in the form the lemmas about Drain need.
LEMMA LaneFacts ==
    ASSUME LaneInv, NEW l \in Lanes
    PROVE  /\ lanes[l] \in LaneType(Tasks) /\ running[l] \in SUBSET Tasks
           /\ IsFiniteSet(running[l]) /\ lanes[l].active = Cardinality(running[l])
           /\ Injective(lanes[l].queue)
           /\ Queued(l) \cap running[l] = {}
           /\ \A m \in Lanes \ {l} : Occupants(l) \cap Occupants(m) = {}
           /\ \A m \in Lanes : \A t \in Occupants(m) : promise[t] = "pending"
  BY OnePlaceParts DEF LaneInv, TypeOK, SlotsExact

(* The steps: order, limit and callers.                                    *)

FifoStep ==
    \A l \in Lanes : \A i, j \in 1..Len(lanes[l].queue) :
        (i < j /\ lanes[l].queue[j] \in running'[l]) => lanes[l].queue[i] \in running'[l]
LimitStep ==
    \A l \in Lanes : running'[l] \ running[l] # {} =>
        Cardinality(running'[l]) <= lanes'[l].maxConcurrent
ClearStep ==
    \A t \in Tasks :
        /\ Abandoned(t) => Abandoned(t)'
        /\ ~Abandoned(t) /\ Abandoned(t)' =>
              \E l \in Lanes : t \in Queued(l) /\ lanes'[l].queue = <<>>
DisciplineStep == FifoStep /\ LimitStep /\ ClearStep

\* A drain is disciplined if its caller put nothing before what was queued,
\* and every task it added or took away is pending only while it is in place.
LEMMA DrainIsDisciplined ==
    ASSUME LaneInv,
           NEW l \in Lanes, NEW lane \in LaneType(Tasks), NEW still \in SUBSET running[l],
           IsFiniteSet(still), lane.active = Cardinality(still),
           Injective(lane.queue), Range(lane.queue) \cap still = {},
           Drain(l, lane, still),
           Len(lanes[l].queue) <= Len(lane.queue),
           \A i \in 1..Len(lanes[l].queue) : lane.queue[i] = lanes[l].queue[i],
           \A t \in Tasks :
              \/ /\ promise'[t] = promise[t]
                 /\ t \in Range(lane.queue) \cup still <=> t \in Occupants(l)
              \/ promise[t] # "pending" /\ t \in Range(lane.queue) \cup still
              \/ promise'[t] # "pending" /\ t \in Occupants(l)
    PROVE  DisciplineStep
  <1>1. /\ \A m \in Lanes \ {l} : lanes'[m] = lanes[m] /\ running'[m] = running[m]
        /\ lanes'[l].active = Cardinality(running'[l])
        /\ Occupants(l)' = Range(lane.queue) \cup still
        /\ running'[l] # still => lanes'[l].active <= lanes'[l].maxConcurrent
    <2>1. still \in SUBSET Tasks
      BY LaneFacts
    <2>2. QED
      BY <2>1, DrainFacts DEF LaneInv, TypeOK
  <1>2. \A m \in Lanes : /\ lanes[m].queue \in Seq(Tasks)
                         /\ Len(lanes[m].queue) \in Nat
                         /\ DOMAIN lanes[m].queue = 1..Len(lanes[m].queue)
                         /\ Queued(m) \cap running[m] = {}
    BY LaneFacts, LenProperties DEF LaneType
  <1>3. FifoStep
    <2> SUFFICES ASSUME NEW m \in Lanes,
                        NEW i \in 1..Len(lanes[m].queue), NEW j \in 1..Len(lanes[m].queue),
                        i < j, lanes[m].queue[j] \in running'[m]
                 PROVE  lanes[m].queue[i] \in running'[m]
      BY DEF FifoStep
    <2>1. lanes[m].queue[j] \notin running[m]
      BY <1>2 DEF Queued, Range
    <2>2. m = l
      BY <1>1, <2>1
    <2>3. running'[l] = still \cup Range(Started(lane))
      BY DEF Drain, LaneInv, TypeOK
    <2>4. lane.queue[j] \in Range(Started(lane))
      BY <2>1, <2>2, <2>3
    <2>5. Len(lane.queue) \in Nat /\ i \in 1..Len(lane.queue) /\ j \in 1..Len(lane.queue)
      <3>1. Len(lane.queue) \in Nat
        BY LenProperties DEF LaneType
      <3>2. QED
        BY <3>1, <1>2, <2>2
    <2>6. lane.queue[i] \in Range(Started(lane))
      BY <2>4, <2>5, StartedIsHead
    <2>7. QED
      BY <2>2, <2>3, <2>6
  <1>4. LimitStep
    BY <1>1 DEF LimitStep
  <1>5. ClearStep
    <2>1. \A m \in Lanes \ {l} : Occupants(m)' = Occupants(m)
      BY <1>1 DEF Occupants, Queued
    <2>2. \A m \in Lanes : \A t \in Occupants(m) : promise[t] = "pending"
      BY LaneFacts
    <2>3. \A t \in Tasks : Abandoned(t)' <=> Abandoned(t)
      <3>1. \A t \in Tasks : Abandoned(t) <=>
               promise[t] = "pending" /\ \A m \in Lanes : t \notin Occupants(m)
        BY DEF Abandoned, Occupants
      <3>2. \A t \in Tasks : Abandoned(t)' <=>
               promise'[t] = "pending" /\ \A m \in Lanes : t \notin Occupants(m)'
        BY DEF Abandoned, Occupants
      <3>3. QED
        BY <3>1, <3>2, <1>1, <2>1
    <2>4. QED
      BY <2>3 DEF ClearStep
  <1>6. QED
    BY <1>3, <1>4, <1>5 DEF DisciplineStep

\* The gateway starts with empty lanes and callers that have not called.
LEMMA InitInv == Init => LaneInv
  <1> SUFFICES ASSUME Init PROVE LaneInv
    OBVIOUS
  <1>1. NewLane \in LaneType(Tasks) /\ NewLane.queue = <<>> /\ NewLane.active = 0
    BY EmptySeq DEF NewLane, Lane, LaneType
  <1>2. \A l \in Lanes : lanes[l].queue = <<>> /\ running[l] = {} /\ lanes[l].active = 0
    BY <1>1 DEF Init
  <1>3. TypeOK
    BY <1>1 DEF Init, TypeOK
  <1>4. SlotsExact
    BY <1>2, FS_EmptySet DEF SlotsExact
  <1>5. Len(<<>>) = 0 /\ Range(<<>>) = {}
    BY EmptySeq DEF Range
  <1>6. OnePlace
    BY <1>2, <1>5 DEF OnePlace, Queued
  <1>7. NoIdleBacklog
    BY <1>2 DEF NoIdleBacklog
  <1>8. QED
    BY <1>3, <1>4, <1>6, <1>7 DEF LaneInv

\* Only tasks wait or run in a lane (command-queue.ts:110 is the one push).
LEMMA OccupantsAreTasks ==
    ASSUME LaneInv, NEW m \in Lanes
    PROVE  Occupants(m) \subseteq Tasks
  <1>1. lanes[m].queue \in Seq(Tasks)
    BY LaneFacts DEF LaneType
  <1>2. Range(lanes[m].queue) \subseteq Tasks
    BY <1>1, LenProperties, ElementOfSeq DEF Range
  <1>3. QED
    BY <1>2, LaneFacts DEF Occupants, Queued

\* enqueueCommandInLane keeps the invariant: the entry is new, and the pump
\* that follows leaves its lane saturated (command-queue.ts:110-131).
LEMMA EnqueueKeepsInv ==
    ASSUME LaneInv, NEW l \in Lanes, NEW t \in Tasks, Enqueue(l, t)
    PROVE  LaneInv' /\ DisciplineStep
  <1> DEFINE lane == Pushed(lanes[l], t)
  <1>1. /\ promise[t] = "none" /\ promise' = [promise EXCEPT ![t] = "pending"]
        /\ Drain(l, lane, running[l])
    BY DEF Enqueue
  <1>2. promise \in [Tasks -> {"none", "pending"} \cup Outcomes]
    BY DEF LaneInv, TypeOK
  <1>3. \A m \in Lanes : t \notin Occupants(m)
    BY <1>1, LaneFacts
  <1>4. t \notin Range(lanes[l].queue) /\ t \notin running[l]
    BY <1>3 DEF Occupants, Queued
  <1>5. /\ lane \in LaneType(Tasks) /\ lane.active = lanes[l].active
        /\ Injective(lane.queue)
        /\ Range(lane.queue) = Range(lanes[l].queue) \cup {t}
        /\ Len(lanes[l].queue) <= Len(lane.queue)
        /\ \A i \in 1..Len(lanes[l].queue) : lane.queue[i] = lanes[l].queue[i]
    <2>1. /\ lanes[l] \in LaneType(Tasks) /\ Injective(lanes[l].queue)
          /\ t \notin Range(lanes[l].queue)
      BY <1>4, LaneFacts
    <2>2. QED
      <3> DEFINE before == lanes[l]
      <3>1. /\ before \in LaneType(Tasks) /\ Injective(before.queue)
            /\ t \notin Range(before.queue)
        BY <2>1
      <3> HIDE DEF before
      <3>2. /\ Pushed(before, t) \in LaneType(Tasks)
            /\ Pushed(before, t).active = before.active
            /\ Injective(Pushed(before, t).queue)
            /\ Range(Pushed(before, t).queue) = Range(before.queue) \cup {t}
            /\ Len(before.queue) <= Len(Pushed(before, t).queue)
            /\ \A i \in 1..Len(before.queue) :
                  Pushed(before, t).queue[i] = before.queue[i]
        BY <3>1, PushFacts
      <3>3. QED
        BY <3>2 DEF before
  <1> HIDE DEF lane
  <1>6. Range(lane.queue) \cup running[l] = Occupants(l) \cup {t}
    BY <1>5 DEF Occupants, Queued
  <1>7. Range(lane.queue) \cap running[l] = {}
    BY <1>4, <1>5, LaneFacts DEF Queued
  <1>8. /\ promise' \in [Tasks -> {"none", "pending"} \cup Outcomes]
        /\ \A m \in Lanes : \A u \in Occupants(m) : promise'[u] = "pending"
        /\ promise'[t] = "pending"
    BY <1>1, <1>2, OccupantsAreTasks, LaneFacts
  <1>9. \A m \in Lanes \ {l} :
           /\ (Range(lane.queue) \cup running[l]) \cap Occupants(m) = {}
           /\ \A u \in Occupants(m) : promise'[u] = "pending"
    BY <1>3, <1>6, <1>8, LaneFacts
  <1>10. \A u \in Range(lane.queue) \cup running[l] : promise'[u] = "pending"
    BY <1>6, <1>8
  <1>11. /\ running[l] \in SUBSET Tasks /\ IsFiniteSet(running[l])
         /\ lane.active = Cardinality(running[l])
    BY <1>5, LaneFacts
  <1>12. LaneInv'
    BY <1>1, <1>5, <1>7, <1>8, <1>9, <1>10, <1>11, DrainKeepsInv
  <1>13. \A u \in Tasks :
            \/ /\ promise'[u] = promise[u]
               /\ u \in Range(lane.queue) \cup running[l] <=> u \in Occupants(l)
            \/ promise[u] # "pending" /\ u \in Range(lane.queue) \cup running[l]
    BY <1>1, <1>2, <1>6
  <1>14. DisciplineStep
    BY <1>1, <1>5, <1>7, <1>11, <1>13, DrainIsDisciplined
  <1>15. QED
    BY <1>12, <1>14

\* The slot of a task that was running can be given back.
LEMMA SettleKeepsInv ==
    ASSUME LaneInv, NEW l \in Lanes, NEW t \in Tasks, NEW outcome \in Outcomes,
           Settle(l, t, outcome)
    PROVE  LaneInv' /\ DisciplineStep
  <1> DEFINE lane == Released(lanes[l])
             still == running[l] \ {t}
  <1>1. /\ t \in running[l] /\ promise' = [promise EXCEPT ![t] = outcome]
        /\ Drain(l, lane, still)
    BY DEF Settle
  <1>2. promise \in [Tasks -> {"none", "pending"} \cup Outcomes]
    BY DEF LaneInv, TypeOK
  <1>3. /\ lanes[l].queue \in Seq(Tasks)
        /\ lanes[l].active \in Nat /\ lanes[l].maxConcurrent \in Nat \ {0}
        /\ running[l] \in SUBSET Tasks /\ IsFiniteSet(running[l])
        /\ lanes[l].active = Cardinality(running[l])
    BY LaneFacts DEF LaneType
  <1>4. IsFiniteSet(still) /\ Cardinality(still) = lanes[l].active - 1
    BY <1>1, <1>3, FS_RemoveElement
  <1>5. Cardinality(still) \in Nat
    BY <1>4, FS_CardinalityType
  <1>6. /\ lane \in LaneType(Tasks) /\ lane.queue = lanes[l].queue
        /\ lane.active = Cardinality(still)
    BY <1>3, <1>4, <1>5 DEF Released, Lane, LaneType
  <1> HIDE DEF lane
  <1>7. /\ Range(lane.queue) \cup still \subseteq Occupants(l)
        /\ t \notin Range(lane.queue) \cup still /\ t \in Occupants(l)
        /\ Range(lane.queue) \cap still = {} /\ Injective(lane.queue)
    BY <1>1, <1>6, LaneFacts DEF Occupants, Queued
  <1>8. promise' \in [Tasks -> {"none", "pending"} \cup Outcomes]
    BY <1>1, <1>2
  <1>9. \A m \in Lanes, u \in Tasks : u \in Occupants(m) /\ u # t => promise'[u] = "pending"
    BY <1>1, <1>2, LaneFacts
  <1>10. \A m \in Lanes : Occupants(m) \subseteq Tasks
    BY OccupantsAreTasks
  <1>11. \A m \in Lanes \ {l} :
           /\ (Range(lane.queue) \cup still) \cap Occupants(m) = {}
           /\ \A u \in Occupants(m) : promise'[u] = "pending"
    BY <1>7, <1>9, <1>10, LaneFacts
  <1>12. \A u \in Range(lane.queue) \cup still : promise'[u] = "pending"
    BY <1>7, <1>9, <1>10
  <1>13. still \in SUBSET Tasks
    BY <1>3
  <1>14. \A u \in Tasks :
            \/ /\ promise'[u] = promise[u]
               /\ u \in Range(lane.queue) \cup still <=> u \in Occupants(l)
            \/ promise'[u] # "pending" /\ u \in Occupants(l)
    BY <1>1, <1>2, <1>6, <1>7 DEF Occupants, Queued, Outcomes
  <1>15. /\ Len(lanes[l].queue) \in Nat
         /\ still \in SUBSET running[l]
    BY <1>3, LenProperties
  <1> HIDE DEF still
  <1>16. LaneInv'
    BY <1>1, <1>4, <1>6, <1>7, <1>8, <1>11, <1>12, <1>13, DrainKeepsInv
  <1>17. DisciplineStep
    BY <1>1, <1>4, <1>6, <1>7, <1>14, <1>15, DrainIsDisciplined
  <1>18. QED
    BY <1>16, <1>17

\* setCommandLaneConcurrency keeps the invariant: a raised limit is used at
\* once, a lowered one only stops further starts (command-queue.ts:92-97).
LEMMA SetConcurrencyKeepsInv ==
    ASSUME LaneInv, NEW l \in Lanes, NEW n \in 0..MaxConcurrency, SetConcurrency(l, n)
    PROVE  LaneInv' /\ DisciplineStep
  <1> DEFINE lane == Resized(lanes[l], n)
  <1>1. promise' = promise /\ Drain(l, lane, running[l])
    BY DEF SetConcurrency
  <1>2. /\ lanes[l].queue \in Seq(Tasks)
        /\ lanes[l].active \in Nat
        /\ running[l] \in SUBSET Tasks /\ IsFiniteSet(running[l])
        /\ lanes[l].active = Cardinality(running[l])
    BY LaneFacts DEF LaneType
  <1>3. (IF n < 1 THEN 1 ELSE n) \in Nat \ {0}
    BY LanesAssumption
  <1>4. /\ lane \in LaneType(Tasks) /\ lane.queue = lanes[l].queue
        /\ lane.active = lanes[l].active
    BY <1>2, <1>3 DEF Resized, Lane, LaneType
  <1> HIDE DEF lane
  <1>5. /\ Range(lane.queue) \cup running[l] = Occupants(l)
        /\ Range(lane.queue) \cap running[l] = {} /\ Injective(lane.queue)
    BY <1>4, LaneFacts DEF Occupants, Queued
  <1>6. promise' \in [Tasks -> {"none", "pending"} \cup Outcomes]
    BY <1>1 DEF LaneInv, TypeOK
  <1>7. LaneInv'
    BY <1>1, <1>2, <1>4, <1>5, <1>6, LaneFacts, DrainKeepsInv
  <1>8. Len(lanes[l].queue) \in Nat
    BY <1>2, LenProperties
  <1>9. DisciplineStep
    BY <1>1, <1>2, <1>4, <1>5, <1>8, DrainIsDisciplined
  <1>10. QED
    BY <1>7, <1>9

\* clearCommandLane keeps the invariant although its callers keep waiting
\* (command-queue.ts:151-160).
LEMMA ClearKeepsInv ==
    ASSUME LaneInv, NEW l \in Lanes, Clear(l)
    PROVE  LaneInv' /\ DisciplineStep
  <1>1. /\ lanes \in [Lanes -> LaneType(Tasks)]
        /\ lanes' = [lanes EXCEPT ![l] = Cleared(lanes[l])]
        /\ running' = running /\ promise' = promise
    BY DEF Clear, LaneInv, TypeOK
  <1>2. /\ Cleared(lanes[l]) \in LaneType(Tasks) /\ Cleared(lanes[l]).queue = <<>>
        /\ Cleared(lanes[l]).active = lanes[l].active
    BY <1>1, EmptySeq DEF Cleared, Lane, LaneType
  <1>3. /\ lanes'[l].queue = <<>> /\ lanes'[l].active = lanes[l].active
        /\ \A m \in Lanes \ {l} : lanes'[m] = lanes[m]
    BY <1>1, <1>2
  <1>4. Len(<<>>) = 0 /\ Range(<<>>) = {}
    BY EmptySeq DEF Range
  <1>5. TypeOK'
    BY <1>1, <1>2 DEF LaneInv, TypeOK
  <1>6. SlotsExact'
    BY <1>1, <1>3 DEF LaneInv, SlotsExact
  <1>7. OnePlace'
    <2>1. \A m \in Lanes : Queued(m)' \subseteq Queued(m)
      BY <1>3, <1>4 DEF Queued
    <2>2. \A m \in Lanes : Injective(lanes'[m].queue)
      BY <1>3, <1>4, LaneFacts DEF Injective
    <2>3. \A m \in Lanes : Queued(m)' \cap running'[m] = {}
      BY <1>1, <2>1, LaneFacts
    <2>4. \A m \in Lanes : Occupants(m)' \subseteq Occupants(m)
      BY <1>1, <2>1 DEF Occupants
    <2>5. \A m, k \in Lanes : m # k => Occupants(m)' \cap Occupants(k)' = {}
      BY <2>4, LaneFacts
    <2>6. \A m \in Lanes : \A t \in Occupants(m)' : promise'[t] = "pending"
      BY <1>1, <2>4, LaneFacts
    <2>7. QED
      BY <2>2, <2>3, <2>5, <2>6, Zenon DEF OnePlace, Injective, Occupants
  <1>8. NoIdleBacklog'
    BY <1>3 DEF LaneInv, NoIdleBacklog
  <1>9. DisciplineStep
    <2>1. FifoStep
      BY <1>1, LaneFacts DEF FifoStep, Queued, Range, LaneType
    <2>2. LimitStep
      BY <1>1 DEF LimitStep
    <2>3. \A t \in Tasks : Abandoned(t) => Abandoned(t)'
      BY <1>1, <1>3, <1>4 DEF Abandoned, Queued
    <2>4. ASSUME NEW t \in Tasks, ~Abandoned(t), Abandoned(t)'
          PROVE  t \in Queued(l)
      BY <1>1, <1>3, <2>4 DEF Abandoned, Queued
    <2>5. QED
      BY <1>3, <2>1, <2>2, <2>3, <2>4 DEF DisciplineStep, ClearStep
  <1>10. QED
    BY <1>5, <1>6, <1>7, <1>8, <1>9 DEF LaneInv

\* Every step of the lanes keeps the four invariants together.
LEMMA LaneInvInductive == LaneInv /\ [Next]_vars => LaneInv' /\ [DisciplineStep]_vars
  <1> SUFFICES ASSUME LaneInv, [Next]_vars PROVE LaneInv' /\ [DisciplineStep]_vars
    OBVIOUS
  <1>1. ASSUME NEW l \in Lanes, NEW t \in Tasks, Enqueue(l, t)
        PROVE  LaneInv' /\ DisciplineStep
    BY <1>1, EnqueueKeepsInv
  <1>2. ASSUME NEW t \in Tasks, Finish(t) PROVE LaneInv' /\ DisciplineStep
    BY <1>2, SettleKeepsInv DEF Finish
  <1>3. ASSUME NEW l \in Lanes, NEW n \in 0..MaxConcurrency, SetConcurrency(l, n)
        PROVE  LaneInv' /\ DisciplineStep
    BY <1>3, SetConcurrencyKeepsInv
  <1>4. ASSUME NEW l \in Lanes, Clear(l) PROVE LaneInv' /\ DisciplineStep
    BY <1>4, ClearKeepsInv
  <1>5. CASE UNCHANGED vars
    BY <1>5 DEF vars, LaneInv, TypeOK, SlotsExact, OnePlace, NoIdleBacklog, Queued
  <1>6. QED
    BY <1>1, <1>2, <1>3, <1>4, <1>5 DEF Next

-----------------------------------------------------------------------------
\* The four invariants of the lanes hold for any lanes, tasks and limits.
LEMMA LaneInvariant == Spec => []LaneInv
  BY InitInv, LaneInvInductive, PTL DEF Spec

\* Type correctness: in particular active never becomes negative.
THEOREM TypeCorrect == Spec => []TypeOK
  <1>1. LaneInv => TypeOK
    BY DEF LaneInv
  <1>2. QED
    BY <1>1, LaneInvariant, PTL

\* active counts the running tasks exactly, so no slot leaks and none is
\* released twice (command-queue.ts:62, 67, 74).
THEOREM SlotsAreExact == Spec => []SlotsExact
  <1>1. LaneInv => SlotsExact
    BY DEF LaneInv
  <1>2. QED
    BY <1>1, LaneInvariant, PTL

\* A task waits in one place of one queue or runs in one lane, never both.
THEOREM TasksHaveOnePlace == Spec => []OnePlace
  <1>1. LaneInv => OnePlace
    BY DEF LaneInv
  <1>2. QED
    BY <1>1, LaneInvariant, PTL

\* No backlog waits next to a free slot: every caller of drainLane leaves the
\* lane saturated or empty.
THEOREM LanesNeverIdle == Spec => []NoIdleBacklog
  <1>1. LaneInv => NoIdleBacklog
    BY DEF LaneInv
  <1>2. QED
    BY <1>1, LaneInvariant, PTL

\* Whatever a step does, nobody overtakes inside a lane, no task starts above
\* the limit, and only a clear leaves a caller without an answer
\* (command-queue.ts:58-84, 151-160).
THEOREM LanesAreDisciplined == Spec => LaneDiscipline
  <1>1. DisciplineStep => FifoStep /\ LimitStep /\ ClearStep
    BY DEF DisciplineStep
  <1>2. Spec => [][FifoStep]_vars /\ [][LimitStep]_vars /\ [][ClearStep]_vars
    BY <1>1, LaneInvariant, LaneInvInductive, PTL DEF Spec
  <1>3. Fifo <=> [][FifoStep]_vars
    BY DEF Fifo, FifoStep
  <1>4. NoStartOverLimit <=> [][LimitStep]_vars
    BY DEF NoStartOverLimit, LimitStep
  <1>5. OnlyClearAbandons <=> [][ClearStep]_vars
    BY DEF OnlyClearAbandons, ClearStep
  <1>6. QED
    BY <1>2, <1>3, <1>4, <1>5, PTL DEF LaneDiscipline
=============================================================================
