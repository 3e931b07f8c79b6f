--------------------------- MODULE AgentRuns_proofs ---------------------------
(***************************************************************************)
(* Proofs about AgentRuns, for any sessions, runs and waiters, any number  *)
(* of attempts and any limit of the global lane.                           *)
(*                                                                         *)
(* The invariant ties each lane to the phases: a run waits in the queue of *)
(* its session exactly while its phase is inSession, and in the queue of   *)
(* the global lane exactly while it is inMain, so what a pump starts is    *)
(* what its caller expects; each count is the number of the holders; and a *)
(* session lane has one slot.  That the handle is a live attempt's needs   *)
(* the last of these: a second run of the session would replace it.        *)
(***************************************************************************)
EXTENDS AgentRuns, FiniteSetTheorems, SequenceTheorems, TLAPS

-----------------------------------------------------------------------------
(* One lane.  The lemmas about its transitions are those of CommandLanes,  *)
(* for any entries: here they are restated for the operators of this model.*)

Lanes == INSTANCE CommandLanes_proofs
    WITH Lanes <- Sessions, Tasks <- Runs, MaxConcurrency <- MaxLimit,
         lanes <- sessionLane, running <- [s \in Sessions |-> Holders(s)],
         promise <- phase

Injective(queue) == \A i, j \in 1..Len(queue) : queue[i] = queue[j] => i = j

\* The operators of the instance are those of this model.
LEMMA SameLanes ==
    ASSUME NEW lane, NEW E, NEW t
    PROVE  /\ Lanes!PumpCount(lane) = PumpCount(lane)
           /\ Lanes!Pumped(lane) = Pumped(lane)
           /\ Lanes!Started(lane) = Started(lane)
           /\ Lanes!Pushed(lane, t) = Pushed(lane, t)
           /\ Lanes!LaneType(E) = LaneType(E)
           /\ Lanes!Injective(t) <=> Injective(t)
           /\ Lanes!Range(t) = Range(t)
           /\ Lanes!IsFiniteSet(t) <=> IsFiniteSet(t)
           /\ Lanes!Cardinality(t) = Cardinality(t)
  <1>1. Lanes!PumpCount(lane) = PumpCount(lane)
    BY DEF Lanes!PumpCount, PumpCount, Lanes!FreeSlots, FreeSlots
  <1>2. Lanes!Pumped(lane) = Pumped(lane)
    BY <1>1 DEF Lanes!Pumped, Pumped, Lanes!Lane, Lane
  <1>3. Lanes!Started(lane) = Started(lane)
    BY <1>1 DEF Lanes!Started, Started
  <1>4. Lanes!Pushed(lane, t) = Pushed(lane, t)
    BY DEF Lanes!Pushed, Pushed, Lanes!Lane, Lane
  <1>5. Lanes!LaneType(E) = LaneType(E) /\ Lanes!Range(t) = Range(t)
    BY DEF Lanes!LaneType, LaneType, Lanes!Range, Range
  <1>6. Lanes!Injective(t) <=> Injective(t)
    BY DEF Lanes!Injective, Injective
  <1>7. Lanes!IsFiniteSet(t) <=> IsFiniteSet(t)
    BY DEF Lanes!IsFiniteSet, IsFiniteSet
  <1>8. Lanes!Cardinality(t) = Cardinality(t)
    BY <1>7 DEF Lanes!Cardinality, Cardinality, Lanes!IsFiniteSet, IsFiniteSet
  <1>9. QED
    BY <1>1, <1>2, <1>3, <1>4, <1>5, <1>6, <1>7, <1>8

\* How far one pump goes, and what it leaves in the queue.
LEMMA PumpFacts ==
    ASSUME NEW E, NEW lane \in LaneType(E)
    PROVE  /\ PumpCount(lane) \in 0..Len(lane.queue)
           /\ Pumped(lane) \in LaneType(E)
           /\ Pumped(lane).active = lane.active + PumpCount(lane)
           /\ Pumped(lane).maxConcurrent = lane.maxConcurrent
           /\ Started(lane) \in Seq(E)
           /\ Len(Started(lane)) = PumpCount(lane)
           /\ PumpCount(lane) > 0 => lane.active + PumpCount(lane) <= lane.maxConcurrent
  <1>1. lane \in Lanes!LaneType(E)
    BY SameLanes
  <1>2. /\ Lanes!PumpCount(lane) \in 0..Len(lane.queue)
        /\ Lanes!Pumped(lane) \in Lanes!LaneType(E)
        /\ Lanes!Pumped(lane).active = lane.active + Lanes!PumpCount(lane)
        /\ Lanes!Pumped(lane).maxConcurrent = lane.maxConcurrent
        /\ Lanes!Started(lane) \in Seq(E)
        /\ Len(Lanes!Started(lane)) = Lanes!PumpCount(lane)
        /\ Lanes!PumpCount(lane) > 0 =>
              lane.active + Lanes!PumpCount(lane) <= lane.maxConcurrent
    BY <1>1, Lanes!PumpFacts, RunsAssumption
  <1>3. QED
    BY <1>2, SameLanes

\* No free slot stays beside work, so that a pump of a lane nobody changed
\* starts nothing.
LEMMA PumpSaturates ==
    ASSUME NEW E, NEW lane \in LaneType(E)
    PROVE  /\ Pumped(lane).queue # <<>> => Pumped(lane).active >= Pumped(lane).maxConcurrent
           /\ (lane.queue # <<>> => lane.active >= lane.maxConcurrent) =>
                 Pumped(lane) = lane /\ Started(lane) = <<>>
  BY Lanes!PumpSaturates, RunsAssumption, SameLanes

\* A pump moves the head of the queue into the running set and loses nothing.
LEMMA PumpMoves ==
    ASSUME NEW E, NEW lane \in LaneType(E), Injective(lane.queue)
    PROVE  /\ Injective(Pumped(lane).queue)
           /\ Range(Started(lane)) \cup Range(Pumped(lane).queue) = Range(lane.queue)
           /\ Range(Started(lane)) \cap Range(Pumped(lane).queue) = {}
           /\ Injective(Started(lane))
  BY Lanes!PumpMoves, RunsAssumption, SameLanes

\* A pump of a lane whose slots are counted exactly, `still' being the entries
\* that hold them: the count stays exact, and a start finds a free slot.
LEMMA PumpOccupies ==
    ASSUME NEW E, NEW lane \in LaneType(E), NEW still \in SUBSET E,
           IsFiniteSet(still), lane.active = Cardinality(still),
           Injective(lane.queue), Range(lane.queue) \cap still = {}
    PROVE  /\ Range(Started(lane)) \subseteq E
           /\ IsFiniteSet(still \cup Range(Started(lane)))
           /\ Pumped(lane).active = Cardinality(still \cup Range(Started(lane)))
           /\ Range(Started(lane)) # {} => Pumped(lane).active <= lane.maxConcurrent
  <1>1. /\ lane \in Lanes!LaneType(E) /\ Lanes!Injective(lane.queue)
        /\ Lanes!IsFiniteSet(still) /\ lane.active = Lanes!Cardinality(still)
        /\ Lanes!Range(lane.queue) \cap still = {}
    BY SameLanes
  <1>2. /\ Lanes!Range(Lanes!Started(lane)) \subseteq E
        /\ Lanes!IsFiniteSet(still \cup Lanes!Range(Lanes!Started(lane)))
        /\ Lanes!Pumped(lane).active =
              Lanes!Cardinality(still \cup Lanes!Range(Lanes!Started(lane)))
        /\ Lanes!Range(Lanes!Started(lane)) # {} =>
              Lanes!Pumped(lane).active <= lane.maxConcurrent
    BY <1>1, Lanes!PumpOccupies, RunsAssumption
  <1>3. QED
    BY <1>2, SameLanes

\* A pushed entry is new to its lane.
LEMMA PushFacts ==
    ASSUME NEW E, NEW lane \in LaneType(E), NEW t \in E,
           Injective(lane.queue), t \notin Range(lane.queue)
    PROVE  /\ Pushed(lane, t) \in LaneType(E)
           /\ Pushed(lane, t).active = lane.active
           /\ Pushed(lane, t).maxConcurrent = lane.maxConcurrent
           /\ Injective(Pushed(lane, t).queue)
           /\ Range(Pushed(lane, t).queue) = Range(lane.queue) \cup {t}
  <1>1. /\ lane \in Lanes!LaneType(E) /\ Lanes!Injective(lane.queue)
        /\ t \notin Lanes!Range(lane.queue)
    BY SameLanes
  <1>2. /\ Lanes!Pushed(lane, t) \in Lanes!LaneType(E)
        /\ Lanes!Pushed(lane, t).active = lane.active
        /\ Lanes!Pushed(lane, t).maxConcurrent = lane.maxConcurrent
        /\ Lanes!Injective(Lanes!Pushed(lane, t).queue)
        /\ Lanes!Range(Lanes!Pushed(lane, t).queue) = Lanes!Range(lane.queue) \cup {t}
    BY <1>1, Lanes!PushFacts, RunsAssumption
  <1>3. QED
    BY <1>2, SameLanes

\* A queue to which another one is appended.
LEMMA ConcatFacts ==
    ASSUME NEW E, NEW p \in Seq(E), NEW q \in Seq(E),
           Injective(p), Injective(q), Range(p) \cap Range(q) = {}
    PROVE  /\ p \o q \in Seq(E) /\ Injective(p \o q)
           /\ Range(p \o q) = Range(p) \cup Range(q)
  <1>1. /\ Lanes!Injective(p) /\ Lanes!Injective(q)
        /\ Lanes!Range(p) \cap Lanes!Range(q) = {}
    BY SameLanes
  <1>2. /\ p \o q \in Seq(E) /\ Lanes!Injective(p \o q)
        /\ Lanes!Range(p \o q) = Lanes!Range(p) \cup Lanes!Range(q)
    BY <1>1, Lanes!ConcatFacts, RunsAssumption
  <1>3. QED
    BY <1>2, SameLanes

-----------------------------------------------------------------------------
(* The invariant.                                                          *)

Waiting(s) == {r \in Runs : home[r] = s /\ phase[r] = "inSession"}
Parked == {r \in Runs : phase[r] = "inMain"}

SessionLaneOK(s) ==
    /\ sessionLane[s].maxConcurrent = 1 /\ sessionLane[s].active <= 1
    /\ Injective(sessionLane[s].queue)
    /\ Range(sessionLane[s].queue) = Waiting(s)
    /\ IsFiniteSet(Holders(s))
    /\ sessionLane[s].active = Cardinality(Holders(s))

MainLaneOK ==
    /\ Injective(mainLane.queue)
    /\ Range(mainLane.queue) = Parked
    /\ IsFiniteSet(Bodies)
    /\ mainLane.active = Cardinality(Bodies)
    /\ mainLane.queue # <<>> => mainLane.active >= mainLane.maxConcurrent

SubmittedHaveHome == \A r \in Runs : home[r] \in Sessions <=> phase[r] # "new"

WaitersHaveRun ==
    \A w \in Waiters : waiter[w].state = "waiting" =>
        /\ waiter[w].run \in Runs
        /\ home[waiter[w].run] \in Sessions
        /\ registry[home[waiter[w].run]] = waiter[w].run

\* A run that has yet to make an attempt, or another one, was not aborted.
NotAborted ==
    \A r \in Runs :
        phase[r] \in {"new", "inSession", "inMain", "starting"} => flags[r] # {"aborted"}

LanesInv ==
    /\ TypeOK /\ SubmittedHaveHome /\ MainLaneOK
    /\ \A s \in Sessions : SessionLaneOK(s)
RunsInv == LanesInv /\ HandleIsLive /\ WaitersHaveRun /\ NotAborted

-----------------------------------------------------------------------------
(* The two pumps.                                                          *)

InPhase(settled, P) == {r \in Runs : settled[r] \in P}

\* The pump of the global lane moves parked runs only.
PhasesPumped(settled) ==
    \A r \in Runs : \/ phase'[r] = settled[r]
                    \/ settled[r] = "inMain" /\ phase'[r] = "starting"

\* What a pump of the global lane leaves, if before it the lane matches the
\* phases that the caller has settled.
LEMMA PumpMainFacts ==
    ASSUME NEW rest \in LaneType(Runs), NEW settled \in [Runs -> Phases],
           Injective(rest.queue), Range(rest.queue) = InPhase(settled, {"inMain"}),
           IsFiniteSet(InPhase(settled, Executing)),
           rest.active = Cardinality(InPhase(settled, Executing)),
           PumpMain(rest, settled)
    PROVE  /\ mainLane' \in LaneType(Runs) /\ phase' \in [Runs -> Phases]
           /\ mainLane'.maxConcurrent = rest.maxConcurrent
           /\ MainLaneOK'
           /\ PhasesPumped(settled)
           /\ Bodies' = InPhase(settled, Executing) \cup Range(Started(rest))
           /\ Bodies' # InPhase(settled, Executing) =>
                 Cardinality(Bodies') <= mainLane'.maxConcurrent
  <1> DEFINE begun == Range(Started(rest))
             still == InPhase(settled, Executing)
  <1>1. still \in SUBSET Runs /\ Range(rest.queue) \cap still = {}
    BY DEF InPhase, Executing
  <1>2. /\ begun \subseteq Runs
        /\ IsFiniteSet(still \cup begun)
        /\ Pumped(rest).active = Cardinality(still \cup begun)
        /\ begun # {} => Pumped(rest).active <= rest.maxConcurrent
    <2> HIDE DEF still
    <2>1. QED
      BY <1>1, PumpOccupies DEF still
  <1>3. /\ Injective(Pumped(rest).queue)
        /\ begun \cup Range(Pumped(rest).queue) = Range(rest.queue)
        /\ begun \cap Range(Pumped(rest).queue) = {}
    BY PumpMoves
  <1>4. /\ Pumped(rest) \in LaneType(Runs)
        /\ Pumped(rest).maxConcurrent = rest.maxConcurrent
        /\ Pumped(rest).queue # <<>> => Pumped(rest).active >= Pumped(rest).maxConcurrent
    BY PumpFacts, PumpSaturates
  <1>5. /\ mainLane' = Pumped(rest)
        /\ phase' = [r \in Runs |-> IF r \in begun THEN "starting" ELSE settled[r]]
    BY DEF PumpMain
  <1> HIDE DEF begun
  <1>6. \A r \in begun : settled[r] = "inMain"
    BY <1>3 DEF InPhase
  <1>7. phase' \in [Runs -> Phases]
    BY <1>5 DEF Phases, HoldsSession, Executing
  <1>8. Bodies' = still \cup begun
    BY <1>2, <1>5 DEF Bodies, InPhase, Executing
  <1>9. Range(Pumped(rest).queue) = Parked'
    BY <1>3, <1>5 DEF Parked, InPhase
  <1>10. MainLaneOK'
    BY <1>2, <1>3, <1>4, <1>5, <1>8, <1>9 DEF MainLaneOK
  <1>11. PhasesPumped(settled)
    BY <1>5, <1>6 DEF PhasesPumped
  <1>12. Bodies' # still => Cardinality(Bodies') <= mainLane'.maxConcurrent
    BY <1>2, <1>4, <1>5, <1>8
  <1>13. mainLane' \in LaneType(Runs) /\ mainLane'.maxConcurrent = rest.maxConcurrent
    BY <1>4, <1>5
  <1>14. Bodies' = still \cup Range(Started(rest))
    BY <1>8 DEF begun
  <1> HIDE DEF still
  <1>15. QED
    BY <1>7, <1>10, <1>11, <1>12, <1>13, <1>14, Zenon DEF still

\* The pump of a session lane, which pumps the global lane too: its runs go on
\* to the global lane, and from there parked runs may begin.
SessionPumped(s, settled) ==
    \A r \in Runs :
        \/ phase'[r] = settled[r]
        \/ settled[r] = "inMain" /\ phase'[r] = "starting"
        \/ /\ settled[r] = "inSession" /\ home'[r] = s
           /\ phase'[r] \in {"inMain", "starting"}

\* The runs of the session after the caller's change, by where they stand.
Of(s, settled, P) == {r \in Runs : home'[r] = s /\ settled[r] \in P}

\* What that pump does to both lanes, `still' being the runs that hold the slots
\* of the session's lane as the caller hands it over.
Parking(lane, admitted) ==
    Lane(lane.queue \o admitted, lane.active, lane.maxConcurrent)
SessionPumps(s, rest, still) ==
    LET admitted == Started(rest)
    IN  /\ sessionLane' = [sessionLane EXCEPT ![s] = Pumped(rest)]
        /\ Holders(s)' = still \cup Range(admitted)
        /\ \A t \in Sessions \ {s} : Holders(t)' = Holders(t)
        /\ admitted \in Seq(Runs) /\ Len(admitted) <= 1
        /\ Range(admitted) \cap (Parked \cup Bodies) = {}
        /\ mainLane' = Pumped(Parking(mainLane, admitted))
        /\ Bodies' = Bodies \cup Range(Started(Parking(mainLane, admitted)))
        /\ Parked' \cup Bodies' = Parked \cup Bodies \cup Range(admitted)

\* The premises: the lane that the caller hands over matches the phases it has
\* settled, and the caller has changed nothing of the global lane and of the
\* other sessions.
LEMMA PumpSessionFacts ==
    ASSUME LanesInv, NEW s \in Sessions,
           NEW rest \in LaneType(Runs), NEW settled \in [Runs -> Phases],
           rest.maxConcurrent = 1, rest.active <= 1, Injective(rest.queue),
           Range(rest.queue) = Of(s, settled, {"inSession"}),
           IsFiniteSet(Of(s, settled, HoldsSession)),
           rest.active = Cardinality(Of(s, settled, HoldsSession)),
           InPhase(settled, {"inMain"}) = Parked,
           InPhase(settled, Executing) = Bodies,
           \A r \in Runs : home[r] # s /\ home'[r] # s =>
              home'[r] = home[r] /\ settled[r] = phase[r],
           \A r \in Runs : home[r] # home'[r] => home[r] \notin Sessions /\ home'[r] = s,
           PumpSession(s, rest, settled)
    PROVE  /\ sessionLane' \in [Sessions -> LaneType(Runs)]
           /\ mainLane' \in LaneType(Runs) /\ phase' \in [Runs -> Phases]
           /\ mainLane'.maxConcurrent = mainLane.maxConcurrent
           /\ MainLaneOK' /\ \A t \in Sessions : SessionLaneOK(t)'
           /\ SessionPumped(s, settled)
           /\ SessionPumps(s, rest, Of(s, settled, HoldsSession))
           /\ Bodies' # Bodies => Cardinality(Bodies') <= mainLane'.maxConcurrent
  <1> DEFINE admitted == Started(rest)
             rest2 == Parking(mainLane, admitted)
             settled2 == [r \in Runs |->
                            IF r \in Range(admitted) THEN "inMain" ELSE settled[r]]
             held == Of(s, settled, HoldsSession)
  <1>1. /\ sessionLane \in [Sessions -> LaneType(Runs)] /\ mainLane \in LaneType(Runs)
        /\ Injective(mainLane.queue) /\ Range(mainLane.queue) = Parked
        /\ IsFiniteSet(Bodies) /\ mainLane.active = Cardinality(Bodies)
        /\ \A t \in Sessions : SessionLaneOK(t)
    BY DEF LanesInv, TypeOK, MainLaneOK
  <1>2. /\ sessionLane' = [sessionLane EXCEPT ![s] = Pumped(rest)]
        /\ PumpMain(rest2, settled2)
    BY DEF PumpSession, Parking
  <1>3. /\ Pumped(rest) \in LaneType(Runs) /\ Pumped(rest).maxConcurrent = 1
        /\ admitted \in Seq(Runs) /\ Len(admitted) = PumpCount(rest)
        /\ PumpCount(rest) > 0 => rest.active + PumpCount(rest) <= rest.maxConcurrent
        /\ PumpCount(rest) \in Nat
    <2>1. Len(rest.queue) \in Nat
      BY LenProperties DEF LaneType
    <2>2. QED
      BY <2>1, PumpFacts
  <1>4. /\ Injective(Pumped(rest).queue)
        /\ Range(admitted) \cup Range(Pumped(rest).queue) = Range(rest.queue)
        /\ Range(admitted) \cap Range(Pumped(rest).queue) = {}
        /\ Injective(admitted)
    BY PumpMoves
  <1>5. \A r \in Range(admitted) : r \in Runs /\ settled[r] = "inSession" /\ home'[r] = s
    BY <1>4 DEF Of
  <1>6. /\ rest2.queue = mainLane.queue \o admitted /\ rest2.active = mainLane.active
        /\ rest2.maxConcurrent = mainLane.maxConcurrent
        /\ rest2 \in LaneType(Runs) /\ Injective(rest2.queue)
        /\ Range(rest2.queue) = Parked \cup Range(admitted)
    <2>1. /\ mainLane.queue \in Seq(Runs) /\ mainLane.active \in Nat
          /\ mainLane.maxConcurrent \in Nat \ {0}
      BY <1>1 DEF LaneType
    <2>2. Range(mainLane.queue) \cap Range(admitted) = {}
      BY <1>1, <1>5 DEF InPhase
    <2> HIDE DEF admitted
    <2>3. /\ mainLane.queue \o admitted \in Seq(Runs)
          /\ Injective(mainLane.queue \o admitted)
          /\ Range(mainLane.queue \o admitted) = Range(mainLane.queue) \cup Range(admitted)
      BY <1>1, <1>3, <1>4, <2>1, <2>2, ConcatFacts
    <2>4. QED
      BY <1>1, <2>1, <2>3 DEF Parking, Lane, LaneType
  <1> HIDE DEF rest2, admitted
  <1>7. /\ settled2 \in [Runs -> Phases]
        /\ InPhase(settled2, {"inMain"}) = Parked \cup Range(admitted)
        /\ InPhase(settled2, Executing) = Bodies
    <2>1. settled2 \in [Runs -> Phases]
      BY DEF Phases, HoldsSession
    <2>2. InPhase(settled2, {"inMain"}) = InPhase(settled, {"inMain"}) \cup Range(admitted)
      BY <1>5 DEF InPhase
    <2>3. InPhase(settled2, Executing) = InPhase(settled, Executing)
      BY <1>5 DEF InPhase, Executing
    <2>4. QED
      BY <2>1, <2>2, <2>3
  <1>8. /\ \A r \in Range(admitted) : settled2[r] = "inMain"
        /\ \A r \in Runs \ Range(admitted) : settled2[r] = settled[r]
    BY <1>5
  <1> HIDE DEF settled2
  <1>9. /\ mainLane' \in LaneType(Runs) /\ phase' \in [Runs -> Phases]
        /\ mainLane'.maxConcurrent = mainLane.maxConcurrent
        /\ MainLaneOK' /\ PhasesPumped(settled2)
        /\ Bodies' = Bodies \cup Range(Started(rest2))
        /\ Bodies' # Bodies => Cardinality(Bodies') <= mainLane'.maxConcurrent
    BY <1>1, <1>2, <1>6, <1>7, PumpMainFacts
  <1>10. SessionPumped(s, settled)
    BY <1>5, <1>8, <1>9 DEF SessionPumped, PhasesPumped
  <1>11. sessionLane' \in [Sessions -> LaneType(Runs)]
    BY <1>1, <1>2, <1>3
  <1>12. ASSUME NEW t \in Sessions \ {s} PROVE SessionLaneOK(t)' /\ Holders(t)' = Holders(t)
    <2>1. sessionLane'[t] = sessionLane[t]
      BY <1>1, <1>2
    <2>2. \A r \in Runs : home'[r] = t <=> home[r] = t
      OBVIOUS
    <2>3. \A r \in Runs : home[r] = t =>
             \/ phase'[r] = phase[r]
             \/ phase[r] = "inMain" /\ phase'[r] = "starting"
      BY <1>10, <2>2 DEF SessionPumped
    <2>4. Waiting(t)' = Waiting(t) /\ Holders(t)' = Holders(t)
      BY <2>2, <2>3 DEF Waiting, Holders, HoldsSession, Executing
    <2>5. SessionLaneOK(t)
      BY <1>1
    <2>6. QED
      BY <2>1, <2>4, <2>5 DEF SessionLaneOK
  <1>13. SessionLaneOK(s)' /\ Holders(s)' = held \cup Range(admitted)
    <2>1. held \in SUBSET Runs /\ Range(rest.queue) \cap held = {}
      BY DEF Of, HoldsSession, Executing
    <2> HIDE DEF held
    <2>2. /\ IsFiniteSet(held \cup Range(admitted))
          /\ Pumped(rest).active = Cardinality(held \cup Range(admitted))
          /\ Range(admitted) # {} => Pumped(rest).active <= rest.maxConcurrent
      BY <2>1, PumpOccupies DEF held, admitted
    <2>3. Pumped(rest).active <= 1
      <3>1. CASE Range(admitted) = {}
        <4>1. held \cup Range(admitted) = held
          BY <3>1
        <4>2. QED
          BY <2>2, <4>1 DEF held
      <3>2. CASE Range(admitted) # {}
        BY <2>2, <3>2
      <3>3. QED
        BY <3>1, <3>2
    <2>4. Waiting(s)' = Range(Pumped(rest).queue)
      <3>1. \A r \in Runs : phase'[r] = "inSession" <=> settled2[r] = "inSession"
        BY <1>9 DEF PhasesPumped
      <3>2. \A r \in Runs : settled2[r] = "inSession" <=>
               settled[r] = "inSession" /\ r \notin Range(admitted)
        BY <1>8
      <3>3. Waiting(s)' = Of(s, settled, {"inSession"}) \ Range(admitted)
        BY <3>1, <3>2 DEF Waiting, Of
      <3>4. QED
        BY <1>4, <3>3
    <2>5. Holders(s)' = held \cup Range(admitted)
      <3>1. \A r \in Runs : phase'[r] \in HoldsSession <=> settled2[r] \in HoldsSession
        BY <1>9 DEF PhasesPumped, HoldsSession, Executing
      <3>2. \A r \in Runs : settled2[r] \in HoldsSession <=>
               settled[r] \in HoldsSession \/ r \in Range(admitted)
        BY <1>5, <1>8 DEF HoldsSession
      <3>3. QED
        BY <1>5, <3>1, <3>2 DEF Holders, Of, held
    <2>6. sessionLane'[s] = Pumped(rest)
      BY <1>1, <1>2
    <2>7. QED
      BY <1>3, <1>4, <2>2, <2>3, <2>4, <2>5, <2>6 DEF SessionLaneOK
  <1>14. SessionPumps(s, rest, Of(s, settled, HoldsSession))
    <2>1. Len(admitted) <= 1
      <3>1. rest.active \in Nat
        BY DEF LaneType
      <3>2. QED
        BY <1>3, <3>1
    <2>2. Range(admitted) \cap (Parked \cup Bodies) = {}
      <3>1. \A r \in Parked \cup Bodies : settled[r] # "inSession"
        BY DEF InPhase, Executing
      <3>2. QED
        BY <1>5, <3>1
    <2>3. mainLane' = Pumped(rest2)
      BY <1>2 DEF PumpMain
    <2>4. Parked' \cup Bodies' = Parked \cup Bodies \cup Range(admitted)
      <3>1. Parked' \cup Bodies' = {r \in Runs : phase'[r] \in Executing \cup {"inMain"}}
        BY DEF Parked, Bodies
      <3>2. \A r \in Runs : phase'[r] \in Executing \cup {"inMain"} <=>
                              settled2[r] \in Executing \cup {"inMain"}
        BY <1>9 DEF PhasesPumped, Executing
      <3>3. Parked' \cup Bodies' =
               InPhase(settled2, {"inMain"}) \cup InPhase(settled2, Executing)
        BY <3>1, <3>2 DEF InPhase
      <3>4. QED
        BY <1>7, <3>3
    <2>5. Holders(s)' = Of(s, settled, HoldsSession) \cup Range(admitted)
      BY <1>13
    <2>6. \A t \in Sessions \ {s} : Holders(t)' = Holders(t)
      BY <1>12
    <2>7. QED
      BY <1>2, <1>3, <1>9, <2>1, <2>2, <2>3, <2>4, <2>5, <2>6
         DEF SessionPumps, rest2, admitted
  <1> HIDE DEF held
  <1>15. QED
    BY <1>9, <1>10, <1>11, <1>12, <1>13, <1>14

-----------------------------------------------------------------------------
(* The steps of the lanes.                                                 *)

\* How a step that is no clear moves a run, and what it may start.
RunMoves(r) ==
    \/ phase'[r] = phase[r]
    \/ phase[r] = "new" /\ phase'[r] \in {"inSession", "inMain", "starting"}
    \/ phase[r] = "inSession" /\ phase'[r] \in {"inMain", "starting"}
    \/ phase[r] = "inMain" /\ phase'[r] = "starting"
    \/ phase[r] \in Executing /\ phase'[r] \in Executing \cup {"leaving"}
    \/ phase[r] = "leaving" /\ phase'[r] = "done"
Scheduled ==
    /\ \A r \in Runs : RunMoves(r)
    /\ \A r \in Runs : home'[r] # home[r] => phase[r] = "new" /\ home'[r] \in Sessions
    /\ Bodies' \ Bodies # {} => Cardinality(Bodies') <= mainLane'.maxConcurrent

BeforeAttempt == {"new", "inSession", "inMain", "starting"}

\* The handles, the waiters and the flags do not mind a step of the lanes.
LEMMA LaneStepKeepsHandles ==
    ASSUME RunsInv, UNCHANGED <<registry, waiter, flags>>,
           \A r \in Runs : home'[r] # home[r] => phase[r] = "new",
           \A r \in Runs : phase'[r] = "active" <=> phase[r] = "active",
           \A r \in Runs : phase'[r] \in BeforeAttempt => phase[r] \in BeforeAttempt
    PROVE  HandleIsLive' /\ WaitersHaveRun' /\ NotAborted'
  <1>0. \A r \in Runs : phase[r] # "new" => home'[r] = home[r]
    OBVIOUS
  <1>1. HandleIsLive /\ WaitersHaveRun /\ NotAborted
    BY DEF RunsInv
  <1>2. HandleIsLive'
    BY <1>0, <1>1 DEF HandleIsLive
  <1>3. WaitersHaveRun'
    <2> SUFFICES ASSUME NEW w \in Waiters, waiter[w].state = "waiting"
                 PROVE  /\ waiter[w].run \in Runs
                        /\ home'[waiter[w].run] \in Sessions
                        /\ registry[home'[waiter[w].run]] = waiter[w].run
      BY DEF WaitersHaveRun
    <2>1. /\ waiter[w].run \in Runs
          /\ home[waiter[w].run] \in Sessions
          /\ registry[home[waiter[w].run]] = waiter[w].run
      BY <1>1 DEF WaitersHaveRun
    <2>2. phase[waiter[w].run] = "active"
      BY <1>1, <2>1 DEF HandleIsLive
    <2>3. QED
      BY <1>0, <2>1, <2>2
  <1>4. NotAborted'
    BY <1>1 DEF NotAborted, BeforeAttempt
  <1>5. QED
    BY <1>2, <1>3, <1>4

\* runEmbeddedPiAgent is called: the run joins the queue of its session, and
\* goes on at once if the lanes let it (run.ts:71, lanes.ts).
LEMMA SubmitKeepsInv ==
    ASSUME RunsInv, NEW r \in Runs, NEW s \in Sessions, Submit(r, s)
    PROVE  /\ RunsInv' /\ Scheduled
           /\ SessionPumps(s, Pushed(sessionLane[s], r), Holders(s))
  <1> DEFINE lane == sessionLane[s]
             rest == Pushed(lane, r)
             settled == [phase EXCEPT ![r] = "inSession"]
  <1>1. /\ phase[r] = "new" /\ home' = [home EXCEPT ![r] = s]
        /\ PumpSession(s, rest, settled)
        /\ UNCHANGED <<attempts, flags, registry, waiter>>
    BY DEF Submit
  <1>2. /\ LanesInv /\ TypeOK /\ SubmittedHaveHome /\ SessionLaneOK(s)
        /\ phase \in [Runs -> Phases] /\ lane \in LaneType(Runs)
        /\ home \in [Runs -> Sessions \cup {NoSession}]
    BY DEF RunsInv, LanesInv, TypeOK
  <1>3. /\ settled \in [Runs -> Phases] /\ settled[r] = "inSession"
        /\ \A q \in Runs \ {r} : settled[q] = phase[q]
    BY <1>2 DEF Phases
  <1>4. /\ home'[r] = s /\ home[r] \notin Sessions
        /\ \A q \in Runs \ {r} : home'[q] = home[q]
    BY <1>1, <1>2 DEF SubmittedHaveHome
  <1> HIDE DEF settled
  <1>5. /\ Of(s, settled, {"inSession"}) = Waiting(s) \cup {r}
        /\ Of(s, settled, HoldsSession) = Holders(s)
        /\ InPhase(settled, {"inMain"}) = Parked
        /\ InPhase(settled, Executing) = Bodies
    BY <1>1, <1>3, <1>4 DEF Of, Waiting, Holders, InPhase, Parked, Bodies,
                            HoldsSession, Executing
  <1>6. /\ rest \in LaneType(Runs) /\ rest.maxConcurrent = 1 /\ rest.active <= 1
        /\ Injective(rest.queue) /\ Range(rest.queue) = Waiting(s) \cup {r}
        /\ rest.active = Cardinality(Holders(s)) /\ IsFiniteSet(Holders(s))
    <2>1. r \notin Waiting(s)
      BY <1>1 DEF Waiting
    <2>2. /\ Injective(lane.queue) /\ Range(lane.queue) = Waiting(s)
          /\ lane.maxConcurrent = 1 /\ lane.active <= 1
          /\ lane.active = Cardinality(Holders(s)) /\ IsFiniteSet(Holders(s))
      BY <1>2 DEF SessionLaneOK
    <2>3. lane \in LaneType(Runs) /\ r \notin Range(lane.queue)
      BY <1>2, <2>1, <2>2
    <2> HIDE DEF lane
    <2>4. /\ rest \in LaneType(Runs) /\ rest.active = lane.active
          /\ rest.maxConcurrent = lane.maxConcurrent
          /\ Injective(rest.queue) /\ Range(rest.queue) = Range(lane.queue) \cup {r}
      BY <2>2, <2>3, PushFacts
    <2>5. QED
      BY <2>2, <2>4
  <1> HIDE DEF rest
  <1>7. /\ sessionLane' \in [Sessions -> LaneType(Runs)]
        /\ mainLane' \in LaneType(Runs) /\ phase' \in [Runs -> Phases]
        /\ MainLaneOK' /\ \A t \in Sessions : SessionLaneOK(t)'
        /\ SessionPumped(s, settled)
        /\ SessionPumps(s, rest, Holders(s))
        /\ Bodies' # Bodies => Cardinality(Bodies') <= mainLane'.maxConcurrent
    <2>1. /\ LanesInv /\ settled \in [Runs -> Phases] /\ PumpSession(s, rest, settled)
      BY <1>1, <1>2, <1>3
    <2>2. /\ Range(rest.queue) = Of(s, settled, {"inSession"})
          /\ IsFiniteSet(Of(s, settled, HoldsSession))
          /\ rest.active = Cardinality(Of(s, settled, HoldsSession))
      BY <1>5, <1>6
    <2>3. /\ \A q \in Runs : home[q] # s /\ home'[q] # s =>
                home'[q] = home[q] /\ settled[q] = phase[q]
          /\ \A q \in Runs : home[q] # home'[q] => home[q] \notin Sessions /\ home'[q] = s
      BY <1>3, <1>4
    <2>4. QED
      BY <1>5, <1>6, <2>1, <2>2, <2>3, PumpSessionFacts
  <1>8. TypeOK'
    BY <1>1, <1>2, <1>7 DEF TypeOK
  <1>9. /\ phase'[r] \in {"inSession", "inMain", "starting"}
        /\ \A q \in Runs \ {r} : \/ phase'[q] = phase[q]
                                 \/ phase[q] = "inMain" /\ phase'[q] = "starting"
                                 \/ /\ phase[q] = "inSession"
                                    /\ phase'[q] \in {"inMain", "starting"}
    BY <1>3, <1>7 DEF SessionPumped
  <1>10. SubmittedHaveHome'
    BY <1>2, <1>4, <1>9 DEF SubmittedHaveHome
  <1>11. Scheduled
    BY <1>1, <1>4, <1>7, <1>9 DEF Scheduled, RunMoves
  <1>12. HandleIsLive' /\ WaitersHaveRun' /\ NotAborted'
    BY <1>1, <1>4, <1>9, LaneStepKeepsHandles DEF BeforeAttempt
  <1>13. RunsInv'
    BY <1>7, <1>8, <1>10, <1>12 DEF RunsInv, LanesInv
  <1>14. QED
    BY <1>7, <1>11, <1>13 DEF rest

\* A pump of the global lane alone, in which the caller's change gives up the
\* slot of some body or none: the session lanes keep their holders.
LEMMA MainPumpKeepsInv ==
    ASSUME RunsInv,
           NEW rest \in LaneType(Runs), NEW settled \in [Runs -> Phases],
           rest.queue = mainLane.queue,
           IsFiniteSet(InPhase(settled, Executing)),
           rest.active = Cardinality(InPhase(settled, Executing)),
           \A r \in Runs : \/ settled[r] = phase[r]
                           \/ /\ phase[r] \in {"starting", "between"}
                              /\ settled[r] = "leaving",
           PumpMain(rest, settled),
           UNCHANGED <<sessionLane, home, attempts, flags, registry, waiter>>
    PROVE  /\ RunsInv' /\ Scheduled /\ PhasesPumped(settled)
           /\ Bodies' = InPhase(settled, Executing) \cup Range(Started(rest))
  <1>1. /\ LanesInv /\ TypeOK /\ SubmittedHaveHome /\ MainLaneOK
        /\ \A s \in Sessions : SessionLaneOK(s)
        /\ phase \in [Runs -> Phases]
    BY DEF RunsInv, LanesInv, TypeOK
  <1>2. InPhase(settled, {"inMain"}) = Parked
    BY DEF InPhase, Parked
  <1>3. Injective(rest.queue) /\ Range(rest.queue) = InPhase(settled, {"inMain"})
    BY <1>1, <1>2 DEF MainLaneOK
  <1>4. /\ mainLane' \in LaneType(Runs) /\ phase' \in [Runs -> Phases]
        /\ MainLaneOK' /\ PhasesPumped(settled)
        /\ Bodies' = InPhase(settled, Executing) \cup Range(Started(rest))
        /\ Bodies' # InPhase(settled, Executing) =>
              Cardinality(Bodies') <= mainLane'.maxConcurrent
    BY <1>3, PumpMainFacts
  <1>5. \A r \in Runs : \/ phase'[r] = phase[r]
                        \/ phase[r] = "inMain" /\ phase'[r] = "starting"
                        \/ phase[r] \in {"starting", "between"} /\ phase'[r] = "leaving"
    BY <1>4 DEF PhasesPumped
  <1>6. TypeOK' /\ SubmittedHaveHome'
    BY <1>1, <1>4, <1>5 DEF TypeOK, SubmittedHaveHome
  <1>7. ASSUME NEW s \in Sessions PROVE SessionLaneOK(s)'
    <2>1. Waiting(s)' = Waiting(s) /\ Holders(s)' = Holders(s)
      BY <1>5 DEF Waiting, Holders, HoldsSession, Executing
    <2>2. QED
      BY <1>1, <2>1 DEF SessionLaneOK
  <1>8. HandleIsLive' /\ WaitersHaveRun' /\ NotAborted'
    BY <1>5, LaneStepKeepsHandles DEF BeforeAttempt
  <1>9. Scheduled
    <2>1. InPhase(settled, Executing) \subseteq Bodies
      BY DEF InPhase, Bodies, Executing
    <2>2. Bodies' \ Bodies # {} => Cardinality(Bodies') <= mainLane'.maxConcurrent
      BY <1>4, <2>1
    <2>3. \A r \in Runs : RunMoves(r)
      BY <1>5 DEF RunMoves, Executing
    <2>4. QED
      BY <2>2, <2>3 DEF Scheduled
  <1>10. QED
    BY <1>4, <1>6, <1>7, <1>8, <1>9 DEF RunsInv, LanesInv

\* The body of a run ends between attempts: one slot, given back once.
LEMMA EndBodyKeepsInv ==
    ASSUME RunsInv, NEW r \in Runs, phase[r] \in {"starting", "between"}, EndBody(r)
    PROVE  /\ RunsInv' /\ Scheduled /\ PhasesPumped([phase EXCEPT ![r] = "leaving"])
           /\ Bodies' = (Bodies \ {r}) \cup Range(Started(Released(mainLane)))
  <1> DEFINE rest == Released(mainLane)
             settled == [phase EXCEPT ![r] = "leaving"]
  <1>1. /\ PumpMain(rest, settled)
        /\ UNCHANGED <<sessionLane, home, attempts, flags, registry, waiter>>
    BY DEF EndBody
  <1>2. /\ phase \in [Runs -> Phases] /\ mainLane \in LaneType(Runs)
        /\ IsFiniteSet(Bodies) /\ mainLane.active = Cardinality(Bodies)
    BY DEF RunsInv, LanesInv, TypeOK, MainLaneOK
  <1>3. /\ settled \in [Runs -> Phases] /\ settled[r] = "leaving"
        /\ \A q \in Runs \ {r} : settled[q] = phase[q]
    BY <1>2 DEF Phases, HoldsSession
  <1> HIDE DEF settled
  <1>4. r \in Bodies /\ InPhase(settled, Executing) = Bodies \ {r}
    BY <1>3 DEF Bodies, InPhase, Executing
  <1>5. /\ IsFiniteSet(Bodies \ {r})
        /\ Cardinality(Bodies \ {r}) = mainLane.active - 1
        /\ Cardinality(Bodies \ {r}) \in Nat
    BY <1>2, <1>4, FS_RemoveElement, FS_CardinalityType
  <1>6. /\ rest \in LaneType(Runs) /\ rest.queue = mainLane.queue
        /\ rest.active = Cardinality(Bodies \ {r})
    BY <1>2, <1>5 DEF Released, Lane, LaneType
  <1> HIDE DEF rest
  <1>7. \A q \in Runs : \/ settled[q] = phase[q]
                        \/ phase[q] \in {"starting", "between"} /\ settled[q] = "leaving"
    BY <1>3
  <1>8. /\ RunsInv' /\ Scheduled /\ PhasesPumped(settled)
        /\ Bodies' = (Bodies \ {r}) \cup Range(Started(rest))
    BY <1>1, <1>3, <1>4, <1>5, <1>6, <1>7, MainPumpKeepsInv
  <1>9. QED
    BY <1>8 DEF settled, rest

\* setCommandLaneConcurrency on the global lane.
LEMMA SetMainConcurrencyKeepsInv ==
    ASSUME RunsInv, NEW n \in 1..MaxLimit, SetMainConcurrency(n)
    PROVE  /\ RunsInv' /\ Scheduled /\ PhasesPumped(phase)
           /\ Bodies' = Bodies \cup Range(Started(Resized(mainLane, n)))
  <1> DEFINE rest == Resized(mainLane, n)
  <1>1. /\ PumpMain(rest, phase)
        /\ UNCHANGED <<sessionLane, home, attempts, flags, registry, waiter>>
    BY DEF SetMainConcurrency
  <1>2. /\ phase \in [Runs -> Phases] /\ mainLane \in LaneType(Runs)
        /\ IsFiniteSet(Bodies) /\ mainLane.active = Cardinality(Bodies)
    BY DEF RunsInv, LanesInv, TypeOK, MainLaneOK
  <1>3. InPhase(phase, Executing) = Bodies
    BY DEF InPhase, Bodies
  <1>4. (IF n < 1 THEN 1 ELSE n) \in Nat \ {0}
    BY RunsAssumption
  <1>5. /\ rest \in LaneType(Runs) /\ rest.queue = mainLane.queue
        /\ rest.active = mainLane.active
    BY <1>2, <1>4 DEF Resized, Lane, LaneType
  <1> HIDE DEF rest
  <1>6. /\ RunsInv' /\ Scheduled /\ PhasesPumped(phase)
        /\ Bodies' = Bodies \cup Range(Started(rest))
    BY <1>1, <1>2, <1>3, <1>5, MainPumpKeepsInv
  <1>7. QED
    BY <1>6 DEF rest

\* The wrapper in the session lane settles: the session's one slot is free.
LEMMA LeaveSessionKeepsInv ==
    ASSUME RunsInv, NEW r \in Runs, LeaveSession(r)
    PROVE  /\ RunsInv' /\ Scheduled
           /\ SessionPumps(home[r], Released(sessionLane[home[r]]), Holders(home[r]) \ {r})
  <1> DEFINE s == home[r]
             lane == sessionLane[s]
             rest == Released(lane)
             settled == [phase EXCEPT ![r] = "done"]
  <1>1. /\ phase[r] = "leaving" /\ PumpSession(s, rest, settled)
        /\ UNCHANGED <<home, attempts, flags, registry, waiter>>
    BY DEF LeaveSession
  <1>2. /\ LanesInv /\ TypeOK /\ SubmittedHaveHome /\ s \in Sessions
        /\ phase \in [Runs -> Phases]
    BY <1>1 DEF RunsInv, LanesInv, TypeOK, SubmittedHaveHome
  <1>3. lane \in LaneType(Runs) /\ SessionLaneOK(s)
    BY <1>2 DEF LanesInv, TypeOK
  <1>4. /\ settled \in [Runs -> Phases] /\ settled[r] = "done"
        /\ \A q \in Runs \ {r} : settled[q] = phase[q]
    BY <1>2 DEF Phases
  <1> HIDE DEF settled
  <1>5. /\ Of(s, settled, {"inSession"}) = Waiting(s)
        /\ Of(s, settled, HoldsSession) = Holders(s) \ {r} /\ r \in Holders(s)
        /\ InPhase(settled, {"inMain"}) = Parked
        /\ InPhase(settled, Executing) = Bodies
    BY <1>1, <1>4 DEF Of, Waiting, Holders, InPhase, Parked, Bodies,
                      HoldsSession, Executing
  <1>6. /\ IsFiniteSet(Holders(s) \ {r})
        /\ Cardinality(Holders(s) \ {r}) = lane.active - 1
        /\ Cardinality(Holders(s) \ {r}) \in Nat
    BY <1>3, <1>5, FS_RemoveElement, FS_CardinalityType DEF SessionLaneOK
  <1>7. /\ Injective(lane.queue) /\ Range(lane.queue) = Waiting(s)
        /\ lane.maxConcurrent = 1 /\ lane.active <= 1
    BY <1>3 DEF SessionLaneOK
  <1>8. /\ rest \in LaneType(Runs) /\ rest.queue = lane.queue
        /\ rest.maxConcurrent = lane.maxConcurrent
        /\ rest.active = Cardinality(Holders(s) \ {r}) /\ rest.active <= 1
    BY <1>3, <1>6, <1>7 DEF Released, Lane, LaneType
  <1>9. \A q \in Runs : home[q] # s => settled[q] = phase[q]
    BY <1>4
  <1> HIDE DEF s, lane, rest
  <1>10. /\ sessionLane' \in [Sessions -> LaneType(Runs)]
         /\ mainLane' \in LaneType(Runs) /\ phase' \in [Runs -> Phases]
         /\ MainLaneOK' /\ \A t \in Sessions : SessionLaneOK(t)'
         /\ SessionPumped(s, settled)
         /\ SessionPumps(s, rest, Holders(s) \ {r})
         /\ Bodies' # Bodies => Cardinality(Bodies') <= mainLane'.maxConcurrent
    <2>1. /\ LanesInv /\ s \in Sessions /\ settled \in [Runs -> Phases]
          /\ PumpSession(s, rest, settled)
      BY <1>1, <1>2, <1>4
    <2>2. /\ rest.maxConcurrent = 1 /\ Injective(rest.queue)
          /\ Range(rest.queue) = Of(s, settled, {"inSession"})
          /\ IsFiniteSet(Of(s, settled, HoldsSession))
          /\ rest.active = Cardinality(Of(s, settled, HoldsSession))
      BY <1>5, <1>6, <1>7, <1>8
    <2>3. /\ \A q \in Runs : home[q] # s /\ home'[q] # s =>
                home'[q] = home[q] /\ settled[q] = phase[q]
          /\ \A q \in Runs : home[q] # home'[q] => home[q] \notin Sessions /\ home'[q] = s
      BY <1>1, <1>9
    <2>4. /\ InPhase(settled, {"inMain"}) = Parked /\ InPhase(settled, Executing) = Bodies
          /\ rest \in LaneType(Runs) /\ rest.active <= 1
      BY <1>5, <1>8
    <2>5. /\ sessionLane' \in [Sessions -> LaneType(Runs)]
          /\ mainLane' \in LaneType(Runs) /\ phase' \in [Runs -> Phases]
          /\ MainLaneOK' /\ \A t \in Sessions : SessionLaneOK(t)'
          /\ SessionPumped(s, settled)
          /\ SessionPumps(s, rest, Of(s, settled, HoldsSession))
          /\ Bodies' # Bodies => Cardinality(Bodies') <= mainLane'.maxConcurrent
      BY <2>1, <2>2, <2>3, <2>4, PumpSessionFacts
    <2>6. QED
      BY <1>5, <2>5
  <1>11. TypeOK'
    BY <1>1, <1>2, <1>10 DEF TypeOK
  <1>12. /\ phase'[r] = "done"
         /\ \A q \in Runs \ {r} : \/ phase'[q] = phase[q]
                                  \/ phase[q] = "inMain" /\ phase'[q] = "starting"
                                  \/ /\ phase[q] = "inSession"
                                     /\ phase'[q] \in {"inMain", "starting"}
    BY <1>4, <1>10 DEF SessionPumped
  <1>13. SubmittedHaveHome'
    BY <1>1, <1>2, <1>12 DEF SubmittedHaveHome
  <1>14. Scheduled
    BY <1>1, <1>10, <1>12 DEF Scheduled, RunMoves
  <1>15. HandleIsLive' /\ WaitersHaveRun' /\ NotAborted'
    BY <1>1, <1>12, LaneStepKeepsHandles DEF BeforeAttempt
  <1>16. RunsInv'
    BY <1>10, <1>11, <1>13, <1>15 DEF RunsInv, LanesInv
  <1>17. QED
    BY <1>10, <1>14, <1>16 DEF s, lane, rest

-----------------------------------------------------------------------------
(* The steps of a body, of a clear and of the waiters.                     *)

\* A body that goes on keeps both slots.
LEMMA BodyStepKeepsLanes ==
    ASSUME RunsInv, NEW r \in Runs, NEW p \in Executing, phase[r] \in Executing,
           phase' = [phase EXCEPT ![r] = p], UNCHANGED <<sessionLane, mainLane, home>>
    PROVE  /\ phase' \in [Runs -> Phases] /\ SubmittedHaveHome' /\ MainLaneOK'
           /\ \A s \in Sessions : SessionLaneOK(s)'
           /\ Scheduled
  <1>1. /\ phase \in [Runs -> Phases] /\ SubmittedHaveHome /\ MainLaneOK
        /\ \A s \in Sessions : SessionLaneOK(s)
    BY DEF RunsInv, LanesInv, TypeOK
  <1>2. /\ phase'[r] = p /\ \A q \in Runs \ {r} : phase'[q] = phase[q]
        /\ phase' \in [Runs -> Phases]
    BY <1>1 DEF Phases, HoldsSession
  <1>3. /\ Bodies' = Bodies /\ Parked' = Parked
        /\ \A s \in Sessions : Waiting(s)' = Waiting(s) /\ Holders(s)' = Holders(s)
    BY <1>2 DEF Bodies, Parked, Waiting, Holders, HoldsSession, Executing
  <1>4. MainLaneOK' /\ \A s \in Sessions : SessionLaneOK(s)'
    BY <1>1, <1>3 DEF MainLaneOK, SessionLaneOK
  <1>5. SubmittedHaveHome'
    BY <1>1, <1>2 DEF SubmittedHaveHome, Executing
  <1>6. Scheduled
    BY <1>2, <1>3 DEF Scheduled, RunMoves
  <1>7. QED
    BY <1>2, <1>4, <1>5, <1>6

\* Of two runs of a session one has no slot.
LEMMA AtMostOne ==
    ASSUME NEW S, IsFiniteSet(S), Cardinality(S) <= 1, NEW r \in S, NEW q \in S
    PROVE  r = q
  <1>1. Cardinality(S) \in Nat /\ Cardinality(S) # 0
    BY FS_CardinalityType, FS_EmptySet
  <1>2. Cardinality(S) = 1
    BY <1>1
  <1>3. PICK x : S = {x}
    BY <1>2, FS_Singleton
  <1>4. QED
    BY <1>3

\* setActiveEmbeddedRun: the session has no handle yet, so none is replaced.
LEMMA StartAttemptKeepsInv ==
    ASSUME RunsInv, NEW r \in Runs, StartAttempt(r)
    PROVE  RunsInv' /\ Scheduled
  <1>1. /\ phase[r] = "starting" /\ attempts[r] < MaxAttempts
        /\ phase' = [phase EXCEPT ![r] = "active"]
        /\ attempts' = [attempts EXCEPT ![r] = attempts[r] + 1]
        /\ flags' = [flags EXCEPT ![r] = {}]
        /\ registry' = [registry EXCEPT ![home[r]] = r]
        /\ UNCHANGED <<sessionLane, mainLane, home, waiter>>
    BY DEF StartAttempt
  <1>2. /\ LanesInv /\ TypeOK /\ SubmittedHaveHome /\ HandleIsLive
        /\ WaitersHaveRun /\ NotAborted /\ home[r] \in Sessions
    BY <1>1 DEF RunsInv, LanesInv, SubmittedHaveHome
  <1>3. /\ phase' \in [Runs -> Phases] /\ SubmittedHaveHome' /\ MainLaneOK'
        /\ \A s \in Sessions : SessionLaneOK(s)'
        /\ Scheduled
    BY <1>1, BodyStepKeepsLanes DEF Executing
  <1>4. TypeOK'
    <2>1. attempts' \in [Runs -> 0..MaxAttempts]
      BY <1>1, <1>2, RunsAssumption DEF TypeOK
    <2>2. /\ flags' \in [Runs -> SUBSET {"aborted", "timedOut"}]
          /\ registry' \in [Sessions -> Runs \cup {NoRun}]
      BY <1>1, <1>2 DEF TypeOK
    <2>3. QED
      BY <1>1, <1>2, <1>3, <2>1, <2>2 DEF TypeOK
  <1>5. ASSUME NEW q \in Runs, phase[q] = "active" PROVE home[q] # home[r]
    <2> SUFFICES ASSUME home[q] = home[r] PROVE FALSE
      OBVIOUS
    <2>1. r \in Holders(home[r]) /\ q \in Holders(home[r])
      BY <1>1, <1>5 DEF Holders, HoldsSession, Executing
    <2>2. IsFiniteSet(Holders(home[r])) /\ Cardinality(Holders(home[r])) <= 1
      BY <1>2 DEF LanesInv, SessionLaneOK
    <2>3. QED
      BY <1>1, <1>5, <2>1, <2>2, AtMostOne
  <1>6. /\ registry'[home[r]] = r /\ phase'[r] = "active"
        /\ \A s \in Sessions \ {home[r]} : registry'[s] = registry[s]
        /\ \A q \in Runs \ {r} : phase'[q] = phase[q]
    BY <1>1, <1>2 DEF TypeOK
  <1>7. HandleIsLive'
    BY <1>1, <1>2, <1>5, <1>6 DEF HandleIsLive
  <1>8. WaitersHaveRun'
    <2> SUFFICES ASSUME NEW w \in Waiters, waiter[w].state = "waiting"
                 PROVE  /\ waiter[w].run \in Runs
                        /\ home[waiter[w].run] \in Sessions
                        /\ registry'[home[waiter[w].run]] = waiter[w].run
      BY <1>1 DEF WaitersHaveRun
    <2>1. /\ waiter[w].run \in Runs /\ home[waiter[w].run] \in Sessions
          /\ registry[home[waiter[w].run]] = waiter[w].run
      BY <1>2 DEF WaitersHaveRun
    <2>2. phase[waiter[w].run] = "active"
      BY <1>2, <2>1 DEF HandleIsLive
    <2>3. QED
      BY <1>5, <1>6, <2>1, <2>2
  <1>9. NotAborted'
    BY <1>1, <1>2, <1>6 DEF NotAborted, TypeOK
  <1>10. QED
    BY <1>3, <1>4, <1>7, <1>8, <1>9 DEF RunsInv, LanesInv

\* The abort timer of an attempt.
LEMMA TimeOutAttemptKeepsInv ==
    ASSUME RunsInv, NEW r \in Runs, TimeOutAttempt(r)
    PROVE  RunsInv' /\ Scheduled
  <1>1. /\ phase[r] = "active" /\ flags' = [flags EXCEPT ![r] = {"aborted", "timedOut"}]
        /\ UNCHANGED <<sessionLane, mainLane, home, phase, attempts, registry, waiter>>
    BY DEF TimeOutAttempt
  <1>2. TypeOK /\ NotAborted
    BY DEF RunsInv, LanesInv
  <1>3. TypeOK'
    BY <1>1, <1>2 DEF TypeOK
  <1>4. NotAborted'
    BY <1>1, <1>2 DEF NotAborted, TypeOK
  <1>5. /\ SubmittedHaveHome' /\ MainLaneOK' /\ HandleIsLive' /\ WaitersHaveRun'
        /\ \A s \in Sessions : SessionLaneOK(s)'
    BY <1>1 DEF RunsInv, LanesInv, SubmittedHaveHome, MainLaneOK, Parked, Bodies,
                HandleIsLive, WaitersHaveRun, SessionLaneOK, Waiting, Holders
  <1>6. Scheduled
    BY <1>1 DEF Scheduled, RunMoves, Bodies
  <1>7. QED
    BY <1>3, <1>4, <1>5, <1>6 DEF RunsInv, LanesInv

\* clearActiveEmbeddedRun: the handle is the attempt's own, and everybody who
\* waits for the session is told.
LEMMA EndAttemptKeepsInv ==
    ASSUME RunsInv, NEW r \in Runs, EndAttempt(r)
    PROVE  RunsInv' /\ Scheduled
  <1>1. /\ phase[r] = "active" /\ phase' = [phase EXCEPT ![r] = "between"]
        /\ ClearActive(r)
        /\ UNCHANGED <<sessionLane, mainLane, home, attempts, flags>>
    BY DEF EndAttempt
  <1>2. /\ TypeOK /\ SubmittedHaveHome /\ HandleIsLive
        /\ WaitersHaveRun /\ NotAborted /\ home[r] \in Sessions
    BY <1>1 DEF RunsInv, LanesInv, SubmittedHaveHome
  <1>3. registry[home[r]] = r
    BY <1>1, <1>2 DEF HandleIsLive
  <1>4. /\ registry' = [registry EXCEPT ![home[r]] = NoRun]
        /\ waiter' = [w \in Waiters |->
              IF waiter[w].state = "waiting" /\ home[waiter[w].run] = home[r]
              THEN [waiter[w] EXCEPT !.state = "ended"] ELSE waiter[w]]
    BY <1>1, <1>3 DEF ClearActive
  <1>5. /\ phase' \in [Runs -> Phases] /\ SubmittedHaveHome' /\ MainLaneOK'
        /\ \A s \in Sessions : SessionLaneOK(s)'
        /\ Scheduled
    BY <1>1, BodyStepKeepsLanes DEF Executing
  <1>6. /\ waiter' \in [Waiters -> [state : {"idle", "waiting", "ended", "timedOut"},
                                    run : Runs \cup {NoRun}]]
        /\ \A w \in Waiters : waiter'[w].state = "waiting" =>
              waiter'[w] = waiter[w] /\ home[waiter[w].run] # home[r]
    BY <1>2, <1>4 DEF TypeOK
  <1>7. TypeOK'
    BY <1>1, <1>2, <1>4, <1>5, <1>6 DEF TypeOK
  <1>8. /\ registry'[home[r]] = NoRun /\ phase'[r] = "between"
        /\ \A s \in Sessions \ {home[r]} : registry'[s] = registry[s]
        /\ \A q \in Runs \ {r} : phase'[q] = phase[q]
    BY <1>1, <1>2, <1>4 DEF TypeOK
  <1>9. HandleIsLive'
    BY <1>1, <1>2, <1>3, <1>8, RunsAssumption DEF HandleIsLive
  <1>10. WaitersHaveRun'
    BY <1>1, <1>2, <1>6, <1>8 DEF WaitersHaveRun
  <1>11. NotAborted'
    BY <1>1, <1>2, <1>8 DEF NotAborted
  <1>12. QED
    BY <1>5, <1>7, <1>9, <1>10, <1>11 DEF RunsInv, LanesInv

\* The loop goes round only after an attempt that was not aborted by a user.
LEMMA RetryKeepsInv ==
    ASSUME RunsInv, NEW r \in Runs, Retry(r)
    PROVE  RunsInv' /\ Scheduled
  <1>1. /\ phase[r] = "between" /\ MayRetry(r) /\ phase' = [phase EXCEPT ![r] = "starting"]
        /\ UNCHANGED <<sessionLane, mainLane, home, attempts, flags, registry, waiter>>
    BY DEF Retry
  <1>2. TypeOK /\ HandleIsLive /\ WaitersHaveRun /\ NotAborted
    BY DEF RunsInv, LanesInv
  <1>3. /\ phase' \in [Runs -> Phases] /\ SubmittedHaveHome' /\ MainLaneOK'
        /\ \A s \in Sessions : SessionLaneOK(s)'
        /\ Scheduled
    BY <1>1, BodyStepKeepsLanes DEF Executing
  <1>4. phase'[r] = "starting" /\ \A q \in Runs \ {r} : phase'[q] = phase[q]
    BY <1>1, <1>2 DEF TypeOK
  <1>5. flags[r] # {"aborted"}
    BY <1>1 DEF MayRetry
  <1>6. TypeOK'
    BY <1>1, <1>2, <1>3 DEF TypeOK
  <1>7. HandleIsLive' /\ WaitersHaveRun' /\ NotAborted'
    BY <1>1, <1>2, <1>4, <1>5 DEF HandleIsLive, WaitersHaveRun, NotAborted
  <1>8. QED
    BY <1>3, <1>6, <1>7 DEF RunsInv, LanesInv

\* What a clear of a session does to the runs.
Dropped(s) ==
    /\ \A r \in Runs : \/ phase'[r] = phase[r]
                       \/ phase[r] = "inSession" /\ home[r] = s /\ phase'[r] = "dropped"
    /\ UNCHANGED <<home, mainLane>>

\* clearCommandLane and abortEmbeddedPiRun: who holds a slot keeps it.
LEMMA ClearAndAbortKeepsInv ==
    ASSUME RunsInv, NEW s \in Sessions, ClearAndAbort(s)
    PROVE  RunsInv' /\ Dropped(s)
  <1>1. /\ sessionLane' = [sessionLane EXCEPT ![s] = Cleared(sessionLane[s])]
        /\ phase' = [r \in Runs |->
              IF home[r] = s /\ phase[r] = "inSession" THEN "dropped" ELSE phase[r]]
        /\ flags' = [r \in Runs |->
              IF r = registry[s] THEN flags[r] \cup {"aborted"} ELSE flags[r]]
        /\ UNCHANGED <<mainLane, home, attempts, registry, waiter>>
    BY DEF ClearAndAbort, RunsInv, LanesInv, TypeOK
  <1>2. /\ TypeOK /\ SubmittedHaveHome /\ MainLaneOK /\ HandleIsLive
        /\ WaitersHaveRun /\ NotAborted /\ \A t \in Sessions : SessionLaneOK(t)
    BY DEF RunsInv, LanesInv
  <1>3. /\ Cleared(sessionLane[s]) \in LaneType(Runs)
        /\ Cleared(sessionLane[s]).queue = <<>>
        /\ Cleared(sessionLane[s]).active = sessionLane[s].active
        /\ Cleared(sessionLane[s]).maxConcurrent = sessionLane[s].maxConcurrent
    BY <1>2, EmptySeq DEF TypeOK, Cleared, Lane, LaneType
  <1>4. phase' \in [Runs -> Phases]
    BY <1>1, <1>2 DEF TypeOK, Phases
  <1>5. TypeOK'
    BY <1>1, <1>2, <1>3, <1>4 DEF TypeOK
  <1>6. \A r \in Runs : \/ phase'[r] = phase[r] /\ ~(home[r] = s /\ phase[r] = "inSession")
                        \/ phase[r] = "inSession" /\ home[r] = s /\ phase'[r] = "dropped"
    BY <1>1
  <1>7. /\ Bodies' = Bodies /\ Parked' = Parked
        /\ \A t \in Sessions : Holders(t)' = Holders(t)
        /\ \A t \in Sessions \ {s} : Waiting(t)' = Waiting(t)
        /\ Waiting(s)' = {}
    BY <1>1, <1>6 DEF Bodies, Parked, Holders, Waiting, HoldsSession, Executing
  <1>8. MainLaneOK' /\ SubmittedHaveHome'
    BY <1>1, <1>2, <1>6, <1>7 DEF MainLaneOK, SubmittedHaveHome
  <1>9. ASSUME NEW t \in Sessions PROVE SessionLaneOK(t)'
    <2>1. CASE t # s
      <3>1. sessionLane'[t] = sessionLane[t]
        BY <1>1, <1>2, <2>1 DEF TypeOK
      <3>2. QED
        BY <1>2, <1>7, <2>1, <3>1 DEF SessionLaneOK
    <2>2. CASE t = s
      <3>1. sessionLane'[s] = Cleared(sessionLane[s])
        BY <1>1, <1>2 DEF TypeOK
      <3>2. Injective(<<>>) /\ Range(<<>>) = {}
        BY EmptySeq DEF Injective, Range
      <3>3. QED
        BY <1>2, <1>3, <1>7, <2>2, <3>1, <3>2 DEF SessionLaneOK
    <2>3. QED
      BY <2>1, <2>2
  <1>10. HandleIsLive' /\ WaitersHaveRun'
    BY <1>1, <1>2, <1>6 DEF HandleIsLive, WaitersHaveRun
  <1>11. NotAborted'
    BY <1>1, <1>2, <1>6 DEF NotAborted, HandleIsLive
  <1>12. QED
    BY <1>1, <1>5, <1>6, <1>8, <1>9, <1>10, <1>11 DEF RunsInv, LanesInv, Dropped

\* Whoever waits, waits for the handle that is registered.
LEMMA WaitKeepsInv ==
    ASSUME RunsInv, NEW w \in Waiters,
           WaitTimesOut(w) \/ \E s \in Sessions : WaitForRunEnd(w, s)
    PROVE  RunsInv' /\ Scheduled
  <1>1. UNCHANGED <<sessionLane, mainLane, home, phase, attempts, flags, registry>>
    BY DEF WaitTimesOut, WaitForRunEnd
  <1>2. TypeOK /\ HandleIsLive /\ WaitersHaveRun /\ SubmittedHaveHome
    BY DEF RunsInv, LanesInv
  <1>3. /\ waiter' \in [Waiters -> [state : {"idle", "waiting", "ended", "timedOut"},
                                    run : Runs \cup {NoRun}]]
        /\ WaitersHaveRun'
    <2>1. CASE WaitTimesOut(w)
      BY <1>1, <1>2, <2>1 DEF WaitTimesOut, TypeOK, WaitersHaveRun
    <2>2. ASSUME NEW s \in Sessions, WaitForRunEnd(w, s)
          PROVE  /\ waiter' \in [Waiters -> [state : {"idle", "waiting", "ended", "timedOut"},
                                             run : Runs \cup {NoRun}]]
                 /\ WaitersHaveRun'
      <3> DEFINE new == [state |-> IF registry[s] = NoRun THEN "ended" ELSE "waiting",
                         run |-> registry[s]]
      <3>1. waiter' = [waiter EXCEPT ![w] = new]
        BY <2>2 DEF WaitForRunEnd
      <3>2. new \in [state : {"idle", "waiting", "ended", "timedOut"},
                     run : Runs \cup {NoRun}]
        BY <1>2 DEF TypeOK
      <3>3. new.state = "waiting" => /\ new.run \in Runs /\ home[new.run] = s
                                     /\ registry[s] = new.run
        BY <1>2 DEF TypeOK, HandleIsLive
      <3> HIDE DEF new
      <3>4. waiter'[w] = new /\ \A v \in Waiters \ {w} : waiter'[v] = waiter[v]
        BY <1>2, <3>1 DEF TypeOK
      <3>5. WaitersHaveRun'
        BY <1>1, <1>2, <3>3, <3>4 DEF WaitersHaveRun
      <3>6. QED
        BY <1>2, <3>1, <3>2, <3>5 DEF TypeOK
    <2>3. QED
      BY <2>1, <2>2
  <1>4. TypeOK'
    BY <1>1, <1>2, <1>3 DEF TypeOK
  <1>5. /\ SubmittedHaveHome' /\ MainLaneOK' /\ HandleIsLive' /\ NotAborted'
        /\ \A s \in Sessions : SessionLaneOK(s)'
    <2>1. SubmittedHaveHome' /\ MainLaneOK' /\ HandleIsLive'
      BY <1>1 DEF RunsInv, LanesInv, SubmittedHaveHome, MainLaneOK, Parked, Bodies,
                  HandleIsLive
    <2>2. NotAborted'
      BY <1>1 DEF RunsInv, NotAborted
    <2>3. \A s \in Sessions : SessionLaneOK(s)'
      BY <1>1 DEF RunsInv, LanesInv, SessionLaneOK, Waiting, Holders
    <2>4. QED
      BY <2>1, <2>2, <2>3
  <1>6. Scheduled
    BY <1>1 DEF Scheduled, RunMoves, Bodies
  <1>7. QED
    BY <1>3, <1>4, <1>5, <1>6 DEF RunsInv, LanesInv

-----------------------------------------------------------------------------
(* The invariant, and the steps against RunContract.                       *)

\* The gateway starts with empty lanes, no handles and nobody waiting.
LEMMA InitKeepsInv == Init => RunsInv
  <1> SUFFICES ASSUME Init PROVE RunsInv
    OBVIOUS
  <1>1. /\ NewLane \in LaneType(Runs) /\ NewLane.queue = <<>>
        /\ NewLane.active = 0 /\ NewLane.maxConcurrent = 1
    BY EmptySeq DEF NewLane, Lane, LaneType
  <1>2. Injective(<<>>) /\ Range(<<>>) = {}
    BY EmptySeq DEF Injective, Range
  <1>3. TypeOK
    BY <1>1, RunsAssumption DEF Init, TypeOK, Phases
  <1>4. /\ Bodies = {} /\ Parked = {}
        /\ \A s \in Sessions : Holders(s) = {} /\ Waiting(s) = {}
    BY RunsAssumption DEF Init, Bodies, Parked, Holders, Waiting, HoldsSession, Executing
  <1>5. MainLaneOK /\ \A s \in Sessions : SessionLaneOK(s)
    <2>1. mainLane = NewLane /\ \A s \in Sessions : sessionLane[s] = NewLane
      BY DEF Init
    <2>2. MainLaneOK
      BY <1>1, <1>2, <1>4, <2>1, FS_EmptySet DEF MainLaneOK
    <2>3. ASSUME NEW s \in Sessions PROVE SessionLaneOK(s)
      <3>1. Holders(s) = {} /\ Waiting(s) = {} /\ sessionLane[s] = NewLane
        BY <1>4, <2>1
      <3>2. IsFiniteSet(Holders(s)) /\ Cardinality(Holders(s)) = 0
        BY <3>1, FS_EmptySet
      <3>3. QED
        BY <1>1, <1>2, <3>1, <3>2 DEF SessionLaneOK
    <2>4. QED
      BY <2>2, <2>3
  <1>6. SubmittedHaveHome /\ HandleIsLive
    BY RunsAssumption DEF Init, SubmittedHaveHome, HandleIsLive
  <1>7. WaitersHaveRun
    BY DEF Init, WaitersHaveRun
  <1>8. NotAborted
    BY DEF Init, NotAborted
  <1>9. QED
    BY <1>3, <1>5, <1>6, <1>7, <1>8 DEF RunsInv, LanesInv

\* Every step keeps the invariant, and is a step of the scheduler, a clear of
\* one session, or no step.
LEMMA RunsInvInductive ==
    RunsInv /\ [Next]_vars =>
        RunsInv' /\ (Scheduled \/ \E s \in Sessions : Dropped(s))
  <1> SUFFICES ASSUME RunsInv, [Next]_vars
               PROVE  RunsInv' /\ (Scheduled \/ \E s \in Sessions : Dropped(s))
    OBVIOUS
  <1>1. ASSUME NEW r \in Runs, NEW s \in Sessions, Submit(r, s)
        PROVE  RunsInv' /\ Scheduled
    BY <1>1, SubmitKeepsInv
  <1>2. ASSUME NEW r \in Runs, Begin(r) PROVE RunsInv' /\ Scheduled
    <2>1. CASE StartAttempt(r)
      BY <2>1, StartAttemptKeepsInv
    <2>2. CASE FailBeforeAttempt(r)
      BY <2>2, EndBodyKeepsInv DEF FailBeforeAttempt
    <2>3. QED
      BY <1>2, <2>1, <2>2 DEF Begin
  <1>3. ASSUME NEW r \in Runs, TimeOutAttempt(r) PROVE RunsInv' /\ Scheduled
    BY <1>3, TimeOutAttemptKeepsInv
  <1>4. ASSUME NEW r \in Runs, EndAttempt(r) PROVE RunsInv' /\ Scheduled
    BY <1>4, EndAttemptKeepsInv
  <1>5. ASSUME NEW r \in Runs, Decide(r) PROVE RunsInv' /\ Scheduled
    <2>1. CASE Retry(r)
      BY <2>1, RetryKeepsInv
    <2>2. CASE Conclude(r)
      BY <2>2, EndBodyKeepsInv DEF Conclude
    <2>3. QED
      BY <1>5, <2>1, <2>2 DEF Decide
  <1>6. ASSUME NEW r \in Runs, LeaveSession(r) PROVE RunsInv' /\ Scheduled
    BY <1>6, LeaveSessionKeepsInv
  <1>7. ASSUME NEW n \in 1..MaxLimit, SetMainConcurrency(n) PROVE RunsInv' /\ Scheduled
    BY <1>7, SetMainConcurrencyKeepsInv
  <1>8. ASSUME NEW s \in Sessions, ClearAndAbort(s) PROVE RunsInv' /\ Dropped(s)
    BY <1>8, ClearAndAbortKeepsInv
  <1>9. ASSUME NEW w \in Waiters, WaitTimesOut(w) \/ \E s \in Sessions : WaitForRunEnd(w, s)
        PROVE  RunsInv' /\ Scheduled
    BY <1>9, WaitKeepsInv
  <1>10. CASE UNCHANGED vars
    <2>1. UNCHANGED <<sessionLane, mainLane, home, phase, attempts, flags, registry, waiter>>
      BY <1>10 DEF vars
    <2>2. LanesInv'
      <3>1. TypeOK' /\ SubmittedHaveHome' /\ MainLaneOK'
        BY <2>1 DEF RunsInv, LanesInv, TypeOK, SubmittedHaveHome, MainLaneOK, Parked,
                    Bodies
      <3>2. \A s \in Sessions : SessionLaneOK(s)'
        BY <2>1 DEF RunsInv, LanesInv, SessionLaneOK, Waiting, Holders
      <3>3. QED
        BY <3>1, <3>2 DEF LanesInv
    <2>3. HandleIsLive' /\ WaitersHaveRun'
      BY <2>1 DEF RunsInv, HandleIsLive, WaitersHaveRun
    <2>4. NotAborted'
      BY <2>1 DEF RunsInv, NotAborted
    <2>5. Scheduled
      BY <2>1 DEF Scheduled, RunMoves, Bodies
    <2>6. QED
      BY <2>2, <2>3, <2>4, <2>5 DEF RunsInv
  <1>11. QED
    BY <1>1, <1>2, <1>3, <1>4, <1>5, <1>6, <1>7, <1>8, <1>9, <1>10 DEF Next

\* Slots, queues, handles and waiters match the phases of the runs, always.
LEMMA RunsInvariant == Spec => []RunsInv
  BY InitKeepsInv, RunsInvInductive, PTL DEF Spec

-----------------------------------------------------------------------------
\* Type correctness, for any number of runs, sessions and waiters.
THEOREM RunsTypeCorrect == Spec => []TypeOK
  <1>1. RunsInv => TypeOK
    BY DEF RunsInv, LanesInv
  <1>2. QED
    BY <1>1, RunsInvariant, PTL

\* Both levels of lanes count exactly the runs that hold their slots: no way
\* out of the attempt loop leaks a slot or gives one back twice.
THEOREM RunsHoldTheirSlots == Spec => []SlotsMatchRuns
  <1>1. RunsInv => SlotsMatchRuns
    BY DEF RunsInv, LanesInv, MainLaneOK, SessionLaneOK, SlotsMatchRuns
  <1>2. QED
    BY <1>1, RunsInvariant, PTL

\* The transcript of a session has one writer (lanes.ts: the session lane).
THEOREM SessionsAreSerial == Spec => []OneRunPerSession
  <1>1. RunsInv => OneRunPerSession
    BY DEF RunsInv, LanesInv, SessionLaneOK, OneRunPerSession
  <1>2. QED
    BY <1>1, RunsInvariant, PTL

\* A handle in ACTIVE_EMBEDDED_RUNS is that of the streaming attempt of its
\* session, and each streaming attempt is reached by it (runs.ts).
THEOREM HandlesAreLive == Spec => []HandleIsLive
  <1>1. RunsInv => HandleIsLive
    BY DEF RunsInv
  <1>2. QED
    BY <1>1, RunsInvariant, PTL

\* A waiter that is not yet told has a registered attempt that will tell it.
THEOREM NoWaiterIsLost == Spec => []WaitersAreNotified
  <1>1. RunsInv => WaitersAreNotified
    BY DEF RunsInv, WaitersHaveRun, WaitersAreNotified
  <1>2. QED
    BY <1>1, RunsInvariant, PTL

\* Both at once: what the registry promises those that ask it.
THEOREM RegistryStaysLive == Spec => []RegistryIsLive
  <1>1. HandleIsLive /\ WaitersAreNotified => RegistryIsLive
    BY DEF RegistryIsLive
  <1>2. QED
    BY <1>1, HandlesAreLive, NoWaiterIsLost, PTL

AbortStep == \A r \in Runs : flags[r] = {"aborted"} => attempts'[r] = attempts[r]

\* A user's abort is final: StartAttempt, the one step that counts an attempt,
\* finds a run that was not aborted (run.ts: the conditions of the retries).
THEOREM AbortsAreFinal == Spec => AbortIsFinal
  <1>1. RunsInv /\ [Next]_vars => AbortStep
    <2> SUFFICES ASSUME RunsInv, [Next]_vars PROVE AbortStep
      OBVIOUS
    <2>1. ASSUME NEW q \in Runs, StartAttempt(q) PROVE AbortStep
      <3>1. phase[q] = "starting" /\ \A r \in Runs \ {q} : attempts'[r] = attempts[r]
        BY <2>1 DEF StartAttempt, RunsInv, LanesInv, TypeOK
      <3>2. flags[q] # {"aborted"}
        BY <3>1 DEF RunsInv, NotAborted
      <3>3. QED
        BY <3>1, <3>2 DEF AbortStep
    <2>2. CASE attempts' = attempts
      BY <2>2 DEF AbortStep
    <2>3. (\E q \in Runs : StartAttempt(q)) \/ attempts' = attempts
      BY DEF Next, vars, Submit, Begin, FailBeforeAttempt, EndBody, TimeOutAttempt,
             EndAttempt, Decide, Retry, Conclude, LeaveSession, SetMainConcurrency,
             ClearAndAbort, WaitTimesOut, WaitForRunEnd
    <2>4. QED
      BY <2>1, <2>2, <2>3
  <1>2. Spec => [][AbortStep]_vars
    BY <1>1, RunsInvariant, PTL DEF Spec
  <1>3. AbortIsFinal <=> [][AbortStep]_vars
    BY DEF AbortIsFinal, AbortStep
  <1>4. QED
    BY <1>2, <1>3

-----------------------------------------------------------------------------
(* The refinement.                                                         *)

\* The status that RunContract sees of a run.
LEMMA StatusFacts ==
    ASSUME TypeOK, NEW r \in Runs
    PROVE  /\ Status[r] = "new" <=> phase[r] = "new"
           /\ Status[r] = "waiting" <=> phase[r] \in {"inSession", "inMain"}
           /\ Status[r] = "running" <=> phase[r] \in Executing
           /\ Status[r] = "ended" <=> phase[r] \in {"leaving", "done"}
           /\ Status[r] = "dropped" <=> phase[r] = "dropped"
  BY DEF TypeOK, Status, Phases, HoldsSession, Executing

\* A step of the lanes is a step of the scheduler of RunContract.
LEMMA ScheduledIsSchedule ==
    ASSUME RunsInv, RunsInv', Scheduled
    PROVE  Contract!Schedule
  <1>1. TypeOK /\ TypeOK' /\ LanesInv' /\ SubmittedHaveHome'
    BY DEF RunsInv, LanesInv
  <1>2. Contract!Running = Bodies /\ Contract!Running' = Bodies'
    <2>1. Contract!Running = Bodies
      BY <1>1, StatusFacts DEF Contract!Running, Bodies
    <2>2. \A r \in Runs : Status'[r] = "running" <=> phase'[r] \in Executing
      BY <1>1 DEF TypeOK, Status, Phases, HoldsSession, Executing
    <2>3. Contract!Running' = Bodies'
      BY <2>2 DEF Contract!Running, Bodies
    <2>4. QED
      BY <2>1, <2>3
  <1>3. ASSUME NEW r \in Runs
        PROVE  \/ Status'[r] = Status[r]
               \/ Status[r] = "new" /\ Status'[r] \in {"waiting", "running"}
               \/ Status[r] = "waiting" /\ Status'[r] = "running"
               \/ Status[r] = "running" /\ Status'[r] = "ended"
    <2>1. RunMoves(r)
      BY DEF Scheduled
    <2>2. phase[r] \in Phases /\ phase'[r] \in Phases
      BY <1>1 DEF TypeOK
    <2>3. QED
      BY <2>1, <2>2 DEF RunMoves, Status, Phases, HoldsSession, Executing
  <1>4. \A r \in Runs : home'[r] # home[r] => Status[r] = "new" /\ home'[r] \in Sessions
    BY <1>1, StatusFacts DEF Scheduled
  <1>5. ASSUME NEW r \in Bodies', NEW q \in Bodies', home'[r] = home'[q]
        PROVE  r = q
    <2>1. r \in Runs /\ q \in Runs /\ phase'[r] \in Executing /\ phase'[q] \in Executing
      BY DEF Bodies
    <2>2. PICK s \in Sessions : s = home'[r]
      BY <1>1, <2>1 DEF SubmittedHaveHome, Executing
    <2>3. r \in Holders(s)' /\ q \in Holders(s)'
      BY <1>5, <2>1, <2>2 DEF Holders, HoldsSession
    <2>4. SessionLaneOK(s)'
      BY <1>1 DEF LanesInv
    <2>5. IsFiniteSet(Holders(s)') /\ Cardinality(Holders(s)') <= 1
      BY <2>4 DEF SessionLaneOK
    <2>6. QED
      BY <2>3, <2>5, AtMostOne
  <1>6. Bodies' \ Bodies # {} => Cardinality(Bodies') <= mainLane'.maxConcurrent
    BY DEF Scheduled
  <1>7. Contract!Cardinality(Bodies') = Cardinality(Bodies')
    BY DEF Contract!Cardinality, Cardinality
  <1>8. QED
    BY <1>2, <1>3, <1>4, <1>5, <1>6, <1>7 DEF Contract!Schedule

\* A clear of a session gives up runs of it that wait.
LEMMA DroppedIsDrop ==
    ASSUME RunsInv, RunsInv', NEW s \in Sessions, Dropped(s)
    PROVE  Contract!Drop(s)
  <1>1. phase \in [Runs -> Phases] /\ phase' \in [Runs -> Phases]
    BY DEF RunsInv, LanesInv, TypeOK
  <1>2. ASSUME NEW r \in Runs
        PROVE  \/ Status'[r] = Status[r]
               \/ Status[r] = "waiting" /\ home[r] = s /\ Status'[r] = "dropped"
    <2>1. \/ phase'[r] = phase[r]
          \/ phase[r] = "inSession" /\ home[r] = s /\ phase'[r] = "dropped"
      BY DEF Dropped
    <2>2. CASE phase'[r] = phase[r]
      BY <1>1, <2>2 DEF Status, Phases, HoldsSession, Executing
    <2>3. CASE phase[r] = "inSession" /\ home[r] = s /\ phase'[r] = "dropped"
      BY <2>3 DEF Status, Executing
    <2>4. QED
      BY <2>1, <2>2, <2>3
  <1>3. UNCHANGED <<home, mainLane.maxConcurrent>>
    BY DEF Dropped
  <1>4. QED
    BY <1>2, <1>3 DEF Contract!Drop

\* The nested lanes implement the scheduler of RunContract: a session's runs
\* execute one at a time, none starts above the limit, and only runs that wait
\* are given up, by a clear of their session.
THEOREM RunsImplementContract == Spec => ImplementsContract
  <1>1. Init => Contract!Init
    <2> SUFFICES ASSUME Init PROVE Contract!Init
      OBVIOUS
    <2>1. Status = [r \in Runs |-> "new"]
      BY DEF Init, Status, Executing
    <2>2. mainLane.maxConcurrent = 1
      BY DEF Init, NewLane, Lane
    <2>3. home = [r \in Runs |-> NoSession]
      BY DEF Init
    <2>4. QED
      BY <2>1, <2>2, <2>3 DEF Contract!Init
  <1>2. RunsInv /\ RunsInv' /\ [Next]_vars => Contract!Next
    <2> SUFFICES ASSUME RunsInv, RunsInv', [Next]_vars PROVE Contract!Next
      OBVIOUS
    <2>1. Scheduled \/ \E s \in Sessions : Dropped(s)
      BY RunsInvInductive
    <2>2. QED
      BY <2>1, ScheduledIsSchedule, DroppedIsDrop DEF Contract!Next
  <1>3. QED
    BY <1>1, <1>2, RunsInvariant, PTL DEF Spec, ImplementsContract, Contract!Spec
-----------------------------------------------------------------------------
(* Both levels are lanes of CommandLanes: each step of a run is a step of   *)
(* its session's lane, of the global lane, of both, or of neither.          *)

\* The lanes of both instances do what the lanes of this model do.
LEMMA SameTransitions ==
    ASSUME NEW lane, NEW t
    PROVE  /\ SessionLanes!NewLane = NewLane /\ GlobalLane!NewLane = NewLane
           /\ SessionLanes!Pumped(lane) = Pumped(lane)
           /\ GlobalLane!Pumped(lane) = Pumped(lane)
           /\ SessionLanes!Range(SessionLanes!Started(lane)) = Range(Started(lane))
           /\ GlobalLane!Range(GlobalLane!Started(lane)) = Range(Started(lane))
           /\ SessionLanes!Pushed(lane, t) = Pushed(lane, t)
           /\ GlobalLane!Pushed(lane, t) = Pushed(lane, t)
           /\ SessionLanes!Released(lane) = Released(lane)
           /\ GlobalLane!Released(lane) = Released(lane)
           /\ GlobalLane!Resized(lane, t) = Resized(lane, t)
           /\ SessionLanes!Cleared(lane) = Cleared(lane)
  <1>1. /\ SessionLanes!PumpCount(lane) = PumpCount(lane)
        /\ GlobalLane!PumpCount(lane) = PumpCount(lane)
    BY DEF SessionLanes!PumpCount, GlobalLane!PumpCount, PumpCount,
           SessionLanes!FreeSlots, GlobalLane!FreeSlots, FreeSlots
  <1>2. /\ SessionLanes!Pumped(lane) = Pumped(lane)
        /\ GlobalLane!Pumped(lane) = Pumped(lane)
    BY <1>1 DEF SessionLanes!Pumped, GlobalLane!Pumped, Pumped,
                SessionLanes!Lane, GlobalLane!Lane, Lane
  <1>3. /\ SessionLanes!Range(SessionLanes!Started(lane)) = Range(Started(lane))
        /\ GlobalLane!Range(GlobalLane!Started(lane)) = Range(Started(lane))
    BY <1>1 DEF SessionLanes!Started, GlobalLane!Started, Started,
                SessionLanes!Range, GlobalLane!Range, Range
  <1>4. /\ SessionLanes!NewLane = NewLane /\ GlobalLane!NewLane = NewLane
        /\ SessionLanes!Pushed(lane, t) = Pushed(lane, t)
        /\ GlobalLane!Pushed(lane, t) = Pushed(lane, t)
        /\ SessionLanes!Released(lane) = Released(lane)
        /\ GlobalLane!Released(lane) = Released(lane)
        /\ GlobalLane!Resized(lane, t) = Resized(lane, t)
        /\ SessionLanes!Cleared(lane) = Cleared(lane)
    BY DEF SessionLanes!NewLane, GlobalLane!NewLane, NewLane,
           SessionLanes!Pushed, GlobalLane!Pushed, Pushed,
           SessionLanes!Released, GlobalLane!Released, Released,
           GlobalLane!Resized, Resized, SessionLanes!Cleared, Cleared,
           SessionLanes!Lane, GlobalLane!Lane, Lane
  <1>5. QED
    BY <1>1, <1>2, <1>3, <1>4

\* The global lane is a map with one lane in it.
LEMMA OneLane ==
    ASSUME NEW x, NEW y
    PROVE  /\ [l \in {"main"} |-> x]["main"] = x
           /\ [[l \in {"main"} |-> x] EXCEPT !["main"] = y] = [l \in {"main"} |-> y]
  OBVIOUS

\* What the two promises tell of a run.
LEMMA PromiseFacts ==
    ASSUME NEW r \in Runs
    PROVE  /\ SessionPromise[r] = IF phase[r] = "new" THEN "none"
                                  ELSE IF phase[r] = "done" THEN "resolved" ELSE "pending"
           /\ GlobalPromise[r] = IF r \in Parked \cup Bodies THEN "pending"
                                 ELSE IF phase[r] \in {"leaving", "done"} THEN "resolved"
                                 ELSE "none"
  BY DEF SessionPromise, GlobalPromise, Parked, Bodies, Executing

\* The same of the next state.
LEMMA PromiseFactsPrimed ==
    ASSUME NEW r \in Runs
    PROVE  /\ SessionPromise'[r] = IF phase'[r] = "new" THEN "none"
                                   ELSE IF phase'[r] = "done" THEN "resolved" ELSE "pending"
           /\ GlobalPromise'[r] = IF r \in Parked' \cup Bodies' THEN "pending"
                                  ELSE IF phase'[r] \in {"leaving", "done"} THEN "resolved"
                                  ELSE "none"
  BY DEF SessionPromise, GlobalPromise, Parked, Bodies, Executing

\* A promise changes with the phases it tells of only.
LEMMA PromiseKept ==
    ASSUME NEW r \in Runs
    PROVE  /\ (/\ phase'[r] = "new" <=> phase[r] = "new"
               /\ phase'[r] = "done" <=> phase[r] = "done")
              => SessionPromise'[r] = SessionPromise[r]
           /\ (/\ r \in Parked' \cup Bodies' <=> r \in Parked \cup Bodies
               /\ phase'[r] \in {"leaving", "done"} <=> phase[r] \in {"leaving", "done"})
              => GlobalPromise'[r] = GlobalPromise[r]
  BY DEF SessionPromise, GlobalPromise, Parked, Bodies, Executing

\* The promises are functions on the runs.
LEMMA PromiseDomains ==
    /\ SessionPromise = [r \in Runs |-> SessionPromise[r]]
    /\ GlobalPromise = [r \in Runs |-> GlobalPromise[r]]
    /\ SessionPromise' = [r \in Runs |-> SessionPromise'[r]]
    /\ GlobalPromise' = [r \in Runs |-> GlobalPromise'[r]]
  BY DEF SessionPromise, GlobalPromise

\* A step that leaves the session lanes and what the phases say of them alone.
LEMMA SessionStutter ==
    ASSUME UNCHANGED <<sessionLane, home>>,
           \A r \in Runs : /\ phase'[r] \in HoldsSession <=> phase[r] \in HoldsSession
                           /\ phase'[r] = "new" <=> phase[r] = "new"
                           /\ phase'[r] = "done" <=> phase[r] = "done"
    PROVE  UNCHANGED SessionLanes!vars
  <1>1. \A s \in Sessions : Holders(s)' = Holders(s)
    BY DEF Holders
  <1>2. \A r \in Runs : SessionPromise'[r] = SessionPromise[r]
    BY PromiseFacts, PromiseFactsPrimed
  <1>3. SessionPromise' = SessionPromise
    BY <1>2, PromiseDomains
  <1>4. QED
    BY <1>1, <1>3 DEF SessionLanes!vars

\* A step that leaves the global lane and what the phases say of it alone.
LEMMA GlobalStutter ==
    ASSUME UNCHANGED mainLane,
           \A r \in Runs : /\ phase'[r] \in Executing <=> phase[r] \in Executing
                           /\ phase'[r] = "inMain" <=> phase[r] = "inMain"
                           /\ phase'[r] \in {"leaving", "done"} <=>
                                 phase[r] \in {"leaving", "done"}
    PROVE  UNCHANGED GlobalLane!vars
  <1>1. Bodies' = Bodies /\ Parked' = Parked
    BY DEF Bodies, Parked
  <1>2. \A r \in Runs : GlobalPromise'[r] = GlobalPromise[r]
    BY <1>1, PromiseFacts, PromiseFactsPrimed
  <1>3. GlobalPromise' = GlobalPromise
    BY <1>2, PromiseDomains
  <1>4. QED
    BY <1>1, <1>3 DEF GlobalLane!vars

\* The pump of a session lane hands the global lane one run, which is an enqueue
\* there, or none, and then the global lane has nothing to start either.
LEMMA SessionPumpIsGlobalStep ==
    ASSUME RunsInv, Scheduled, NEW s \in Sessions, NEW rest, NEW still,
           SessionPumps(s, rest, still)
    PROVE  [GlobalLane!Next]_(GlobalLane!vars)
  <1> DEFINE admitted == Started(rest)
             parking == Parking(mainLane, admitted)
  <1>1. /\ admitted \in Seq(Runs) /\ Len(admitted) <= 1
        /\ Range(admitted) \cap (Parked \cup Bodies) = {}
        /\ mainLane' = Pumped(parking)
        /\ Bodies' = Bodies \cup Range(Started(parking))
        /\ Parked' \cup Bodies' = Parked \cup Bodies \cup Range(admitted)
    BY DEF SessionPumps
  <1>2. /\ mainLane \in LaneType(Runs) /\ mainLane.queue \in Seq(Runs)
        /\ mainLane.queue # <<>> => mainLane.active >= mainLane.maxConcurrent
        /\ mainLane = Lane(mainLane.queue, mainLane.active, mainLane.maxConcurrent)
    BY DEF RunsInv, LanesInv, TypeOK, MainLaneOK, LaneType, Lane
  <1> HIDE DEF admitted
  <1>3. \A q \in Runs : phase'[q] \in {"leaving", "done"} <=> phase[q] \in {"leaving", "done"}
    <2> SUFFICES ASSUME NEW q \in Runs
                 PROVE  phase'[q] \in {"leaving", "done"} <=> phase[q] \in {"leaving", "done"}
      OBVIOUS
    <2>1. RunMoves(q)
      BY DEF Scheduled
    <2>2. phase[q] \in Executing => phase'[q] \in Executing
      BY <1>1 DEF Bodies
    <2>3. QED
      BY <2>1, <2>2 DEF RunMoves, Executing
  <1>4. CASE admitted = <<>>
    <2>1. parking = mainLane
      <3>1. mainLane.queue \o <<>> = mainLane.queue
        BY <1>2, ConcatEmptySeq
      <3>2. QED
        BY <1>2, <1>4, <3>1 DEF Parking
    <2>2. Pumped(mainLane) = mainLane /\ Started(mainLane) = <<>>
      BY <1>2, PumpSaturates
    <2>3. Range(<<>>) = {}
      BY EmptySeq DEF Range
    <2>4. mainLane' = mainLane /\ Bodies' = Bodies /\ Parked' \cup Bodies' = Parked \cup Bodies
      BY <1>1, <1>4, <2>1, <2>2, <2>3
    <2>5. \A q \in Runs : GlobalPromise'[q] = GlobalPromise[q]
      BY <1>3, <2>4, PromiseFacts, PromiseFactsPrimed
    <2>6. GlobalPromise' = GlobalPromise
      BY <2>5, PromiseDomains
    <2>7. QED
      BY <2>4, <2>6 DEF GlobalLane!vars
  <1>5. CASE admitted # <<>>
    <2>1. Len(admitted) = 1
      <3>1. admitted \in Seq(Runs) => Len(admitted) \in Nat \ {0}
        BY <1>5, EmptySeq
      <3>2. admitted \in Seq(Runs) /\ Len(admitted) <= 1
        BY <1>1
      <3>3. QED
        BY <3>1, <3>2
    <2>2. PICK q \in Runs : admitted = <<q>>
      <3>1. admitted[1] \in Runs
        BY <1>1, <2>1, ElementOfSeq
      <3>2. admitted = <<admitted[1]>>
        BY <1>1, <2>1
      <3>3. QED
        BY <3>1, <3>2
    <2>3. Range(admitted) = {q}
      BY <2>2 DEF Range
    <2>4. parking = Pushed(mainLane, q)
      <3>1. Append(mainLane.queue, q) = mainLane.queue \o <<q>>
        BY <1>2, AppendIsConcat
      <3>2. QED
        BY <2>2, <3>1 DEF Parking, Pushed
    <2>5. GlobalPromise[q] = "none"
      <3>1. q \notin Parked \cup Bodies /\ q \in Parked' \cup Bodies'
        BY <1>1, <2>3
      <3>2. phase'[q] \in {"inMain", "starting", "active", "between"}
        BY <3>1 DEF Parked, Bodies, Executing
      <3>3. phase[q] \notin {"leaving", "done"}
        BY <1>3, <3>2
      <3>4. QED
        BY <3>1, <3>3, PromiseFacts
    <2>6. GlobalPromise' = [GlobalPromise EXCEPT ![q] = "pending"]
      <3>1. \A r \in Runs : GlobalPromise'[r] = IF r = q THEN "pending" ELSE GlobalPromise[r]
        BY <1>1, <1>3, <2>3, PromiseFacts, PromiseFactsPrimed
      <3>2. QED
        BY <3>1, PromiseDomains
    <2>7. GlobalLane!Drain("main", GlobalLane!Pushed([l \in {"main"} |-> mainLane]["main"], q),
                           [l \in {"main"} |-> Bodies]["main"])
      <3>1. /\ mainLane' = Pumped(Pushed(mainLane, q))
            /\ Bodies' = Bodies \cup Range(Started(Pushed(mainLane, q)))
        BY <1>1, <2>4
      <3>2. QED
        BY <3>1, OneLane, SameTransitions DEF GlobalLane!Drain
    <2>8. GlobalLane!Enqueue("main", q)
      BY <2>5, <2>6, <2>7 DEF GlobalLane!Enqueue
    <2>9. QED
      BY <2>8 DEF GlobalLane!Next
  <1>6. QED
    BY <1>4, <1>5

\* The pump of a session lane, as a step of that lane.
LEMMA SessionPumpIsDrain ==
    ASSUME RunsInv, NEW s \in Sessions, NEW rest, NEW still, SessionPumps(s, rest, still)
    PROVE  SessionLanes!Drain(s, rest, still)
  <1>1. /\ sessionLane' = [sessionLane EXCEPT ![s] = Pumped(rest)]
        /\ Holders(s)' = still \cup Range(Started(rest))
        /\ \A t \in Sessions \ {s} : Holders(t)' = Holders(t)
    BY DEF SessionPumps
  <1>2. [t \in Sessions |-> Holders(t)'] =
           [[t \in Sessions |-> Holders(t)] EXCEPT ![s] = still \cup Range(Started(rest))]
    BY <1>1
  <1>3. QED
    BY <1>1, <1>2, SameTransitions DEF SessionLanes!Drain

\* The runs that the pumps of a call start: nothing else of them changes.
LEMMA PumpSessionMoves ==
    ASSUME NEW s, NEW rest, NEW settled, PumpSession(s, rest, settled), NEW q \in Runs
    PROVE  phase'[q] \in {"starting", "inMain", settled[q]}
  BY DEF PumpSession, PumpMain

\* runEmbeddedPiAgent is an enqueue in the lane of its session (run.ts:71).
LEMMA SubmitIsEnqueue ==
    ASSUME RunsInv, NEW r \in Runs, NEW s \in Sessions, Submit(r, s)
    PROVE  SessionLanes!Next /\ [GlobalLane!Next]_(GlobalLane!vars)
  <1> DEFINE settled == [phase EXCEPT ![r] = "inSession"]
  <1>1. /\ RunsInv' /\ Scheduled
        /\ SessionPumps(s, Pushed(sessionLane[s], r), Holders(s))
    BY SubmitKeepsInv
  <1>2. /\ phase[r] = "new" /\ home' = [home EXCEPT ![r] = s]
        /\ PumpSession(s, Pushed(sessionLane[s], r), settled)
    BY DEF Submit
  <1>3. /\ TypeOK /\ SubmittedHaveHome /\ SubmittedHaveHome'
    BY <1>1 DEF RunsInv, LanesInv
  <1>4. /\ settled[r] = "inSession" /\ \A q \in Runs \ {r} : settled[q] = phase[q]
        /\ home'[r] = s /\ \A q \in Runs \ {r} : home'[q] = home[q]
    BY <1>2, <1>3 DEF TypeOK
  <1> HIDE DEF settled
  <1>5. \A q \in Runs : phase'[q] \in {"starting", "inMain", settled[q]}
    BY <1>2, PumpSessionMoves
  <1>6. phase'[r] \notin {"new", "done"}
    BY <1>4, <1>5
  <1>7. \A q \in Runs \ {r} : /\ phase'[q] = "new" <=> phase[q] = "new"
                              /\ phase'[q] = "done" <=> phase[q] = "done"
    <2> SUFFICES ASSUME NEW q \in Runs \ {r}
                 PROVE  /\ phase'[q] = "new" <=> phase[q] = "new"
                        /\ phase'[q] = "done" <=> phase[q] = "done"
      OBVIOUS
    <2>1. phase'[q] = "new" <=> phase[q] = "new"
      BY <1>3, <1>4 DEF SubmittedHaveHome
    <2>2. phase[q] = "done" => phase'[q] = "done"
      BY <1>1 DEF Scheduled, RunMoves, Executing
    <2>3. QED
      BY <1>4, <1>5, <2>1, <2>2
  <1>8. SessionPromise[r] = "none"
    BY <1>2, PromiseFacts
  <1>9. SessionPromise' = [SessionPromise EXCEPT ![r] = "pending"]
    <2>1. SessionPromise'[r] = "pending"
      BY <1>6, PromiseFactsPrimed
    <2>2. ASSUME NEW q \in Runs \ {r} PROVE SessionPromise'[q] = SessionPromise[q]
      BY <1>7, PromiseKept
    <2>3. \A q \in Runs : SessionPromise'[q] = IF q = r THEN "pending" ELSE SessionPromise[q]
      BY <2>1, <2>2
    <2>4. QED
      BY <2>3, PromiseDomains
  <1>10. SessionLanes!Drain(s, SessionLanes!Pushed(sessionLane[s], r),
                            [t \in Sessions |-> Holders(t)][s])
    <2>1. SessionLanes!Drain(s, Pushed(sessionLane[s], r), Holders(s))
      BY <1>1, SessionPumpIsDrain
    <2>2. QED
      BY <2>1, SameTransitions
  <1>11. SessionLanes!Enqueue(s, r)
    BY <1>8, <1>9, <1>10 DEF SessionLanes!Enqueue
  <1>12. SessionLanes!Next
    BY <1>11 DEF SessionLanes!Next
  <1>13. QED
    BY <1>1, <1>12, SessionPumpIsGlobalStep

\* The wrapper in the session lane settles after the one in the global lane.
LEMMA LeaveSessionIsSettle ==
    ASSUME RunsInv, NEW r \in Runs, LeaveSession(r)
    PROVE  SessionLanes!Next /\ [GlobalLane!Next]_(GlobalLane!vars)
  <1> DEFINE settled == [phase EXCEPT ![r] = "done"]
  <1>1. PICK s : s = home[r]
    OBVIOUS
  <1>2. /\ phase[r] = "leaving" /\ PumpSession(s, Released(sessionLane[s]), settled)
        /\ UNCHANGED home
    BY <1>1 DEF LeaveSession
  <1>3. TypeOK /\ s \in Sessions
    BY <1>1, <1>2 DEF RunsInv, LanesInv, TypeOK, SubmittedHaveHome
  <1>4. /\ RunsInv' /\ Scheduled
        /\ SessionPumps(s, Released(sessionLane[s]), Holders(s) \ {r})
    BY <1>1, LeaveSessionKeepsInv
  <1>5. settled[r] = "done" /\ \A q \in Runs \ {r} : settled[q] = phase[q]
    BY <1>3 DEF TypeOK
  <1> HIDE DEF settled
  <1>6. \A q \in Runs : phase'[q] \in {"starting", "inMain", settled[q]} /\ RunMoves(q)
    BY <1>2, <1>4, PumpSessionMoves DEF Scheduled
  <1>7. phase'[r] = "done"
    BY <1>2, <1>5, <1>6 DEF RunMoves, Executing
  <1>8. \A q \in Runs \ {r} : /\ phase'[q] = "new" <=> phase[q] = "new"
                              /\ phase'[q] = "done" <=> phase[q] = "done"
    <2> SUFFICES ASSUME NEW q \in Runs \ {r}
                 PROVE  /\ phase'[q] = "new" <=> phase[q] = "new"
                        /\ phase'[q] = "done" <=> phase[q] = "done"
      OBVIOUS
    <2>1. phase'[q] = "new" <=> phase[q] = "new"
      <3>1. SubmittedHaveHome /\ SubmittedHaveHome' /\ home'[q] = home[q]
        BY <1>2, <1>4 DEF RunsInv, LanesInv
      <3>2. QED
        BY <3>1 DEF SubmittedHaveHome
    <2>2. phase[q] = "done" => phase'[q] = "done"
      BY <1>6 DEF RunMoves, Executing
    <2>3. QED
      BY <1>5, <1>6, <2>1, <2>2
  <1>9. SessionPromise' = [SessionPromise EXCEPT ![r] = "resolved"]
    <2>1. SessionPromise'[r] = "resolved"
      BY <1>7, PromiseFactsPrimed
    <2>2. ASSUME NEW q \in Runs \ {r} PROVE SessionPromise'[q] = SessionPromise[q]
      BY <1>8, PromiseKept
    <2>3. \A q \in Runs : SessionPromise'[q] = IF q = r THEN "resolved" ELSE SessionPromise[q]
      BY <2>1, <2>2
    <2>4. QED
      BY <2>3, PromiseDomains
  <1>10. SessionLanes!Drain(s, SessionLanes!Released(sessionLane[s]),
                            [t \in Sessions |-> Holders(t)][s] \ {r})
    <2>1. SessionLanes!Drain(s, Released(sessionLane[s]), Holders(s) \ {r})
      BY <1>3, <1>4, SessionPumpIsDrain
    <2>2. QED
      BY <1>3, <2>1, SameTransitions
  <1>11. r \in [t \in Sessions |-> Holders(t)][s]
    BY <1>1, <1>2, <1>3 DEF Holders, HoldsSession
  <1>12. SessionLanes!Settle(s, r, "resolved")
    BY <1>9, <1>10, <1>11 DEF SessionLanes!Settle
  <1>13. SessionLanes!Finish(r)
    BY <1>3, <1>12 DEF SessionLanes!Finish, SessionLanes!Outcomes
  <1>14. SessionLanes!Next
    BY <1>13 DEF SessionLanes!Next
  <1>15. QED
    BY <1>3, <1>4, <1>14, SessionPumpIsGlobalStep

\* The end of a body settles its task in the global lane only.
LEMMA EndBodyIsSettle ==
    ASSUME RunsInv, NEW r \in Runs, phase[r] \in {"starting", "between"}, EndBody(r)
    PROVE  UNCHANGED SessionLanes!vars /\ GlobalLane!Next
  <1> DEFINE settled == [phase EXCEPT ![r] = "leaving"]
  <1>1. /\ PhasesPumped(settled)
        /\ Bodies' = (Bodies \ {r}) \cup Range(Started(Released(mainLane)))
    BY EndBodyKeepsInv
  <1>2. /\ UNCHANGED <<sessionLane, home>> /\ mainLane' = Pumped(Released(mainLane))
    BY DEF EndBody, PumpMain
  <1>3. settled[r] = "leaving" /\ \A q \in Runs \ {r} : settled[q] = phase[q]
    BY DEF RunsInv, LanesInv, TypeOK
  <1> HIDE DEF settled
  <1>4. /\ phase'[r] = "leaving"
        /\ \A q \in Runs \ {r} : \/ phase'[q] = phase[q]
                                 \/ phase[q] = "inMain" /\ phase'[q] = "starting"
    BY <1>1, <1>3 DEF PhasesPumped
  <1>5. UNCHANGED SessionLanes!vars
    BY <1>2, <1>4, SessionStutter DEF HoldsSession, Executing
  <1>6. GlobalPromise' = [GlobalPromise EXCEPT ![r] = "resolved"]
    <2>1. \A q \in Runs \ {r} : /\ q \in Parked' \cup Bodies' <=> q \in Parked \cup Bodies
                                /\ phase'[q] \in {"leaving", "done"} <=>
                                      phase[q] \in {"leaving", "done"}
      BY <1>4 DEF Parked, Bodies, Executing
    <2>2. r \notin Parked' \cup Bodies'
      BY <1>4 DEF Parked, Bodies, Executing
    <2>3. GlobalPromise'[r] = "resolved"
      BY <1>4, <2>2, PromiseFactsPrimed
    <2>4. ASSUME NEW q \in Runs \ {r} PROVE GlobalPromise'[q] = GlobalPromise[q]
      BY <2>1, PromiseKept
    <2>5. \A q \in Runs : GlobalPromise'[q] = IF q = r THEN "resolved" ELSE GlobalPromise[q]
      BY <2>3, <2>4
    <2>6. QED
      BY <2>5, PromiseDomains
  <1>7. GlobalLane!Drain("main", GlobalLane!Released([l \in {"main"} |-> mainLane]["main"]),
                         [l \in {"main"} |-> Bodies]["main"] \ {r})
    BY <1>1, <1>2, OneLane, SameTransitions DEF GlobalLane!Drain
  <1>8. r \in [l \in {"main"} |-> Bodies]["main"]
    BY DEF Bodies, Executing
  <1>9. GlobalLane!Settle("main", r, "resolved")
    BY <1>6, <1>7, <1>8 DEF GlobalLane!Settle
  <1>10. GlobalLane!Finish(r)
    BY <1>9 DEF GlobalLane!Finish, GlobalLane!Outcomes
  <1>11. QED
    BY <1>5, <1>10 DEF GlobalLane!Next

\* setCommandLaneConcurrency on the global lane.
LEMMA SetMainConcurrencyIsResize ==
    ASSUME RunsInv, NEW n \in 1..MaxLimit, SetMainConcurrency(n)
    PROVE  UNCHANGED SessionLanes!vars /\ GlobalLane!Next
  <1>1. /\ PhasesPumped(phase)
        /\ Bodies' = Bodies \cup Range(Started(Resized(mainLane, n)))
    BY SetMainConcurrencyKeepsInv
  <1>2. UNCHANGED <<sessionLane, home>> /\ mainLane' = Pumped(Resized(mainLane, n))
    BY DEF SetMainConcurrency, PumpMain
  <1>3. \A q \in Runs :
           \/ phase'[q] = phase[q]
           \/ phase[q] = "inMain" /\ phase'[q] = "starting"
    BY <1>1 DEF PhasesPumped
  <1>4. UNCHANGED SessionLanes!vars
    BY <1>2, <1>3, SessionStutter DEF HoldsSession, Executing
  <1>5. GlobalPromise' = GlobalPromise
    <2>1. \A q \in Runs : /\ q \in Parked' \cup Bodies' <=> q \in Parked \cup Bodies
                          /\ phase'[q] \in {"leaving", "done"} <=>
                                phase[q] \in {"leaving", "done"}
      BY <1>3 DEF Parked, Bodies, Executing
    <2>2. ASSUME NEW q \in Runs PROVE GlobalPromise'[q] = GlobalPromise[q]
      BY <2>1, PromiseKept
    <2>3. QED
      BY <2>2, PromiseDomains
  <1>6. GlobalLane!Drain("main", GlobalLane!Resized([l \in {"main"} |-> mainLane]["main"], n),
                         [l \in {"main"} |-> Bodies]["main"])
    BY <1>1, <1>2, OneLane, SameTransitions DEF GlobalLane!Drain
  <1>7. GlobalLane!SetConcurrency("main", n)
    BY <1>5, <1>6 DEF GlobalLane!SetConcurrency
  <1>8. n \in 0..MaxLimit
    BY RunsAssumption
  <1>9. QED
    BY <1>4, <1>7, <1>8 DEF GlobalLane!Next

\* A clear of a session empties its lane and does not reach the global one.
LEMMA ClearAndAbortIsClear ==
    ASSUME RunsInv, NEW s \in Sessions, ClearAndAbort(s)
    PROVE  SessionLanes!Next /\ UNCHANGED GlobalLane!vars
  <1>1. sessionLane' = [sessionLane EXCEPT ![s] = Cleared(sessionLane[s])]
    BY DEF ClearAndAbort, RunsInv, LanesInv, TypeOK
  <1>2. /\ UNCHANGED <<home, mainLane>>
        /\ \A r \in Runs : \/ phase'[r] = phase[r]
                           \/ phase[r] = "inSession" /\ phase'[r] = "dropped"
    BY ClearAndAbortKeepsInv DEF Dropped
  <1>3. \A t \in Sessions : Holders(t)' = Holders(t)
    BY <1>2 DEF Holders, HoldsSession, Executing
  <1>4. SessionPromise' = SessionPromise
    <2>1. \A r \in Runs : SessionPromise'[r] = SessionPromise[r]
      BY <1>2, PromiseFacts, PromiseFactsPrimed
    <2>2. QED
      BY <2>1, PromiseDomains
  <1>5. SessionLanes!Clear(s)
    BY <1>1, <1>3, <1>4, SameTransitions DEF SessionLanes!Clear
  <1>6. UNCHANGED GlobalLane!vars
    BY <1>2, GlobalStutter DEF Executing
  <1>7. QED
    BY <1>5, <1>6 DEF SessionLanes!Next

\* Every other step is one of a body, of a handle or of a waiter: both levels of
\* lanes stay as they are.
LEMMA OtherStepsStutter ==
    ASSUME RunsInv, UNCHANGED <<sessionLane, mainLane, home>>,
           \A q \in Runs :
              \/ phase'[q] = phase[q]
              \/ phase[q] \in Executing /\ phase'[q] \in Executing
    PROVE  UNCHANGED SessionLanes!vars /\ UNCHANGED GlobalLane!vars
  <1>1. UNCHANGED SessionLanes!vars
    BY SessionStutter DEF HoldsSession, Executing
  <1>2. UNCHANGED GlobalLane!vars
    BY GlobalStutter DEF Executing
  <1>3. QED
    BY <1>1, <1>2

\* Each step, on both levels.
LEMMA StepsAreLaneSteps ==
    RunsInv /\ [Next]_vars =>
        [SessionLanes!Next]_(SessionLanes!vars) /\ [GlobalLane!Next]_(GlobalLane!vars)
  <1> DEFINE Goal == /\ [SessionLanes!Next]_(SessionLanes!vars)
                     /\ [GlobalLane!Next]_(GlobalLane!vars)
             Still == /\ UNCHANGED <<sessionLane, mainLane, home>>
                      /\ \A q \in Runs :
                            \/ phase'[q] = phase[q]
                            \/ phase[q] \in Executing /\ phase'[q] \in Executing
  <1> SUFFICES ASSUME RunsInv, [Next]_vars PROVE Goal
    OBVIOUS
  <1>1. ASSUME Still PROVE Goal
    <2>1. UNCHANGED SessionLanes!vars /\ UNCHANGED GlobalLane!vars
      BY <1>1, OtherStepsStutter
    <2>2. QED
      BY <2>1
  <1>2. ASSUME NEW r \in Runs, EndBody(r), phase[r] \in {"starting", "between"} PROVE Goal
    BY <1>2, EndBodyIsSettle
  <1>3. phase \in [Runs -> Phases]
    BY DEF RunsInv, LanesInv, TypeOK
  <1> HIDE DEF Goal
  <1>4. ASSUME NEW r \in Runs, NEW s \in Sessions, Submit(r, s) PROVE Goal
    BY <1>4, SubmitIsEnqueue DEF Goal
  <1>5. ASSUME NEW r \in Runs, Begin(r) PROVE Goal
    <2>1. CASE StartAttempt(r)
      BY <1>1, <1>3, <2>1 DEF StartAttempt, Executing
    <2>2. CASE FailBeforeAttempt(r)
      BY <1>2, <2>2 DEF FailBeforeAttempt
    <2>3. QED
      BY <1>5, <2>1, <2>2 DEF Begin
  <1>6. ASSUME NEW r \in Runs, TimeOutAttempt(r) \/ EndAttempt(r) PROVE Goal
    BY <1>1, <1>3, <1>6 DEF TimeOutAttempt, EndAttempt, Executing
  <1>7. ASSUME NEW r \in Runs, Decide(r) PROVE Goal
    <2>1. CASE Retry(r)
      BY <1>1, <1>3, <2>1 DEF Retry, Executing
    <2>2. CASE Conclude(r)
      BY <1>2, <2>2 DEF Conclude
    <2>3. QED
      BY <1>7, <2>1, <2>2 DEF Decide
  <1>8. ASSUME NEW r \in Runs, LeaveSession(r) PROVE Goal
    BY <1>8, LeaveSessionIsSettle DEF Goal
  <1>9. ASSUME NEW n \in 1..MaxLimit, SetMainConcurrency(n) PROVE Goal
    BY <1>9, SetMainConcurrencyIsResize DEF Goal
  <1>10. ASSUME NEW s \in Sessions, ClearAndAbort(s) PROVE Goal
    BY <1>10, ClearAndAbortIsClear DEF Goal
  <1>11. ASSUME NEW w \in Waiters, WaitTimesOut(w) \/ \E s \in Sessions : WaitForRunEnd(w, s)
         PROVE  Goal
    BY <1>1, <1>11 DEF WaitTimesOut, WaitForRunEnd
  <1>12. CASE UNCHANGED vars
    BY <1>1, <1>12 DEF vars
  <1>13. Goal
    BY <1>4, <1>5, <1>6, <1>7, <1>8, <1>9, <1>10, <1>11, <1>12 DEF Next
  <1>14. QED
    BY <1>13 DEF Goal

\* The session lanes, and the global lane the runs go on to, are lanes of
\* CommandLanes: what it says of one lane (its order, its limit, no backlog
\* beside a free slot, callers dropped by a clear only) holds on both levels.
THEOREM RunsImplementLanes == Spec => ImplementsLanes
  <1>1. Init => SessionLanes!Init /\ GlobalLane!Init
    <2> SUFFICES ASSUME Init PROVE SessionLanes!Init /\ GlobalLane!Init
      OBVIOUS
    <2>1. /\ sessionLane = [s \in Sessions |-> NewLane] /\ mainLane = NewLane
          /\ \A r \in Runs : phase[r] = "new"
      BY DEF Init
    <2>2. Bodies = {} /\ Parked = {} /\ \A s \in Sessions : Holders(s) = {}
      BY <2>1 DEF Bodies, Parked, Holders, HoldsSession, Executing
    <2>3. \A r \in Runs : SessionPromise[r] = "none" /\ GlobalPromise[r] = "none"
      BY <2>1, <2>2, PromiseFacts
    <2>4. /\ SessionPromise = [r \in Runs |-> "none"]
          /\ GlobalPromise = [r \in Runs |-> "none"]
      BY <2>3, PromiseDomains
    <2>5. SessionLanes!Init
      BY <2>1, <2>2, <2>4, SameTransitions DEF SessionLanes!Init
    <2>6. GlobalLane!Init
      BY <2>1, <2>2, <2>4, SameTransitions DEF GlobalLane!Init
    <2>7. QED
      BY <2>5, <2>6
  <1>2. QED
    BY <1>1, StepsAreLaneSteps, RunsInvariant, PTL
       DEF Spec, ImplementsLanes, SessionLanes!Spec, GlobalLane!Spec

\* The nested lanes refine the scheduler's contract, and each level refines the
\* lanes of command-queue.ts: what the run agent_runs checks, for any instance.
THEOREM RunsImplementBoth == Spec => ImplementsBoth
  BY RunsImplementContract, RunsImplementLanes DEF ImplementsBoth
===============================================================================
