--------------------------- MODULE Subagents_proofs ---------------------------
(***************************************************************************)
(* That a sub-agent is announced once, that no cleanup is final without    *)
(* it, and that no registered run is forgotten: for any number of runs,    *)
(* end events and restarts.                                                *)
(***************************************************************************)
EXTENDS Subagents, TLAPS

-----------------------------------------------------------------------------
(* The invariant.                                                          *)

\* What is persisted of an entry is the entry; only a sweep persists later.
DiskFollows == \A r \in Runs : entry[r] # {} => disk[r] = entry[r]

\* A run that was registered is one for ever; of any other nothing is on its way.
Known(r) == entry[r] # {} \/ r \in finished \/ "archived" \in marks[r]
Untouched(r) ==
    /\ disk[r] = {} /\ flow[r] = "none" /\ inbox[r] = 0
    /\ r \notin queued /\ r \notin waiting /\ r \notin dedupe
    /\ "unheard" \notin marks[r]
NothingFromNowhere ==
    \A r \in Runs : /\ child[r] = "none" => ~Known(r)
                    /\ ~Known(r) => Untouched(r)

\* Who completes a cleanup has handled it, and a flow handles an end.
RecordsAreInOrder ==
    \A r \in Runs : \A e \in disk[r] :
        /\ e.completed => e.handled
        /\ e.handled => e.ended
        /\ flow[r] # "none" => e.handled

\* The announcement has been made, or will be by the announce queue.
Announced(r) == inbox[r] > 0 \/ r \in queued
\* It is made once: then nothing begins another, the flow that made it returns
\* true, and the queue does not hold what has been said.
OnceIsEnough ==
    \A r \in Runs : "doubtful" \notin marks[r] =>
        /\ inbox[r] <= 1 /\ (r \in queued => inbox[r] = 0)
        /\ Announced(r) =>
              /\ \A e \in disk[r] : e.handled
              /\ flow[r] \notin {"settling", "sending"}
              /\ flow[r] \in {"cleaning", "finalizing"} => said[r]

\* A flow that will return true has announced, or the announce queue dropped it.
TrueIsAnnounced ==
    \A r \in Runs :
        /\ flow[r] = "asked" \/ r \in dedupe => inbox[r] > 0
        /\ flow[r] \in {"cleaning", "finalizing"} /\ said[r] =>
              Announced(r) \/ "dropped" \in marks[r]

\* What is on disk only has been swept.
SweepLags == \A r \in Runs : entry[r] = {} /\ disk[r] # {} => "archived" \in marks[r]

\* A cleanup that was begun goes on, is completed, or was cut short by a crash;
\* an end that has not come is waited for, unless the waiting call failed.
HandledIsInHand ==
    \A r \in Runs : \A e \in entry[r] :
        e.handled => \/ e.completed \/ flow[r] # "none"
                     \/ marks[r] \cap {"interrupted", "archived"} # {}
EndIsAwaited ==
    \A r \in Runs : \A e \in entry[r] :
        ~e.ended => r \in waiting \/ "unheard" \in marks[r]

SubagentsInv ==
    /\ TypeOK /\ DiskFollows /\ NothingFromNowhere /\ RecordsAreInOrder
    /\ OnceIsEnough /\ TrueIsAnnounced /\ FinishedIsAnnounced
    /\ SweepLags /\ HandledIsInHand /\ EndIsAwaited

-----------------------------------------------------------------------------
(* The steps.                                                              *)

\* What hearing of an end does to the records of a run, and to those of others.
LEMMA HearEndFacts ==
    ASSUME TypeOK, NEW r \in Runs, HearEnd(r)
    PROVE  /\ entry' \in [Runs -> SUBSET Record] /\ disk' \in [Runs -> SUBSET Record]
           /\ flow' \in [Runs -> Flows]
           /\ \A q \in Runs : \A d, e \in entry'[q] : d = e
           /\ \A q \in Runs \ {r} : entry'[q] = entry[q] /\ flow'[q] = flow[q]
           /\ \A e \in entry'[r] : \E d \in entry[r] :
                 /\ e.ended /\ (e.handled <=> d.handled \/ Begins(d))
                 /\ e.completed <=> d.completed
           /\ entry[r] = {} => entry'[r] = {} /\ flow'[r] = flow[r]
           /\ entry[r] # {} => entry'[r] # {}
           /\ disk' = entry' \/ (entry[r] = {} /\ disk' = disk)
           /\ (\E d \in entry[r] : Begins(d)) => flow'[r] = "settling"
           /\ (\A d \in entry[r] : ~Begins(d)) => flow'[r] = flow[r]
<1>. DEFINE Heard(e) == [e EXCEPT !.ended = TRUE, !.handled = @ \/ Begins(e)]
<1>1. /\ entry' = [entry EXCEPT ![r] = {Heard(e) : e \in entry[r]}]
      /\ disk' = IF entry[r] = {} THEN disk ELSE entry'
      /\ flow' = [flow EXCEPT ![r] =
             IF \E e \in entry[r] : Begins(e) THEN "settling" ELSE flow[r]]
    BY DEF HearEnd, Flows_
<1>2. entry \in [Runs -> SUBSET Record] /\ disk \in [Runs -> SUBSET Record]
      /\ flow \in [Runs -> Flows] /\ \A q \in Runs : \A d, e \in entry[q] : d = e
    BY DEF TypeOK
<1>3. ASSUME NEW e \in Record
      PROVE  /\ Heard(e) \in Record
             /\ Heard(e).ended /\ (Heard(e).handled <=> e.handled \/ Begins(e))
             /\ Heard(e).completed <=> e.completed
    BY DEF Record
<1>. HIDE DEF Heard
<1>4. entry'[r] = {Heard(e) : e \in entry[r]}
    BY <1>1, <1>2
<1>5. entry' \in [Runs -> SUBSET Record] /\ \A q \in Runs : \A d, e \in entry'[q] : d = e
    BY <1>1, <1>2, <1>3
<1>6. \A e \in entry'[r] : \E d \in entry[r] :
          /\ e.ended /\ (e.handled <=> d.handled \/ Begins(d))
          /\ e.completed <=> d.completed
    BY <1>2, <1>3, <1>4
<1>7. flow' \in [Runs -> Flows]
    BY <1>1, <1>2 DEF Flows
<1>. QED
    BY <1>1, <1>2, <1>4, <1>5, <1>6, <1>7

\* What the end of a flow does to them.
LEMMA FinalizeFacts ==
    ASSUME TypeOK, NEW r \in Runs, Finalize(r)
    PROVE  /\ entry' \in [Runs -> SUBSET Record] /\ disk' \in [Runs -> SUBSET Record]
           /\ \A q \in Runs : \A d, e \in entry'[q] : d = e
           /\ \A q \in Runs \ {r} : entry'[q] = entry[q]
           /\ entry'[r] = {} => entry[r] = {} \/ (said[r] /\ r \in Deletes)
           /\ \A e \in entry'[r] : \E d \in entry[r] :
                 (e.ended <=> d.ended) /\ (e.handled <=> said[r]) /\ (e.completed <=> said[r])
           /\ entry[r] = {} => entry'[r] = {}
           /\ disk' = entry' \/ (entry[r] = {} /\ disk' = disk)
<1>. DEFINE Left(e) == [e EXCEPT !.handled = said[r], !.completed = said[r]]
<1>1. /\ entry' = [entry EXCEPT ![r] =
             IF said[r] /\ r \in Deletes THEN {} ELSE {Left(e) : e \in entry[r]}]
      /\ disk' = IF entry[r] = {} THEN disk ELSE entry'
    BY DEF Finalize
<1>2. /\ entry \in [Runs -> SUBSET Record] /\ disk \in [Runs -> SUBSET Record]
      /\ said[r] \in BOOLEAN /\ \A q \in Runs : \A d, e \in entry[q] : d = e
    BY DEF TypeOK
<1>3. ASSUME NEW e \in Record
      PROVE  /\ Left(e) \in Record
             /\ Left(e).ended <=> e.ended
             /\ (Left(e).handled <=> said[r]) /\ (Left(e).completed <=> said[r])
    BY <1>2 DEF Record
<1>. HIDE DEF Left
<1>4. entry'[r] = IF said[r] /\ r \in Deletes THEN {} ELSE {Left(e) : e \in entry[r]}
    BY <1>1, <1>2
<1>5. entry' \in [Runs -> SUBSET Record] /\ \A q \in Runs : \A d, e \in entry'[q] : d = e
    BY <1>1, <1>2, <1>3
<1>6. \A e \in entry'[r] : \E d \in entry[r] :
          (e.ended <=> d.ended) /\ (e.handled <=> said[r]) /\ (e.completed <=> said[r])
    BY <1>2, <1>3, <1>4
<1>. QED
    BY <1>1, <1>2, <1>4, <1>5, <1>6

\* What a restart makes of what is on disk.
LEMMA RestartFacts ==
    ASSUME TypeOK, Restart
    PROVE  /\ entry' \in [Runs -> SUBSET Record] /\ disk' = entry'
           /\ \A q \in Runs : \A d, e \in entry'[q] : d = e
           /\ \A q \in Runs : entry'[q] = {} <=> disk[q] = {}
           /\ \A q \in Runs : \A e \in entry'[q] : \E d \in disk[q] :
                 /\ e.ended <=> d.ended
                 /\ e.handled <=> (d.handled \/ (d.ended /\ Begins(d)))
                 /\ e.completed <=> d.completed
<1>. DEFINE Back(e) == [e EXCEPT !.handled = @ \/ (e.ended /\ Begins(e))]
<1>1. entry' = [q \in Runs |-> {Back(e) : e \in disk[q]}] /\ disk' = entry'
    BY DEF Restart
<1>2. disk \in [Runs -> SUBSET Record] /\ \A q \in Runs : \A d, e \in disk[q] : d = e
    BY DEF TypeOK
<1>3. ASSUME NEW e \in Record
      PROVE  /\ Back(e) \in Record
             /\ Back(e).ended <=> e.ended
             /\ Back(e).handled <=> (e.handled \/ (e.ended /\ Begins(e)))
             /\ Back(e).completed <=> e.completed
    BY DEF Record
<1>. HIDE DEF Back
<1>4. entry' \in [Runs -> SUBSET Record] /\ \A q \in Runs : \A d, e \in entry'[q] : d = e
    BY <1>1, <1>2, <1>3
<1>5. \A q \in Runs : entry'[q] = {Back(e) : e \in disk[q]}
    BY <1>1
<1>6. ASSUME NEW q \in Runs, NEW e \in entry'[q]
      PROVE  \E d \in disk[q] :
                 /\ e.ended <=> d.ended
                 /\ e.handled <=> (d.handled \/ (d.ended /\ Begins(d)))
                 /\ e.completed <=> d.completed
    <2>1. PICK d \in disk[q] : e = Back(d)
        BY <1>5, <1>6
    <2>2. /\ Back(d).ended <=> d.ended
          /\ Back(d).handled <=> (d.handled \/ (d.ended /\ Begins(d)))
          /\ Back(d).completed <=> d.completed
        BY <1>2, <1>3
    <2>. QED
        BY <2>1, <2>2
<1>7. \A q \in Runs : entry'[q] = {} <=> disk[q] = {}
    BY <1>5
<1>. QED
    BY <1>1, <1>4, <1>6, <1>7

\* Every step keeps the types.
LEMMA TypesKept ==
    ASSUME TypeOK, [Next]_vars
    PROVE  TypeOK'
<1>. USE SubagentsAssumption DEF TypeOK, Children, Flows, Marks
<1>1. ASSUME NEW r \in Runs, StartChild(r)
      PROVE  TypeOK'
    BY <1>1
    DEF StartChild, Becomes, gateway
<1>2. ASSUME NEW r \in Runs, Register(r)
      PROVE  TypeOK'
    <2>1. Fresh \in Record
        BY DEF Fresh, Record
    <2>. QED
        BY <1>2, <2>1 DEF Register
<1>3. ASSUME NEW r \in Runs, SpawnFails(r)
      PROVE  TypeOK'
    BY <1>3
    DEF SpawnFails, Mark, Unregistered, gateway
<1>4. ASSUME NEW r \in Runs, ChildEmitsEnd(r)
      PROVE  TypeOK'
    <2>1. child' \in [Runs -> Children] /\ ends' \in [Runs -> 0..MaxEnds]
        BY <1>4 DEF ChildEmitsEnd, Becomes
    <2>. QED
        BY <1>4, <2>1, HearEndFacts DEF ChildEmitsEnd
<1>5. ASSUME NEW r \in Runs, ChildGoesOn(r)
      PROVE  TypeOK'
    BY <1>5
    DEF ChildGoesOn, Becomes, gateway
<1>6. ASSUME NEW r \in Runs, WaitAnswers(r)
      PROVE  TypeOK'
    BY <1>6, HearEndFacts DEF WaitAnswers
<1>7. ASSUME NEW r \in Runs, WaitFails(r)
      PROVE  TypeOK'
    BY <1>7
    DEF WaitFails, Mark
<1>8. ASSUME NEW r \in Runs, Settle(r)
      PROVE  TypeOK'
    BY <1>8
    DEF Settle, Flows_
<1>9. ASSUME NEW r \in Runs, Defer(r)
      PROVE  TypeOK'
    BY <1>9
    DEF Defer, Flows_, Mark
<1>10. ASSUME NEW r \in Runs, Steer(r)
      PROVE  TypeOK'
    BY <1>10
    DEF Steer, Ends, Flows_, Reaches
<1>11. ASSUME NEW r \in Runs, Queue(r)
      PROVE  TypeOK'
    BY <1>11
    DEF Queue, Ends, Flows_, Mark
<1>12. ASSUME NEW r \in Runs, Ask(r)
      PROVE  TypeOK'
    BY <1>12
    DEF Ask, Flows_, Reaches
<1>13. ASSUME NEW r \in Runs, Answered(r)
      PROVE  TypeOK'
    BY <1>13
    DEF Answered, Ends, Flows_
<1>14. ASSUME NEW r \in Runs, SendFails(r)
      PROVE  TypeOK'
    BY <1>14
    DEF SendFails, Ends, Flows_
<1>15. ASSUME NEW r \in Runs, CleanUp(r)
      PROVE  TypeOK'
    BY <1>15
    DEF CleanUp, Flows_
<1>16. ASSUME NEW r \in Runs, Finalize(r)
      PROVE  TypeOK'
    <2>1. flow' \in [Runs -> Flows] /\ said' \in [Runs -> BOOLEAN] /\ finished' \subseteq Runs
        BY <1>16 DEF Finalize, Flows_
    <2>2. /\ entry' \in [Runs -> SUBSET Record] /\ disk' \in [Runs -> SUBSET Record]
          /\ \A q \in Runs : (\A d, e \in entry'[q] : d = e) /\ (\A d, e \in disk'[q] : d = e)
        BY <1>16, FinalizeFacts
    <2>3. UNCHANGED <<child, ends, session, waiting, sweeping, queued, dedupe, inbox,
                      marks, crashes>>
        BY <1>16 DEF Finalize
    <2>. QED
        BY <1>16, <2>1, <2>2, <2>3
<1>17. ASSUME NEW r \in Runs, QueueSends(r)
      PROVE  TypeOK'
    BY <1>17
    DEF QueueSends, Reaches, Mark
<1>18. ASSUME NEW r \in Runs, SweepEntry(r)
      PROVE  TypeOK'
    BY <1>18
    DEF SweepEntry, Mark
<1>19. ASSUME NEW r \in Runs, Forget(r)
      PROVE  TypeOK'
    BY <1>19
    DEF Forget
<1>20. CASE SweepEnds
    BY <1>20
    DEF SweepEnds
<1>21. CASE Restart
    <2>1. /\ child' \in [Runs -> Children] /\ flow' \in [Runs -> Flows]
          /\ said' \in [Runs -> BOOLEAN] /\ marks' \in [Runs -> SUBSET Marks]
          /\ waiting' \subseteq Runs /\ crashes' \in 0..MaxCrashes
          /\ sweeping' = FALSE /\ queued' = {} /\ dedupe' = {}
        BY <1>21 DEF Restart
    <2>2. UNCHANGED <<ends, session, inbox, finished>>
        BY <1>21 DEF Restart
    <2>3. /\ entry' \in [Runs -> SUBSET Record] /\ disk' \in [Runs -> SUBSET Record]
          /\ \A q \in Runs : (\A d, e \in entry'[q] : d = e) /\ (\A d, e \in disk'[q] : d = e)
        BY <1>21, RestartFacts
    <2>. QED
        BY <2>1, <2>2, <2>3
<1>22. CASE UNCHANGED vars
    BY <1>22
    DEF vars
<1>. QED
    BY <1>1, <1>2, <1>3, <1>4, <1>5, <1>6, <1>7, <1>8, <1>9, <1>10, <1>11,
       <1>12, <1>13, <1>14, <1>15, <1>16, <1>17, <1>18, <1>19, <1>20, <1>21,
       <1>22
    DEF Next, ChildStep, FlowStep

\* Hearing of an end keeps the records in order, as far as nothing else moves.
LEMMA HearEndKeepsShape ==
    ASSUME TypeOK, DiskFollows, NothingFromNowhere, RecordsAreInOrder,
           NEW r \in Runs, HearEnd(r),
           \A q \in Runs : child'[q] = "none" <=> child[q] = "none",
           waiting' \subseteq waiting,
           UNCHANGED <<queued, dedupe, inbox, finished, marks>>
    PROVE  DiskFollows' /\ NothingFromNowhere' /\ RecordsAreInOrder'
<1>1. DiskFollows'
    BY HearEndFacts DEF DiskFollows
<1>2. NothingFromNowhere'
    BY HearEndFacts DEF NothingFromNowhere, Known, Untouched, DiskFollows
<1>3. RecordsAreInOrder'
    BY HearEndFacts DEF RecordsAreInOrder, DiskFollows, Begins
<1>. QED
    BY <1>1, <1>2, <1>3

\* Every step keeps the records in order, and invents none.
LEMMA ShapeKept ==
    ASSUME TypeOK, DiskFollows, NothingFromNowhere, RecordsAreInOrder, [Next]_vars
    PROVE  DiskFollows' /\ NothingFromNowhere' /\ RecordsAreInOrder'
<1>1. ASSUME NEW r \in Runs, StartChild(r)
      PROVE  DiskFollows' /\ NothingFromNowhere' /\ RecordsAreInOrder'
    BY <1>1
    DEF StartChild, Becomes, gateway, TypeOK, DiskFollows, NothingFromNowhere,
        Known, Untouched, RecordsAreInOrder
<1>2. ASSUME NEW r \in Runs, Register(r)
      PROVE  DiskFollows' /\ NothingFromNowhere' /\ RecordsAreInOrder'
    <2>1. /\ child[r] # "none" /\ ~Known(r) /\ Untouched(r)
          /\ entry' = [entry EXCEPT ![r] = {Fresh}] /\ disk' = entry'
          /\ waiting' = waiting \cup {r}
          /\ UNCHANGED <<child, flow, queued, dedupe, inbox, finished, marks>>
        BY <1>2 DEF Register, Unregistered, Known, NothingFromNowhere
    <2>2. DiskFollows' /\ NothingFromNowhere'
        BY <2>1 DEF TypeOK, DiskFollows, NothingFromNowhere, Known, Untouched
    <2>3. ~Fresh.completed /\ ~Fresh.handled
        BY DEF Fresh
    <2>4. RecordsAreInOrder'
        BY <2>1, <2>3 DEF TypeOK, RecordsAreInOrder, DiskFollows, Untouched
    <2>. QED
        BY <2>2, <2>4
<1>3. ASSUME NEW r \in Runs, SpawnFails(r)
      PROVE  DiskFollows' /\ NothingFromNowhere' /\ RecordsAreInOrder'
    BY <1>3
    DEF SpawnFails, Mark, Unregistered, gateway, TypeOK, DiskFollows,
        NothingFromNowhere, Known, Untouched, RecordsAreInOrder
<1>4. ASSUME NEW r \in Runs, ChildEmitsEnd(r)
      PROVE  DiskFollows' /\ NothingFromNowhere' /\ RecordsAreInOrder'
    <2>1. /\ child[r] = "active" /\ child' = [child EXCEPT ![r] = "ending"]
          /\ UNCHANGED <<waiting, queued, dedupe, inbox, finished, marks>>
        BY <1>4 DEF ChildEmitsEnd, Becomes
    <2>2. HearEnd(r)
        BY <1>4 DEF ChildEmitsEnd
    <2>3. \A q \in Runs : child'[q] = "none" <=> child[q] = "none"
        BY <2>1 DEF TypeOK
    <2>. QED
        BY <2>1, <2>2, <2>3, HearEndKeepsShape
<1>5. ASSUME NEW r \in Runs, ChildGoesOn(r)
      PROVE  DiskFollows' /\ NothingFromNowhere' /\ RecordsAreInOrder'
    BY <1>5
    DEF ChildGoesOn, Becomes, gateway, TypeOK, DiskFollows,
        NothingFromNowhere, Known, Untouched, RecordsAreInOrder
<1>6. ASSUME NEW r \in Runs, WaitAnswers(r)
      PROVE  DiskFollows' /\ NothingFromNowhere' /\ RecordsAreInOrder'
    <2>1. /\ waiting' \subseteq waiting /\ HearEnd(r)
          /\ UNCHANGED <<child, queued, dedupe, inbox, finished, marks>>
        BY <1>6 DEF WaitAnswers
    <2>. QED
        BY <2>1, HearEndKeepsShape
<1>7. ASSUME NEW r \in Runs, WaitFails(r)
      PROVE  DiskFollows' /\ NothingFromNowhere' /\ RecordsAreInOrder'
    BY <1>7
    DEF WaitFails, Mark, TypeOK, DiskFollows, NothingFromNowhere, Known,
        Untouched, RecordsAreInOrder
<1>8. ASSUME NEW r \in Runs, Settle(r)
      PROVE  DiskFollows' /\ NothingFromNowhere' /\ RecordsAreInOrder'
    BY <1>8
    DEF Settle, Flows_, TypeOK, DiskFollows, NothingFromNowhere, Known,
        Untouched, RecordsAreInOrder
<1>9. ASSUME NEW r \in Runs, Defer(r)
      PROVE  DiskFollows' /\ NothingFromNowhere' /\ RecordsAreInOrder'
    BY <1>9
    DEF Defer, Flows_, Mark, TypeOK, DiskFollows, NothingFromNowhere, Known,
        Untouched, RecordsAreInOrder
<1>10. ASSUME NEW r \in Runs, Steer(r)
      PROVE  DiskFollows' /\ NothingFromNowhere' /\ RecordsAreInOrder'
    BY <1>10
    DEF Steer, Ends, Flows_, Reaches, TypeOK, DiskFollows, NothingFromNowhere,
        Known, Untouched, RecordsAreInOrder
<1>11. ASSUME NEW r \in Runs, Queue(r)
      PROVE  DiskFollows' /\ NothingFromNowhere' /\ RecordsAreInOrder'
    BY <1>11
    DEF Queue, Ends, Flows_, Mark, TypeOK, DiskFollows, NothingFromNowhere,
        Known, Untouched, RecordsAreInOrder
<1>12. ASSUME NEW r \in Runs, Ask(r)
      PROVE  DiskFollows' /\ NothingFromNowhere' /\ RecordsAreInOrder'
    BY <1>12
    DEF Ask, Flows_, Reaches, TypeOK, DiskFollows, NothingFromNowhere, Known,
        Untouched, RecordsAreInOrder
<1>13. ASSUME NEW r \in Runs, Answered(r)
      PROVE  DiskFollows' /\ NothingFromNowhere' /\ RecordsAreInOrder'
    BY <1>13
    DEF Answered, Ends, Flows_, TypeOK, DiskFollows, NothingFromNowhere,
        Known, Untouched, RecordsAreInOrder
<1>14. ASSUME NEW r \in Runs, SendFails(r)
      PROVE  DiskFollows' /\ NothingFromNowhere' /\ RecordsAreInOrder'
    BY <1>14
    DEF SendFails, Ends, Flows_, TypeOK, DiskFollows, NothingFromNowhere,
        Known, Untouched, RecordsAreInOrder
<1>15. ASSUME NEW r \in Runs, CleanUp(r)
      PROVE  DiskFollows' /\ NothingFromNowhere' /\ RecordsAreInOrder'
    BY <1>15
    DEF CleanUp, Flows_, TypeOK, DiskFollows, NothingFromNowhere, Known,
        Untouched, RecordsAreInOrder
<1>16. ASSUME NEW r \in Runs, Finalize(r)
      PROVE  DiskFollows' /\ NothingFromNowhere' /\ RecordsAreInOrder'
    <2>1. /\ flow[r] # "none" /\ flow' = [flow EXCEPT ![r] = "none"]
          /\ finished' = IF said[r] /\ entry[r] # {} THEN finished \cup {r} ELSE finished
          /\ UNCHANGED <<child, waiting, queued, dedupe, inbox, marks>>
        BY <1>16 DEF Finalize, Flows_
    <2>. QED
        BY <1>16, <2>1, FinalizeFacts
        DEF TypeOK, DiskFollows, NothingFromNowhere, Known, Untouched, RecordsAreInOrder
<1>17. ASSUME NEW r \in Runs, QueueSends(r)
      PROVE  DiskFollows' /\ NothingFromNowhere' /\ RecordsAreInOrder'
    BY <1>17
    DEF QueueSends, Reaches, Mark, TypeOK, DiskFollows, NothingFromNowhere,
        Known, Untouched, RecordsAreInOrder
<1>18. ASSUME NEW r \in Runs, SweepEntry(r)
      PROVE  DiskFollows' /\ NothingFromNowhere' /\ RecordsAreInOrder'
    BY <1>18
    DEF SweepEntry, Mark, TypeOK, DiskFollows, NothingFromNowhere, Known,
        Untouched, RecordsAreInOrder
<1>19. ASSUME NEW r \in Runs, Forget(r)
      PROVE  DiskFollows' /\ NothingFromNowhere' /\ RecordsAreInOrder'
    BY <1>19
    DEF Forget, TypeOK, DiskFollows, NothingFromNowhere, Known, Untouched,
        RecordsAreInOrder
<1>20. CASE SweepEnds
    BY <1>20
    DEF SweepEnds, TypeOK, DiskFollows, NothingFromNowhere, Known, Untouched,
        RecordsAreInOrder
<1>21. CASE Restart
    <2>1. /\ child' = [q \in Runs |->
                IF Running(q) /\ q \notin Remote THEN "over" ELSE child[q]]
          /\ waiting' = {q \in Runs : \E e \in disk[q] : ~e.ended}
          /\ flow' = [q \in Runs |-> IF Resumes(q) THEN "settling" ELSE "none"]
          /\ queued' = {} /\ dedupe' = {} /\ UNCHANGED <<inbox, finished>>
        BY <1>21 DEF Restart
    <2>2. \A q \in Runs : child'[q] = "none" <=> child[q] = "none"
        BY <2>1 DEF TypeOK, Running
    <2>3. \A q \in Runs : /\ "archived" \in marks'[q] <=> "archived" \in marks[q]
                          /\ "unheard" \notin marks'[q]
        BY <1>21 DEF Restart
    <2>4. DiskFollows'
        BY <1>21, RestartFacts DEF DiskFollows
    <2>5. NothingFromNowhere'
        BY <1>21, <2>1, <2>2, <2>3, RestartFacts
        DEF NothingFromNowhere, Known, Untouched, DiskFollows, Resumes
    <2>6. ASSUME NEW q \in Runs, NEW e \in disk'[q]
          PROVE  /\ e.completed => e.handled
                 /\ e.handled => e.ended
                 /\ flow'[q] # "none" => e.handled
        <3>1. PICK d \in disk[q] : /\ e.ended <=> d.ended
                                   /\ e.handled <=> (d.handled \/ (d.ended /\ Begins(d)))
                                   /\ e.completed <=> d.completed
            BY <1>21, <2>6, RestartFacts
        <3>2. (d.completed => d.handled) /\ (d.handled => d.ended)
            BY DEF RecordsAreInOrder
        <3>3. flow'[q] # "none" => d.ended /\ Begins(d)
            BY <2>1 DEF Resumes, TypeOK
        <3>. QED
            BY <3>1, <3>2, <3>3
    <2>. QED
        BY <2>4, <2>5, <2>6 DEF RecordsAreInOrder
<1>22. CASE UNCHANGED vars
    BY <1>22
    DEF vars, TypeOK, DiskFollows, NothingFromNowhere, Known, Untouched,
        RecordsAreInOrder
<1>. QED
    BY <1>1, <1>2, <1>3, <1>4, <1>5, <1>6, <1>7, <1>8, <1>9, <1>10, <1>11,
       <1>12, <1>13, <1>14, <1>15, <1>16, <1>17, <1>18, <1>19, <1>20, <1>21,
       <1>22
    DEF Next, ChildStep, FlowStep

\* An end that is heard begins a flow only of a run that is not announced.
LEMMA HearEndKeepsAnnounced ==
    ASSUME TypeOK, DiskFollows, OnceIsEnough, TrueIsAnnounced, FinishedIsAnnounced,
           RecordsAreInOrder, NEW r \in Runs, HearEnd(r),
           UNCHANGED <<queued, dedupe, inbox, finished, marks, said>>
    PROVE  OnceIsEnough' /\ TrueIsAnnounced' /\ FinishedIsAnnounced'
<1>1. flow'[r] = flow[r] \/ flow'[r] = "settling"
    BY HearEndFacts
<1>2. TrueIsAnnounced' /\ FinishedIsAnnounced'
    BY <1>1, HearEndFacts DEF TrueIsAnnounced, FinishedIsAnnounced, Announced
<1>3. OnceIsEnough'
    BY HearEndFacts DEF OnceIsEnough, Announced, DiskFollows, Begins
<1>. QED
    BY <1>2, <1>3

\* Every step announces once, and finalizes what is announced.
LEMMA AnnouncedKept ==
    ASSUME TypeOK, DiskFollows, NothingFromNowhere, RecordsAreInOrder,
           OnceIsEnough, TrueIsAnnounced, FinishedIsAnnounced, [Next]_vars
    PROVE  OnceIsEnough' /\ TrueIsAnnounced' /\ FinishedIsAnnounced'
<1>1. ASSUME NEW r \in Runs, StartChild(r)
      PROVE  OnceIsEnough' /\ TrueIsAnnounced' /\ FinishedIsAnnounced'
    BY <1>1
    DEF StartChild, Becomes, gateway, TypeOK, OnceIsEnough, TrueIsAnnounced,
        FinishedIsAnnounced, Announced, NothingFromNowhere, Untouched, Known,
        DiskFollows, RecordsAreInOrder
<1>2. ASSUME NEW r \in Runs, Register(r)
      PROVE  OnceIsEnough' /\ TrueIsAnnounced' /\ FinishedIsAnnounced'
    BY <1>2
    DEF Register, Unregistered, Fresh, TypeOK, OnceIsEnough, TrueIsAnnounced,
        FinishedIsAnnounced, Announced, NothingFromNowhere, Untouched, Known,
        DiskFollows, RecordsAreInOrder
<1>3. ASSUME NEW r \in Runs, SpawnFails(r)
      PROVE  OnceIsEnough' /\ TrueIsAnnounced' /\ FinishedIsAnnounced'
    BY <1>3
    DEF SpawnFails, Mark, Unregistered, gateway, TypeOK, OnceIsEnough,
        TrueIsAnnounced, FinishedIsAnnounced, Announced
<1>4. ASSUME NEW r \in Runs, ChildEmitsEnd(r)
      PROVE  OnceIsEnough' /\ TrueIsAnnounced' /\ FinishedIsAnnounced'
    <2>1. HearEnd(r) /\ UNCHANGED <<queued, dedupe, inbox, finished, marks, said>>
        BY <1>4 DEF ChildEmitsEnd
    <2>. QED
        BY <2>1, HearEndKeepsAnnounced
<1>5. ASSUME NEW r \in Runs, ChildGoesOn(r)
      PROVE  OnceIsEnough' /\ TrueIsAnnounced' /\ FinishedIsAnnounced'
    BY <1>5
    DEF ChildGoesOn, Becomes, gateway, TypeOK, OnceIsEnough, TrueIsAnnounced,
        FinishedIsAnnounced, Announced
<1>6. ASSUME NEW r \in Runs, WaitAnswers(r)
      PROVE  OnceIsEnough' /\ TrueIsAnnounced' /\ FinishedIsAnnounced'
    <2>1. HearEnd(r) /\ UNCHANGED <<queued, dedupe, inbox, finished, marks, said>>
        BY <1>6 DEF WaitAnswers
    <2>. QED
        BY <2>1, HearEndKeepsAnnounced
<1>7. ASSUME NEW r \in Runs, WaitFails(r)
      PROVE  OnceIsEnough' /\ TrueIsAnnounced' /\ FinishedIsAnnounced'
    BY <1>7
    DEF WaitFails, Mark, TypeOK, OnceIsEnough, TrueIsAnnounced,
        FinishedIsAnnounced, Announced
<1>8. ASSUME NEW r \in Runs, Settle(r)
      PROVE  OnceIsEnough' /\ TrueIsAnnounced' /\ FinishedIsAnnounced'
    BY <1>8
    DEF Settle, Flows_, TypeOK, OnceIsEnough, TrueIsAnnounced,
        FinishedIsAnnounced, Announced
<1>9. ASSUME NEW r \in Runs, Defer(r)
      PROVE  OnceIsEnough' /\ TrueIsAnnounced' /\ FinishedIsAnnounced'
    BY <1>9
    DEF Defer, Flows_, Mark, TypeOK, OnceIsEnough, TrueIsAnnounced,
        FinishedIsAnnounced, Announced
<1>10. ASSUME NEW r \in Runs, Steer(r)
      PROVE  OnceIsEnough' /\ TrueIsAnnounced' /\ FinishedIsAnnounced'
    BY <1>10
    DEF Steer, Ends, Flows_, Reaches, TypeOK, OnceIsEnough, TrueIsAnnounced,
        FinishedIsAnnounced, Announced, NothingFromNowhere, Untouched, Known,
        DiskFollows, RecordsAreInOrder
<1>11. ASSUME NEW r \in Runs, Queue(r)
      PROVE  OnceIsEnough' /\ TrueIsAnnounced' /\ FinishedIsAnnounced'
    BY <1>11
    DEF Queue, Ends, Flows_, Mark, TypeOK, OnceIsEnough, TrueIsAnnounced,
        FinishedIsAnnounced, Announced, NothingFromNowhere, Untouched, Known,
        DiskFollows, RecordsAreInOrder
<1>12. ASSUME NEW r \in Runs, Ask(r)
      PROVE  OnceIsEnough' /\ TrueIsAnnounced' /\ FinishedIsAnnounced'
    BY <1>12
    DEF Ask, Flows_, Reaches, TypeOK, OnceIsEnough, TrueIsAnnounced,
        FinishedIsAnnounced, Announced, NothingFromNowhere, Untouched, Known,
        DiskFollows, RecordsAreInOrder
<1>13. ASSUME NEW r \in Runs, Answered(r)
      PROVE  OnceIsEnough' /\ TrueIsAnnounced' /\ FinishedIsAnnounced'
    BY <1>13
    DEF Answered, Ends, Flows_, TypeOK, OnceIsEnough, TrueIsAnnounced,
        FinishedIsAnnounced, Announced
<1>14. ASSUME NEW r \in Runs, SendFails(r)
      PROVE  OnceIsEnough' /\ TrueIsAnnounced' /\ FinishedIsAnnounced'
    BY <1>14
    DEF SendFails, Ends, Flows_, TypeOK, OnceIsEnough, TrueIsAnnounced,
        FinishedIsAnnounced, Announced
<1>15. ASSUME NEW r \in Runs, CleanUp(r)
      PROVE  OnceIsEnough' /\ TrueIsAnnounced' /\ FinishedIsAnnounced'
    BY <1>15
    DEF CleanUp, Flows_, TypeOK, OnceIsEnough, TrueIsAnnounced,
        FinishedIsAnnounced, Announced
<1>16. ASSUME NEW r \in Runs, Finalize(r)
      PROVE  OnceIsEnough' /\ TrueIsAnnounced' /\ FinishedIsAnnounced'
    <2>1. /\ flow[r] = "finalizing" /\ flow' = [flow EXCEPT ![r] = "none"]
          /\ said' = [said EXCEPT ![r] = FALSE]
          /\ finished' = IF said[r] /\ entry[r] # {} THEN finished \cup {r} ELSE finished
          /\ UNCHANGED <<queued, dedupe, inbox, marks>>
        BY <1>16 DEF Finalize, Flows_
    <2>2. TrueIsAnnounced' /\ FinishedIsAnnounced'
        BY <2>1 DEF TypeOK, TrueIsAnnounced, FinishedIsAnnounced, Announced
    <2>3. OnceIsEnough'
        BY <1>16, <2>1, FinalizeFacts
        DEF TypeOK, OnceIsEnough, Announced, DiskFollows
    <2>. QED
        BY <2>2, <2>3
<1>17. ASSUME NEW r \in Runs, QueueSends(r)
      PROVE  OnceIsEnough' /\ TrueIsAnnounced' /\ FinishedIsAnnounced'
    BY <1>17
    DEF QueueSends, Reaches, Mark, TypeOK, OnceIsEnough, TrueIsAnnounced,
        FinishedIsAnnounced, Announced
<1>18. ASSUME NEW r \in Runs, SweepEntry(r)
      PROVE  OnceIsEnough' /\ TrueIsAnnounced' /\ FinishedIsAnnounced'
    BY <1>18
    DEF SweepEntry, Mark, TypeOK, OnceIsEnough, TrueIsAnnounced,
        FinishedIsAnnounced, Announced, NothingFromNowhere, Untouched, Known,
        DiskFollows, RecordsAreInOrder
<1>19. ASSUME NEW r \in Runs, Forget(r)
      PROVE  OnceIsEnough' /\ TrueIsAnnounced' /\ FinishedIsAnnounced'
    BY <1>19
    DEF Forget, TypeOK, OnceIsEnough, TrueIsAnnounced, FinishedIsAnnounced,
        Announced
<1>20. CASE SweepEnds
    BY <1>20
    DEF SweepEnds, TypeOK, OnceIsEnough, TrueIsAnnounced, FinishedIsAnnounced,
        Announced, NothingFromNowhere, Untouched, Known, DiskFollows,
        RecordsAreInOrder
<1>21. CASE Restart
    <2>1. /\ flow' = [q \in Runs |-> IF Resumes(q) THEN "settling" ELSE "none"]
          /\ queued' = {} /\ dedupe' = {} /\ UNCHANGED <<inbox, finished>>
        BY <1>21 DEF Restart
    <2>2. \A q \in Runs : /\ "doubtful" \in marks'[q] <=> "doubtful" \in marks[q]
                          /\ "dropped" \in marks[q] => "dropped" \in marks'[q]
                          /\ q \in queued => "dropped" \in marks'[q]
        BY <1>21 DEF Restart
    <2>3. TrueIsAnnounced' /\ FinishedIsAnnounced'
        BY <2>1, <2>2 DEF TypeOK, TrueIsAnnounced, FinishedIsAnnounced, Announced
    <2>4. ASSUME NEW q \in Runs, "doubtful" \notin marks'[q], Announced(q)'
          PROVE  (\A e \in disk'[q] : e.handled) /\ flow'[q] = "none"
        <3>1. \A e \in disk[q] : e.handled
            BY <2>1, <2>2, <2>4 DEF OnceIsEnough, Announced
        <3>2. flow'[q] = "none"
            BY <2>1, <3>1 DEF Resumes, Begins
        <3>. QED
            BY <1>21, <3>1, <3>2, RestartFacts
    <2>5. OnceIsEnough'
        BY <2>1, <2>2, <2>4 DEF OnceIsEnough
    <2>. QED
        BY <2>3, <2>5
<1>22. CASE UNCHANGED vars
    BY <1>22
    DEF vars, TypeOK, OnceIsEnough, TrueIsAnnounced, FinishedIsAnnounced,
        Announced
<1>. QED
    BY <1>1, <1>2, <1>3, <1>4, <1>5, <1>6, <1>7, <1>8, <1>9, <1>10, <1>11,
       <1>12, <1>13, <1>14, <1>15, <1>16, <1>17, <1>18, <1>19, <1>20, <1>21,
       <1>22
    DEF Next, ChildStep, FlowStep

\* Who hears of an end has seen to it.
LEMMA HearEndForgetsNobody ==
    ASSUME TypeOK, DiskFollows, RecordsAreInOrder, SweepLags, HandledIsInHand,
           EndIsAwaited, NEW r \in Runs, HearEnd(r), UNCHANGED marks,
           \A q \in Runs \ {r} : q \in waiting => q \in waiting'
    PROVE  SweepLags' /\ HandledIsInHand' /\ EndIsAwaited'
<1>1. SweepLags'
    BY HearEndFacts DEF SweepLags, DiskFollows
<1>2. EndIsAwaited'
    BY HearEndFacts DEF EndIsAwaited
<1>3. ASSUME NEW e \in entry'[r], e.handled
      PROVE  \/ e.completed \/ flow'[r] # "none"
             \/ marks[r] \cap {"interrupted", "archived"} # {}
    <2>1. PICK d \in entry[r] : /\ e.handled <=> d.handled \/ Begins(d)
                                /\ e.completed <=> d.completed
        BY HearEndFacts
    <2>2. CASE Begins(d)
        BY <2>2, HearEndFacts
    <2>3. CASE ~Begins(d)
        <3>1. flow'[r] = flow[r]
            BY <2>3, HearEndFacts DEF TypeOK
        <3>. QED
            BY <1>3, <2>1, <2>3, <3>1 DEF HandledIsInHand
    <2>. QED
        BY <2>2, <2>3
<1>4. HandledIsInHand'
    BY <1>3, HearEndFacts DEF HandledIsInHand
<1>. QED
    BY <1>1, <1>2, <1>4

\* Every step keeps somebody with each run that is registered.
LEMMA ForgottenKept ==
    ASSUME TypeOK, DiskFollows, RecordsAreInOrder,
           SweepLags, HandledIsInHand, EndIsAwaited, [Next]_vars
    PROVE  SweepLags' /\ HandledIsInHand' /\ EndIsAwaited'
<1>1. ASSUME NEW r \in Runs, StartChild(r)
      PROVE  SweepLags' /\ HandledIsInHand' /\ EndIsAwaited'
    BY <1>1
    DEF StartChild, Becomes, gateway, TypeOK, SweepLags, HandledIsInHand,
        EndIsAwaited
<1>2. ASSUME NEW r \in Runs, Register(r)
      PROVE  SweepLags' /\ HandledIsInHand' /\ EndIsAwaited'
    <2>1. /\ entry' = [entry EXCEPT ![r] = {Fresh}] /\ disk' = entry'
          /\ waiting' = waiting \cup {r}
          /\ UNCHANGED <<flow, marks>>
        BY <1>2 DEF Register
    <2>2. ~Fresh.handled
        BY DEF Fresh
    <2>. QED
        BY <2>1, <2>2 DEF TypeOK, SweepLags, HandledIsInHand, EndIsAwaited
<1>3. ASSUME NEW r \in Runs, SpawnFails(r)
      PROVE  SweepLags' /\ HandledIsInHand' /\ EndIsAwaited'
    BY <1>3
    DEF SpawnFails, Mark, Unregistered, gateway, TypeOK, SweepLags,
        HandledIsInHand, EndIsAwaited
<1>4. ASSUME NEW r \in Runs, ChildEmitsEnd(r)
      PROVE  SweepLags' /\ HandledIsInHand' /\ EndIsAwaited'
    <2>1. /\ HearEnd(r) /\ UNCHANGED marks
          /\ \A q \in Runs \ {r} : q \in waiting => q \in waiting'
        BY <1>4 DEF ChildEmitsEnd
    <2>. QED
        BY <2>1, HearEndForgetsNobody
<1>5. ASSUME NEW r \in Runs, ChildGoesOn(r)
      PROVE  SweepLags' /\ HandledIsInHand' /\ EndIsAwaited'
    BY <1>5
    DEF ChildGoesOn, Becomes, gateway, TypeOK, SweepLags, HandledIsInHand,
        EndIsAwaited
<1>6. ASSUME NEW r \in Runs, WaitAnswers(r)
      PROVE  SweepLags' /\ HandledIsInHand' /\ EndIsAwaited'
    <2>1. /\ HearEnd(r) /\ UNCHANGED marks
          /\ \A q \in Runs \ {r} : q \in waiting => q \in waiting'
        BY <1>6 DEF WaitAnswers
    <2>. QED
        BY <2>1, HearEndForgetsNobody
<1>7. ASSUME NEW r \in Runs, WaitFails(r)
      PROVE  SweepLags' /\ HandledIsInHand' /\ EndIsAwaited'
    BY <1>7
    DEF WaitFails, Mark, TypeOK, SweepLags, HandledIsInHand, EndIsAwaited
<1>8. ASSUME NEW r \in Runs, Settle(r)
      PROVE  SweepLags' /\ HandledIsInHand' /\ EndIsAwaited'
    BY <1>8
    DEF Settle, Flows_, TypeOK, SweepLags, HandledIsInHand, EndIsAwaited
<1>9. ASSUME NEW r \in Runs, Defer(r)
      PROVE  SweepLags' /\ HandledIsInHand' /\ EndIsAwaited'
    BY <1>9
    DEF Defer, Flows_, Mark, TypeOK, SweepLags, HandledIsInHand, EndIsAwaited
<1>10. ASSUME NEW r \in Runs, Steer(r)
      PROVE  SweepLags' /\ HandledIsInHand' /\ EndIsAwaited'
    BY <1>10
    DEF Steer, Ends, Flows_, Reaches, TypeOK, SweepLags, HandledIsInHand,
        EndIsAwaited
<1>11. ASSUME NEW r \in Runs, Queue(r)
      PROVE  SweepLags' /\ HandledIsInHand' /\ EndIsAwaited'
    BY <1>11
    DEF Queue, Ends, Flows_, Mark, TypeOK, SweepLags, HandledIsInHand,
        EndIsAwaited
<1>12. ASSUME NEW r \in Runs, Ask(r)
      PROVE  SweepLags' /\ HandledIsInHand' /\ EndIsAwaited'
    BY <1>12
    DEF Ask, Flows_, Reaches, TypeOK, SweepLags, HandledIsInHand, EndIsAwaited
<1>13. ASSUME NEW r \in Runs, Answered(r)
      PROVE  SweepLags' /\ HandledIsInHand' /\ EndIsAwaited'
    BY <1>13
    DEF Answered, Ends, Flows_, TypeOK, SweepLags, HandledIsInHand,
        EndIsAwaited
<1>14. ASSUME NEW r \in Runs, SendFails(r)
      PROVE  SweepLags' /\ HandledIsInHand' /\ EndIsAwaited'
    BY <1>14
    DEF SendFails, Ends, Flows_, TypeOK, SweepLags, HandledIsInHand,
        EndIsAwaited
<1>15. ASSUME NEW r \in Runs, CleanUp(r)
      PROVE  SweepLags' /\ HandledIsInHand' /\ EndIsAwaited'
    BY <1>15
    DEF CleanUp, Flows_, TypeOK, SweepLags, HandledIsInHand, EndIsAwaited
<1>16. ASSUME NEW r \in Runs, Finalize(r)
      PROVE  SweepLags' /\ HandledIsInHand' /\ EndIsAwaited'
    <2>1. /\ flow' = [flow EXCEPT ![r] = "none"]
          /\ UNCHANGED <<waiting, marks>>
        BY <1>16 DEF Finalize, Flows_
    <2>2. SweepLags'
        BY <1>16, <2>1, FinalizeFacts DEF SweepLags, DiskFollows
    <2>3. HandledIsInHand'
        BY <1>16, <2>1, FinalizeFacts DEF TypeOK, HandledIsInHand
    <2>4. EndIsAwaited'
        BY <1>16, <2>1, FinalizeFacts DEF EndIsAwaited
    <2>. QED
        BY <2>2, <2>3, <2>4
<1>17. ASSUME NEW r \in Runs, QueueSends(r)
      PROVE  SweepLags' /\ HandledIsInHand' /\ EndIsAwaited'
    BY <1>17
    DEF QueueSends, Reaches, Mark, TypeOK, SweepLags, HandledIsInHand,
        EndIsAwaited
<1>18. ASSUME NEW r \in Runs, SweepEntry(r)
      PROVE  SweepLags' /\ HandledIsInHand' /\ EndIsAwaited'
    BY <1>18
    DEF SweepEntry, Mark, TypeOK, SweepLags, HandledIsInHand, EndIsAwaited,
        DiskFollows
<1>19. ASSUME NEW r \in Runs, Forget(r)
      PROVE  SweepLags' /\ HandledIsInHand' /\ EndIsAwaited'
    BY <1>19
    DEF Forget, TypeOK, SweepLags, HandledIsInHand, EndIsAwaited
<1>20. CASE SweepEnds
    BY <1>20
    DEF SweepEnds, TypeOK, SweepLags, HandledIsInHand, EndIsAwaited,
        DiskFollows
<1>21. CASE Restart
    <2>1. /\ waiting' = {q \in Runs : \E e \in disk[q] : ~e.ended}
          /\ flow' = [q \in Runs |-> IF Resumes(q) THEN "settling" ELSE "none"]
        BY <1>21 DEF Restart
    <2>2. \A q \in Runs : /\ "archived" \in marks[q] => "archived" \in marks'[q]
                          /\ "interrupted" \in marks[q] => "interrupted" \in marks'[q]
                          /\ flow[q] # "none" => "interrupted" \in marks'[q]
        BY <1>21 DEF Restart
    <2>3. SweepLags' /\ EndIsAwaited'
        BY <1>21, <2>1, RestartFacts DEF SweepLags, EndIsAwaited
    <2>4. ASSUME NEW q \in Runs, NEW e \in entry'[q], e.handled
          PROVE  \/ e.completed \/ flow'[q] # "none"
                 \/ marks'[q] \cap {"interrupted", "archived"} # {}
        <3>1. PICK d \in disk[q] : /\ e.handled <=> (d.handled \/ (d.ended /\ Begins(d)))
                                   /\ e.completed <=> d.completed
            BY <1>21, RestartFacts
        <3>2. CASE d.ended /\ Begins(d)
            BY <2>1, <3>2 DEF Resumes
        <3>3. CASE d.handled /\ entry[q] # {}
            <4>1. d \in entry[q]
                BY <3>3 DEF DiskFollows
            <4>. QED
                BY <2>2, <3>1, <3>3, <4>1 DEF HandledIsInHand
        <3>4. CASE entry[q] = {}
            BY <2>2, <3>1, <3>4 DEF SweepLags
        <3>. QED
            BY <2>4, <3>1, <3>2, <3>3, <3>4
    <2>5. HandledIsInHand'
        BY <2>4 DEF HandledIsInHand
    <2>. QED
        BY <2>3, <2>5
<1>22. CASE UNCHANGED vars
    BY <1>22
    DEF vars, TypeOK, SweepLags, HandledIsInHand, EndIsAwaited
<1>. QED
    BY <1>1, <1>2, <1>3, <1>4, <1>5, <1>6, <1>7, <1>8, <1>9, <1>10, <1>11,
       <1>12, <1>13, <1>14, <1>15, <1>16, <1>17, <1>18, <1>19, <1>20, <1>21,
       <1>22
    DEF Next, ChildStep, FlowStep

-----------------------------------------------------------------------------
(* The theorems.                                                           *)

\* The invariant holds in every state.
LEMMA SubagentsInvariant == Spec => []SubagentsInv
<1>1. Init => SubagentsInv
    <2>1. ASSUME Init PROVE TypeOK
        <3>1. entry = [r \in Runs |-> {}] /\ disk = entry /\ marks = [r \in Runs |-> {}]
            BY <2>1 DEF Init
        <3>2. /\ entry \in [Runs -> SUBSET Record] /\ disk \in [Runs -> SUBSET Record]
              /\ marks \in [Runs -> SUBSET Marks]
            BY <3>1
        <3>3. \A r \in Runs : (\A d, e \in entry[r] : d = e) /\ (\A d, e \in disk[r] : d = e)
            BY <3>1
        <3>4. /\ child \in [Runs -> Children] /\ flow \in [Runs -> Flows]
              /\ ends \in [Runs -> 0..MaxEnds] /\ crashes \in 0..MaxCrashes
            BY <2>1, SubagentsAssumption DEF Init, Children, Flows
        <3>5. /\ session \subseteq Runs /\ waiting \subseteq Runs
              /\ said \in [Runs -> BOOLEAN] /\ inbox \in [Runs -> Nat]
              /\ sweeping \in BOOLEAN /\ queued \subseteq Runs
              /\ dedupe \subseteq Runs /\ finished \subseteq Runs
            BY <2>1 DEF Init
        <3>. QED
            BY <3>2, <3>3, <3>4, <3>5 DEF TypeOK
    <2>2. ASSUME Init
          PROVE  /\ DiskFollows /\ NothingFromNowhere /\ RecordsAreInOrder
                 /\ SweepLags /\ HandledIsInHand /\ EndIsAwaited
        BY <2>2
        DEF Init, DiskFollows, NothingFromNowhere, Known, Untouched,
            RecordsAreInOrder, SweepLags, HandledIsInHand, EndIsAwaited
    <2>3. ASSUME Init PROVE OnceIsEnough /\ TrueIsAnnounced /\ FinishedIsAnnounced
        BY <2>3
        DEF Init, OnceIsEnough, TrueIsAnnounced, FinishedIsAnnounced, Announced
    <2>. QED
        BY <2>1, <2>2, <2>3 DEF SubagentsInv
<1>2. SubagentsInv /\ [Next]_vars => SubagentsInv'
    BY TypesKept, ShapeKept, AnnouncedKept, ForgottenKept DEF SubagentsInv
<1>. QED
    BY <1>1, <1>2, PTL DEF Spec

\* No run's record, flow, mark or count ever leaves its type, and each run has at
\* most one record in memory and on disk.
THEOREM SubagentsTypeCorrect == Spec => []TypeOK
<1>1. SubagentsInv => TypeOK
    BY DEF SubagentsInv
<1>. QED
    BY <1>1, SubagentsInvariant, PTL

\* A requester hears of a run once, over any number of events, answers, retries and
\* restarts, unless a request that had been accepted was taken for failed.
THEOREM RequesterHearsOnce == Spec => []AnnouncedOnce
<1>1. SubagentsInv => AnnouncedOnce
    BY DEF SubagentsInv, OnceIsEnough, AnnouncedOnce, TypeOK
<1>. QED
    BY <1>1, SubagentsInvariant, PTL

\* No cleanup is final before the requester has heard of the run or will, unless
\* the announce queue lost the announcement.
THEOREM CleanupIsAnnounced == Spec => []FinishedIsAnnounced
<1>1. SubagentsInv => FinishedIsAnnounced
    BY DEF SubagentsInv
<1>. QED
    BY <1>1, SubagentsInvariant, PTL

\* Each registered run is waited for, is being announced, is done, or is on disk as
\* one to be begun; unless a crash interrupted its announcement, a sweep that was
\* not persisted brought it back, or the call that waited for it failed.
THEOREM RunsAreSeenTo == Spec => []NobodyIsForgotten
<1>1. SubagentsInv => NobodyIsForgotten
    <2>. SUFFICES ASSUME SubagentsInv, NEW r \in Runs, NEW e \in entry[r]
                  PROVE  \/ r \in waiting \/ flow[r] # "none" \/ e.completed
                         \/ e \in disk[r] /\ e.ended /\ Begins(e)
                         \/ marks[r] \cap {"interrupted", "archived"} # {}
                         \/ "unheard" \in marks[r] /\ ~e.ended
        BY DEF NobodyIsForgotten
    <2>1. e \in disk[r]
        BY DEF SubagentsInv, DiskFollows
    <2>2. CASE e.handled
        BY <2>2 DEF SubagentsInv, HandledIsInHand
    <2>3. CASE ~e.ended
        BY <2>3 DEF SubagentsInv, EndIsAwaited
    <2>4. CASE ~e.handled /\ e.ended
        BY <2>1, <2>4 DEF Begins
    <2>. QED
        BY <2>2, <2>3, <2>4
<1>. QED
    BY <1>1, SubagentsInvariant, PTL
=============================================================================
