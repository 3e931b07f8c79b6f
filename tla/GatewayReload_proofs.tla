----------------------- MODULE GatewayReload_proofs -----------------------
(***************************************************************************)
(* That no connection of the account is out of everybody's reach, and that *)
(* what runs is what the reloader took over unless one of the causes came  *)
(* to pass, for any number of servers, edits and contents.  The inductive  *)
(* invariant says when a manager has a task and when connections outlive   *)
(* their server (ManagerInv), and follows a content from the file to the   *)
(* connection (DriftInv).                                                  *)
(***************************************************************************)
EXTENDS GatewayReload, TLAPS

\* What a task waits for: a channel, or only its listen.
AtTask(c) == IF lasts THEN Held(c) ELSE conns[c].st = "opening"
\* The states that connections of the two kinds have.
KindsOfStates ==
    \A c \in Slots : conns[c].st # IF lasts THEN "opening" ELSE "aborted"
\* The store of a server has the connection that its task is.
TasksAreHeld ==
    \A s \in Servers : task[s] # NoSlot => conns[task[s]].srv = s /\ AtTask(task[s])
HeldAreTasks == \A c \in Slots : AtTask(c) => task[conns[c].srv] = c
\* startChannel is past its check only where there is no task.
StartsAlone == \A s \in Servers : job[s] = "starting" => task[s] = NoSlot
\* The close that awaits a task has one to await.
StopAwaits == phase = "stopping" => task[gen] # NoSlot
\* What is not late belongs to the server of the process, and not to one whose
\* close has stopped the channel.
RestIsCurrent ==
    \A c \in Slots : AtTask(c) /\ ~conns[c].late =>
        conns[c].srv = gen /\ phase \notin {"stopped", "silent"}

ManagerInv ==
    /\ KindsOfStates /\ TasksAreHeld /\ HeldAreTasks /\ StartsAlone /\ StopAwaits
    /\ RestIsCurrent
ReloadInv == TypeOK /\ ManagerInv

-----------------------------------------------------------------------------
(* Types.                                                                  *)

\* The reloader that ends a reload is one (config-reload.ts: finally).
LEMMA FinishedType ==
    ASSUME NEW R \in Reloaders
    PROVE Finished(R) \in Reloaders
BY DEF Finished, Reloaders

\* A file that was read becomes the current content.
LEMMA AfterReadType ==
    ASSUME TypeOK, NEW s \in Servers
    PROVE /\ AfterRead(s) \in Reloaders
          /\ [AfterRead(s) EXCEPT !.restartQueued = TRUE] \in Reloaders
<1>. DEFINE new == IF file.ok THEN file.content ELSE r[s].current
<1>1. r[s] \in Reloaders /\ new \in Contents
    BY DEF TypeOK, Reloaders
<1>2. AfterRead(s) = [r[s] EXCEPT !.timer = FALSE, !.missed = FALSE, !.current = new]
    BY DEF AfterRead
<1>. HIDE DEF new
<1>3. AfterRead(s) \in Reloaders
    BY <1>1, <1>2 DEF Reloaders
<1>. QED
    BY <1>3 DEF Reloaders

\* What startChannel does before its await keeps the types.
LEMMA BeginStartType ==
    ASSUME TypeOK, NEW s \in Servers, NEW R \in Reloaders, NEW t, BeginStart(s, R, t)
    PROVE /\ cause' \in [Servers -> Causes]
          /\ job' \in [Servers -> {"none", "stopping", "starting"}]
          /\ load' \in [Servers -> 0..MaxVersions]
          /\ r' \in [Servers -> Reloaders]
<1>1. StartCause(R.current) \in Causes
    BY DEF StartCause, Causes
<1>2. Loaded \in 0..MaxVersions
    BY ReloadAssumption DEF TypeOK, Loaded, Contents
<1>. QED
    BY <1>1, <1>2, FinishedType DEF TypeOK, BeginStart

\* The end of a task keeps the types of all but the connections.
LEMMA SettleType ==
    ASSUME TypeOK, NEW s \in Servers, NEW why \in Causes, Settle(s, why),
           conns' \in [Slots -> Connections]
    PROVE TypeOK'
<1>1. phase' \in Phases /\ gen' = gen /\ goal' = goal
    BY DEF TypeOK, Settle, Goes, process, Phases, Closing
<1>2. task' \in [Servers -> Slots \cup {NoSlot}]
    BY DEF TypeOK, Settle
<1>3. /\ cause' \in [Servers -> Causes]
      /\ job' \in [Servers -> {"none", "stopping", "starting"}]
      /\ load' \in [Servers -> 0..MaxVersions]
      /\ r' \in [Servers -> Reloaders]
    <2>1. CASE job[s] = "stopping"
        <3>1. r[s] \in Reloaders
            BY DEF TypeOK
        <3>. QED
            BY <2>1, <3>1, BeginStartType DEF Settle
    <2>2. CASE job[s] # "stopping"
        BY <2>2 DEF TypeOK, Settle
    <2>. QED
        BY <2>1, <2>2
<1>. QED
    BY <1>1, <1>2, <1>3 DEF TypeOK, Settle, chosen

\* A free slot and a sleeping reloader are a connection and a reloader.
LEMMA RestTypes == Free \in Connections /\ Asleep \in Reloaders /\ First \in Contents
BY ReloadAssumption
DEF Free, Asleep, First, Connections, Reloaders, Contents, Servers

\* The exit of the process keeps the types.
LEMMA ExitType == ASSUME TypeOK, Exit PROVE TypeOK'
<1>1. /\ r' \in [Servers -> Reloaders] /\ conns' \in [Slots -> Connections]
      /\ job' \in [Servers -> {"none", "stopping", "starting"}]
      /\ task' \in [Servers -> Slots \cup {NoSlot}]
    BY RestTypes DEF Exit
<1>2. load' \in [Servers -> 0..MaxVersions]
    BY ReloadAssumption DEF Exit
<1>3. cause' \in [Servers -> Causes]
    BY DEF Exit, Causes
<1>4. phase' \in Phases
    BY DEF Exit, Phases
<1>. QED
    BY <1>1, <1>2, <1>3, <1>4 DEF TypeOK, Exit, chosen

\* The first state is typed.
LEMMA TypeInit == Init => TypeOK
BY RestTypes, ReloadAssumption DEF Init, TypeOK, Phases, Starting, Causes, Servers, Contents

\* Every step keeps the types.
LEMMA TypeStep == TypeOK /\ [Next]_vars => TypeOK'
<1> SUFFICES ASSUME TypeOK, [Next]_vars PROVE TypeOK'
    OBVIOUS
<1>1. ASSUME NEW c \in Slots, ChannelEnds(c) PROVE TypeOK'
    <2>1. conns' \in [Slots -> Connections]
        BY <1>1, RestTypes DEF TypeOK, ChannelEnds
    <2>2. conns[c].srv \in Servers /\ cause[conns[c].srv] \in Causes
        BY DEF TypeOK, Connections
    <2>. QED
        BY <1>1, <2>1, <2>2, SettleType DEF ChannelEnds
<1>2. ASSUME NEW c \in Slots, ChannelFails(c) PROVE TypeOK'
    <2>1. conns' \in [Slots -> Connections]
        BY <1>2, RestTypes DEF TypeOK, ChannelFails
    <2>2. conns[c].srv \in Servers /\ "failed" \in Causes
        BY DEF TypeOK, Connections, Causes
    <2>. QED
        BY <1>2, <2>1, <2>2, SettleType DEF ChannelFails
<1>3. ASSUME NEW c \in Slots, ChannelListens(c) PROVE TypeOK'
    <2>1. conns' \in [Slots -> Connections]
        <3>1. [conns[c] EXCEPT !.st = "on"] \in Connections
            BY DEF TypeOK, Connections
        <3>2. conns' = [conns EXCEPT ![c] = Free]
              \/ conns' = [conns EXCEPT ![c] = [conns[c] EXCEPT !.st = "on"]]
            BY <1>3 DEF ChannelListens
        <3>. QED
            BY <3>1, <3>2, RestTypes DEF TypeOK
    <2>2. /\ conns[c].srv \in Servers /\ "port" \in Causes
          /\ cause[conns[c].srv] \in Causes
        BY DEF TypeOK, Connections, Causes
    <2>. QED
        BY <1>3, <2>1, <2>2, SettleType DEF ChannelListens
<1>4. ASSUME NEW s \in Servers, Create(s) PROVE TypeOK'
    <2>1. PICK c \in Slots :
            /\ conns' = [conns EXCEPT ![c] =
                  [srv |-> s, chan |-> load[s], late |-> IsLate(s),
                   st |-> IF lasts THEN "on" ELSE "opening"]]
            /\ task' = [task EXCEPT ![s] = c]
        BY <1>4 DEF Create
    <2>2. IsLate(s) \in BOOLEAN
        BY DEF IsLate
    <2>3. conns' \in [Slots -> Connections]
        BY <2>1, <2>2 DEF TypeOK, Connections
    <2>4. r' \in [Servers -> Reloaders]
        BY <1>4, FinishedType DEF Create, TypeOK
    <2>5. phase' \in Phases /\ gen' = gen /\ goal' = goal
        BY <1>4 DEF TypeOK, Create, Goes, process, Phases, Starting
    <2>6. 0 \in 0..MaxVersions
        BY ReloadAssumption
    <2>. QED
        BY <1>4, <2>1, <2>3, <2>4, <2>5, <2>6 DEF TypeOK, Create, chosen
<1>5. ASSUME Edit PROVE TypeOK'
    <2>1. file' \in [content : Contents, ok : BOOLEAN]
        <3>1. CASE \E v \in 0..MaxVersions \ {file.content.chan} :
                    file' = [file EXCEPT !.content.chan = v]
            BY <3>1 DEF TypeOK, Contents
        <3>2. CASE file' = [file EXCEPT !.content.gw = 1 - @]
            BY <3>2 DEF TypeOK, Contents
        <3>3. CASE file' = [file EXCEPT !.ok = ~@]
            BY <3>3 DEF TypeOK
        <3>. QED
            BY <1>5, <3>1, <3>2, <3>3 DEF Edit
    <2>2. edits' \in 0..MaxEdits
        <3>1. edits \in 0..MaxEdits /\ edits < MaxEdits /\ edits' = edits + 1
            BY <1>5 DEF Edit, TypeOK
        <3>. QED
            BY <3>1, ReloadAssumption
    <2>3. r' \in [Servers -> Reloaders]
        <3>1. ASSUME NEW s \in Servers, NEW a \in BOOLEAN, NEW b \in BOOLEAN
              PROVE [r[s] EXCEPT !.event = a, !.missed = b] \in Reloaders
            <4>1. r[s] \in Reloaders
                BY DEF TypeOK
            <4>. QED
                BY <4>1 DEF Reloaders
        <3>2. ASSUME NEW s \in Servers
              PROVE /\ (r[s].event \/ r[s].on) \in BOOLEAN
                    /\ (r[s].missed \/ (s = gen /\ phase \in Starting \ {"new"})) \in BOOLEAN
            OBVIOUS
        <3>. QED
            BY <1>5, <3>1, <3>2 DEF Edit
    <2>. QED
        BY <1>5, <2>1, <2>2, <2>3 DEF Edit, TypeOK, chosen, process
<1>6. ASSUME NEW s \in Servers, WatcherTells(s) PROVE TypeOK'
    <2>. DEFINE R == [r[s] EXCEPT !.event = FALSE, !.timer = ~r[s].stopped]
    <2>1. r[s] \in Reloaders /\ r[s].stopped \in BOOLEAN
        BY DEF TypeOK, Reloaders
    <2>2. R \in Reloaders
        BY <2>1 DEF Reloaders
    <2>3. r' = [r EXCEPT ![s] = R]
        BY <1>6 DEF WatcherTells, TypeOK
    <2>. HIDE DEF R
    <2>4. r' \in [Servers -> Reloaders]
        BY <2>2, <2>3 DEF TypeOK
    <2>. QED
        BY <1>6, <2>4 DEF WatcherTells, TypeOK, chosen, process
<1>7. ASSUME NEW s \in Servers, WatcherFails(s) PROVE TypeOK'
    <2>. DEFINE R == [r[s] EXCEPT !.on = FALSE, !.event = FALSE]
    <2>1. r[s] \in Reloaders /\ r[s].stopped \in BOOLEAN
        BY DEF TypeOK, Reloaders
    <2>2. R \in Reloaders
        BY <2>1 DEF Reloaders
    <2>3. r' = [r EXCEPT ![s] = R]
        BY <1>7 DEF WatcherFails, TypeOK
    <2>. HIDE DEF R
    <2>4. r' \in [Servers -> Reloaders]
        BY <2>2, <2>3 DEF TypeOK
    <2>. QED
        BY <1>7, <2>4 DEF WatcherFails, TypeOK, chosen, process
<1>8. ASSUME NEW s \in Servers, ReloadWaits(s) PROVE TypeOK'
    <2>. DEFINE R == [r[s] EXCEPT !.timer = FALSE, !.pending = TRUE]
    <2>1. r[s] \in Reloaders /\ r[s].stopped \in BOOLEAN
        BY DEF TypeOK, Reloaders
    <2>2. R \in Reloaders
        BY <2>1 DEF Reloaders
    <2>3. r' = [r EXCEPT ![s] = R]
        BY <1>8 DEF ReloadWaits, TypeOK
    <2>. HIDE DEF R
    <2>4. r' \in [Servers -> Reloaders]
        BY <2>2, <2>3 DEF TypeOK
    <2>. QED
        BY <1>8, <2>4 DEF ReloadWaits, TypeOK, chosen, process
<1>9. ASSUME NEW s \in Servers, ReloadSkips(s) PROVE TypeOK'
    BY <1>9, AfterReadType DEF ReloadSkips, TypeOK, Causes, chosen, process
<1>10. ASSUME NEW s \in Servers, ReloadRestarts(s) PROVE TypeOK'
    <2>1. phase' \in Phases /\ gen' = gen /\ goal' \in {"none", "restart", "stop"}
        BY <1>10
        DEF ReloadRestarts, RequestRestart, TypeOK, process, Phases, Closing
    <2>2. r' \in [Servers -> Reloaders]
        BY <1>10, AfterReadType DEF ReloadRestarts, TypeOK
    <2>. QED
        BY <1>10, <2>1, <2>2 DEF ReloadRestarts, TypeOK, chosen
<1>11. ASSUME NEW s \in Servers, HotReload(s) PROVE TypeOK'
    <2>1. CASE task[s] # NoSlot
        <3>1. conns' \in [Slots -> Connections]
            BY <1>11, <2>1 DEF HotReload, Aborted, TypeOK, Connections
        <3>2. r' \in [Servers -> Reloaders]
            <4>1. r' = [r EXCEPT ![s] = AfterRead(s)]
                BY <1>11, <2>1 DEF HotReload
            <4>. QED
                BY <4>1, AfterReadType DEF TypeOK
        <3>3. job' \in [Servers -> {"none", "stopping", "starting"}]
            BY <1>11, <2>1 DEF HotReload, TypeOK
        <3>. QED
            BY <1>11, <2>1, <3>1, <3>2, <3>3 DEF HotReload, TypeOK, chosen, process
    <2>2. CASE task[s] = NoSlot
        <3>1. BeginStart(s, AfterRead(s), NoSlot) /\ UNCHANGED conns
            BY <1>11, <2>2 DEF HotReload
        <3>2. /\ cause' \in [Servers -> Causes]
              /\ job' \in [Servers -> {"none", "stopping", "starting"}]
              /\ load' \in [Servers -> 0..MaxVersions]
              /\ r' \in [Servers -> Reloaders]
            BY <3>1, BeginStartType, AfterReadType
        <3>. QED
            BY <1>11, <3>1, <3>2 DEF HotReload, TypeOK, chosen, process
    <2>. QED
        BY <2>1, <2>2
<1>12. ASSUME ServerReadsConfig PROVE TypeOK'
    <2>1. CASE file.ok
        BY <1>12, <2>1
        DEF ServerReadsConfig, Goes, TypeOK, Reloaders, chosen, Phases, Starting
    <2>2. CASE ~file.ok
        BY <1>12, <2>2, ExitType DEF ServerReadsConfig
    <2>. QED
        BY <2>1, <2>2
<1>13. ASSUME ServerStartsChannels PROVE TypeOK'
    <2>1. gen \in Servers /\ r[gen] \in Reloaders
        BY DEF TypeOK
    <2>2. /\ cause' \in [Servers -> Causes]
          /\ job' \in [Servers -> {"none", "stopping", "starting"}]
          /\ load' \in [Servers -> 0..MaxVersions]
          /\ r' \in [Servers -> Reloaders]
        BY <1>13, <2>1, BeginStartType DEF ServerStartsChannels
    <2>. QED
        BY <1>13, <2>2
        DEF ServerStartsChannels, Goes, TypeOK, chosen, Phases, Starting
<1>14. ASSUME ServerServes PROVE TypeOK'
    BY <1>14 DEF ServerServes, Goes, TypeOK, Reloaders, chosen, Phases
<1>15. ASSUME Sigusr1 PROVE TypeOK'
    BY <1>15 DEF Sigusr1, RequestRestart, TypeOK, chosen, process, Phases, Closing
<1>16. ASSUME Sigterm PROVE TypeOK'
    <2>1. CASE Exit
        BY <2>1, ExitType
    <2>2. CASE phase = "serving" /\ ~Exit
        BY <1>16, <2>2 DEF Sigterm, Starting, TypeOK, chosen, Phases, Closing
    <2>. QED
        BY <1>16, <2>1, <2>2 DEF Sigterm
<1>17. ASSUME CloseStopsChannel PROVE TypeOK'
    <2>1. conns' \in [Slots -> Connections]
        BY <1>17 DEF CloseStopsChannel, Aborted, TypeOK, Connections
    <2>. QED
        BY <1>17, <2>1 DEF CloseStopsChannel, Goes, TypeOK, chosen, Phases, Closing
<1>18. ASSUME CloseStopsReloader PROVE TypeOK'
    <2>. DEFINE R == [r[gen] EXCEPT !.stopped = TRUE, !.on = FALSE,
                                    !.event = FALSE, !.timer = FALSE]
    <2>1. r[gen] \in Reloaders
        BY DEF TypeOK
    <2>2. R \in Reloaders
        BY <2>1 DEF Reloaders
    <2>3. r' = [r EXCEPT ![gen] = R]
        BY <1>18 DEF CloseStopsReloader, TypeOK
    <2>. HIDE DEF R
    <2>4. r' \in [Servers -> Reloaders]
        BY <2>2, <2>3 DEF TypeOK
    <2>. QED
        BY <1>18, <2>4
        DEF CloseStopsReloader, Goes, TypeOK, chosen, Phases, Closing
<1>19. ASSUME CloseEnds PROVE TypeOK'
    <2>1. CASE goal = "restart" /\ gen < MaxServers
        <3>1. gen' \in Servers
            BY <1>19, <2>1, ReloadAssumption DEF CloseEnds, TypeOK, Servers
        <3>. QED
            BY <1>19, <2>1, <3>1 DEF CloseEnds, TypeOK, chosen, Phases, Starting
    <2>2. CASE ~(goal = "restart" /\ gen < MaxServers)
        BY <1>19, <2>2, ExitType DEF CloseEnds
    <2>. QED
        BY <2>1, <2>2
<1>20. ASSUME ForceExit PROVE TypeOK'
    BY <1>20, ExitType DEF ForceExit
<1>21. ASSUME UNCHANGED vars PROVE TypeOK'
    BY <1>21 DEF vars, chosen, process, TypeOK
<1>. QED
    BY <1>1, <1>2, <1>3, <1>4, <1>5, <1>6, <1>7, <1>8, <1>9, <1>10, <1>11, <1>12,
       <1>13, <1>14, <1>15, <1>16, <1>17, <1>18, <1>19, <1>20, <1>21
    DEF Next, ReloadStep, ServerStep, ChannelStep

-----------------------------------------------------------------------------
(* Connections.                                                            *)

\* The kind of the channel is chosen once.
LEMMA KindIsChosen == ASSUME [Next]_vars PROVE UNCHANGED lasts
BY DEF Next, ReloadStep, ServerStep, ChannelStep, ChannelEnds, ChannelFails,
       ChannelListens, Settle, Create, Edit, WatcherTells, WatcherFails,
       ReloadWaits, ReloadSkips, ReloadRestarts, HotReload, ServerReadsConfig,
       ServerStartsChannels, ServerServes, Sigusr1, Sigterm, CloseStopsChannel,
       CloseStopsReloader, CloseEnds, ForceExit, Exit, chosen, vars

\* The invariant speaks of these variables only.
manager == <<lasts, conns, task, job, phase, gen>>

\* A step that touches no manager, task or connection keeps the invariant.
LEMMA ManagerUnchanged == ASSUME ManagerInv, UNCHANGED manager PROVE ManagerInv'
BY DEF ManagerInv, manager, KindsOfStates, TasksAreHeld, HeldAreTasks, StartsAlone,
       StopAwaits, RestIsCurrent, AtTask, Held

\* So does a step of the phase that neither stops the channel nor is a stop.
LEMMA ManagerGoes ==
    ASSUME ManagerInv, UNCHANGED <<lasts, conns, task, job, gen>>,
           phase' \notin {"stopping", "stopped", "silent"}
    PROVE ManagerInv'
BY DEF ManagerInv, KindsOfStates, TasksAreHeld, HeldAreTasks, StartsAlone,
       StopAwaits, RestIsCurrent, AtTask, Held

\* startChannel gets past its check only without a task (server-channels.ts:111).
LEMMA BeginStartJob ==
    ASSUME NEW s \in Servers, NEW R, NEW t, TypeOK, BeginStart(s, R, t)
    PROVE \A q \in Servers :
            job'[q] = "starting" => (q = s /\ t = NoSlot) \/ (q # s /\ job[q] = "starting")
BY DEF BeginStart, TypeOK

\* The process that exits leaves nothing behind.
LEMMA ExitManager == ASSUME Exit PROVE ManagerInv'
BY DEF Exit, ManagerInv, KindsOfStates, TasksAreHeld, HeldAreTasks, StartsAlone,
       StopAwaits, RestIsCurrent, AtTask, Held, Free

\* A task is settled: its server has none, and whoever awaited it goes on.
LEMMA SettleManager ==
    ASSUME ReloadInv, NEW c \in Slots, AtTask(c), NEW why, Settle(conns[c].srv, why),
           \/ conns' = [conns EXCEPT ![c] = Free]
           \/ ~lasts /\ conns' = [conns EXCEPT ![c].st = "on"]
    PROVE ManagerInv'
<1>. DEFINE s == conns[c].srv
<1>1. /\ TypeOK /\ s \in Servers /\ task[s] = c
      /\ KindsOfStates
      /\ TasksAreHeld /\ HeldAreTasks /\ StartsAlone /\ StopAwaits /\ RestIsCurrent
    BY DEF ReloadInv, ManagerInv, TypeOK, HeldAreTasks, Connections
<1>2. /\ task' = [task EXCEPT ![s] = NoSlot] /\ gen' = gen /\ lasts' = lasts
      /\ IF s = gen /\ phase = "stopping" THEN phase' = "stopped" ELSE phase' = phase
    BY DEF Settle, Goes, process, chosen
<1>3. \A q \in Servers : q # s => task[q] # c
    BY <1>1, ReloadAssumption DEF TasksAreHeld
<1>4. \A d \in Slots : d # c => conns'[d] = conns[d]
    BY <1>1 DEF TypeOK
<1>5. ~AtTask(c)' /\ conns'[c].st # IF lasts THEN "opening" ELSE "aborted"
    BY <1>1, <1>2 DEF TypeOK, Free, AtTask, Held, Connections
<1>6. \A d \in Slots : AtTask(d)' => d # c /\ AtTask(d) /\ conns[d].srv # s
    BY <1>1, <1>2, <1>4, <1>5 DEF AtTask, Held, HeldAreTasks
<1>7. KindsOfStates'
    BY <1>1, <1>2, <1>4, <1>5 DEF KindsOfStates
<1>8. TasksAreHeld'
    BY <1>1, <1>2, <1>3, <1>4 DEF TasksAreHeld, AtTask, Held, TypeOK
<1>9. HeldAreTasks'
    BY <1>1, <1>2, <1>4, <1>6 DEF HeldAreTasks, TypeOK, Connections
<1>10. StartsAlone'
    <2>1. \A q \in Servers : job'[q] = "starting" => q = s \/ job[q] = "starting"
        <3>1. CASE job[s] = "stopping"
            BY <1>1, <3>1, BeginStartJob DEF Settle
        <3>2. CASE job[s] # "stopping"
            BY <3>2 DEF Settle
        <3>. QED
            BY <3>1, <3>2
    <2>. QED
        BY <1>1, <1>2, <2>1 DEF StartsAlone, TypeOK
<1>11. StopAwaits'
    BY <1>1, <1>2 DEF StopAwaits, TypeOK
<1>12. RestIsCurrent'
    BY <1>1, <1>2, <1>4, <1>6 DEF RestIsCurrent
<1>. QED
    BY <1>7, <1>8, <1>9, <1>10, <1>11, <1>12 DEF ManagerInv

\* An abort of a task leaves the connections held, and their servers and
\* contents as they are.
LEMMA AbortedHolds ==
    ASSUME TypeOK, KindsOfStates, UNCHANGED lasts,
           NEW c \in Slots, AtTask(c), Aborted(c)
    PROVE /\ KindsOfStates'
          /\ \A d \in Slots :
                /\ conns'[d].srv = conns[d].srv /\ conns'[d].late = conns[d].late
                /\ conns'[d].chan = conns[d].chan
                /\ (conns'[d].st = "off" <=> conns[d].st = "off")
                /\ (Held(d)' <=> Held(d)) /\ (AtTask(d)' <=> AtTask(d))
                /\ (conns'[d].st = "aborted" => conns[d].st = "aborted" \/ d = c)
<1>1. CASE conns[c].st = "on"
    <2>1. lasts
        BY <1>1 DEF AtTask
    <2>2. conns' = [conns EXCEPT ![c] = [conns[c] EXCEPT !.st = "aborted"]]
        BY <1>1 DEF Aborted
    <2>3. \A d \in Slots : d # c => conns'[d] = conns[d]
        BY <2>2 DEF TypeOK
    <2>4. /\ conns'[c].srv = conns[c].srv /\ conns'[c].late = conns[c].late
          /\ conns'[c].chan = conns[c].chan /\ conns'[c].st = "aborted"
        BY <2>2 DEF TypeOK, Connections
    <2>. QED
        BY <1>1, <2>1, <2>3, <2>4 DEF KindsOfStates, AtTask, Held
<1>2. CASE conns[c].st # "on"
    BY <1>2 DEF Aborted, KindsOfStates, AtTask, Held
<1>. QED
    BY <1>1, <1>2

\* Every step keeps the invariant.
LEMMA ManagerStep == ReloadInv /\ [Next]_vars => ManagerInv'
<1> SUFFICES ASSUME ReloadInv, [Next]_vars PROVE ManagerInv'
    OBVIOUS
<1>0. TypeOK /\ TypeOK' /\ lasts' = lasts /\ ManagerInv
    BY TypeStep, KindIsChosen DEF ReloadInv
<1>inv. /\ KindsOfStates /\ TasksAreHeld /\ HeldAreTasks /\ StartsAlone /\ StopAwaits
        /\ RestIsCurrent
    BY <1>0 DEF ManagerInv
<1>1. ASSUME NEW c \in Slots, ChannelEnds(c) PROVE ManagerInv'
    BY <1>inv, <1>1, SettleManager DEF ChannelEnds, AtTask, Held, KindsOfStates
<1>2. ASSUME NEW c \in Slots, ChannelFails(c) PROVE ManagerInv'
    BY <1>2, SettleManager DEF ChannelFails, AtTask, Held
<1>3. ASSUME NEW c \in Slots, ChannelListens(c) PROVE ManagerInv'
    BY <1>inv, <1>3, SettleManager DEF ChannelListens, AtTask, KindsOfStates
<1>4. ASSUME NEW s \in Servers, Create(s) PROVE ManagerInv'
    <2>1. PICK c \in Slots :
            /\ conns[c].st = "off"
            /\ conns' = [conns EXCEPT ![c] =
                  [srv |-> s, chan |-> load[s], late |-> IsLate(s),
                   st |-> IF lasts THEN "on" ELSE "opening"]]
            /\ task' = [task EXCEPT ![s] = c]
        BY <1>4 DEF Create
    <2>2. /\ conns'[c].srv = s /\ conns'[c].late = IsLate(s)
          /\ conns'[c].st = IF lasts THEN "on" ELSE "opening"
          /\ \A d \in Slots : d # c => conns'[d] = conns[d]
        BY <1>0, <2>1 DEF TypeOK
    <2>3. /\ task[s] = NoSlot /\ task'[s] = c
          /\ \A q \in Servers : q # s => task'[q] = task[q]
        BY <1>0, <1>inv, <1>4, <2>1 DEF TypeOK, Create, StartsAlone
    <2>4. /\ job' = [job EXCEPT ![s] = "none"] /\ gen' = gen
          /\ phase' = phase \/ phase' = "started"
        BY <1>4 DEF Create, Goes, process
    <2>5. c # NoSlot
        BY ReloadAssumption
    <2>6. AtTask(c)' /\ ~AtTask(c) /\ \A d \in Slots : d # c => (AtTask(d)' <=> AtTask(d))
        BY <1>0, <2>1, <2>2 DEF AtTask, Held
    <2>7. KindsOfStates'
        BY <1>0, <1>inv, <2>2 DEF KindsOfStates
    <2>8. TasksAreHeld'
        BY <1>0, <1>inv, <2>1, <2>2, <2>3, <2>6 DEF TasksAreHeld, TypeOK
    <2>9. HeldAreTasks'
        <3>1. \A d \in Slots : d # c /\ AtTask(d) => conns[d].srv # s
            BY <1>inv, <2>3, ReloadAssumption DEF HeldAreTasks
        <3>. QED
            BY <1>0, <1>inv, <2>2, <2>3, <2>6, <3>1 DEF HeldAreTasks, TypeOK, Connections
    <2>10. StartsAlone'
        BY <1>0, <1>inv, <2>3, <2>4 DEF StartsAlone, TypeOK
    <2>11. StopAwaits'
        BY <1>0, <1>inv, <2>3, <2>4, <2>5 DEF StopAwaits, TypeOK
    <2>12. RestIsCurrent'
        BY <1>inv, <2>2, <2>4, <2>6 DEF RestIsCurrent, IsLate
    <2>. QED
        BY <2>7, <2>8, <2>9, <2>10, <2>11, <2>12 DEF ManagerInv
<1>5. ASSUME Edit PROVE ManagerInv'
    BY <1>0, <1>5, ManagerUnchanged DEF Edit, manager, process, chosen
<1>6. ASSUME NEW s \in Servers, WatcherTells(s) \/ WatcherFails(s) \/ ReloadWaits(s)
                                \/ ReloadSkips(s) PROVE ManagerInv'
    BY <1>0, <1>6, ManagerUnchanged
    DEF WatcherTells, WatcherFails, ReloadWaits, ReloadSkips, manager, process, chosen
<1>7. ASSUME NEW s \in Servers, ReloadRestarts(s) PROVE ManagerInv'
    <2>1. UNCHANGED <<lasts, conns, task, job, gen>>
        BY <1>7 DEF ReloadRestarts, RequestRestart, process, chosen
    <2>2. CASE phase' = "closing"
        BY <1>0, <2>1, <2>2, ManagerGoes
    <2>3. CASE phase' = phase
        BY <1>0, <2>1, <2>3, ManagerUnchanged DEF manager
    <2>. QED
        BY <1>7, <2>2, <2>3 DEF ReloadRestarts, RequestRestart, process
<1>8. ASSUME NEW s \in Servers, HotReload(s) PROVE ManagerInv'
    <2>1. UNCHANGED <<task, phase, gen>>
        BY <1>8 DEF HotReload, process
    <2>2. CASE task[s] # NoSlot
        <3>1. /\ task[s] \in Slots /\ AtTask(task[s]) /\ Aborted(task[s])
              /\ job' = [job EXCEPT ![s] = "stopping"]
            BY <1>0, <1>inv, <1>8, <2>2 DEF HotReload, TypeOK, TasksAreHeld
        <3>2. \A q \in Servers : job'[q] = "starting" => job[q] = "starting"
            BY <1>0, <3>1 DEF TypeOK
        <3>3. /\ KindsOfStates'
              /\ \A d \in Slots :
                    /\ conns'[d].srv = conns[d].srv /\ conns'[d].late = conns[d].late
                    /\ (AtTask(d)' <=> AtTask(d))
            BY <1>0, <1>inv, <3>1, AbortedHolds
        <3>. QED
            BY <1>0, <1>inv, <2>1, <3>2, <3>3
            DEF ManagerInv, TasksAreHeld, HeldAreTasks, StartsAlone, StopAwaits,
                RestIsCurrent, TypeOK
    <2>3. CASE task[s] = NoSlot
        <3>1. BeginStart(s, AfterRead(s), NoSlot) /\ UNCHANGED conns
            BY <1>8, <2>3 DEF HotReload
        <3>2. StartsAlone'
            BY <1>0, <1>inv, <2>1, <2>3, <3>1, BeginStartJob DEF StartsAlone
        <3>. QED
            BY <1>0, <1>inv, <2>1, <3>1, <3>2
            DEF ManagerInv, KindsOfStates, TasksAreHeld, HeldAreTasks, StopAwaits,
                RestIsCurrent, AtTask, Held
    <2>. QED
        BY <2>2, <2>3
<1>9. ASSUME ServerReadsConfig PROVE ManagerInv'
    <2>1. CASE Exit
        BY <2>1, ExitManager
    <2>2. CASE ~Exit
        BY <1>0, <1>9, <2>2, ManagerGoes DEF ServerReadsConfig, Goes
    <2>. QED
        BY <2>1, <2>2
<1>10. ASSUME ServerStartsChannels PROVE ManagerInv'
    <2>1. /\ gen \in Servers /\ UNCHANGED <<conns, task, gen>>
          /\ phase' \in {"started", "loading"}
          /\ BeginStart(gen, r[gen], task[gen])
        BY <1>0, <1>10 DEF ServerStartsChannels, Goes, TypeOK
    <2>2. StartsAlone'
        BY <1>0, <1>inv, <2>1, BeginStartJob DEF StartsAlone
    <2>. QED
        BY <1>0, <1>inv, <2>1, <2>2
        DEF ManagerInv, KindsOfStates, TasksAreHeld, HeldAreTasks, StopAwaits,
            RestIsCurrent, AtTask, Held
<1>11. ASSUME ServerServes PROVE ManagerInv'
    BY <1>0, <1>11, ManagerGoes DEF ServerServes, Goes
<1>12. ASSUME Sigusr1 PROVE ManagerInv'
    BY <1>0, <1>12, ManagerGoes DEF Sigusr1, RequestRestart
<1>13. ASSUME Sigterm PROVE ManagerInv'
    <2>1. CASE Exit
        BY <2>1, ExitManager
    <2>2. CASE ~Exit
        BY <1>0, <1>13, <2>2, ManagerGoes DEF Sigterm
    <2>. QED
        BY <2>1, <2>2
<1>14. ASSUME CloseStopsChannel PROVE ManagerInv'
    <2>1. gen \in Servers /\ UNCHANGED <<task, job, gen>>
        BY <1>0, <1>14 DEF CloseStopsChannel, Goes, TypeOK
    <2>2. CASE task[gen] # NoSlot
        <3>1. /\ task[gen] \in Slots /\ AtTask(task[gen]) /\ Aborted(task[gen])
              /\ phase' = "stopping"
            BY <1>0, <1>inv, <1>14, <2>1, <2>2
            DEF CloseStopsChannel, Goes, TypeOK, TasksAreHeld
        <3>2. /\ KindsOfStates'
              /\ \A d \in Slots :
                    /\ conns'[d].srv = conns[d].srv /\ conns'[d].late = conns[d].late
                    /\ (AtTask(d)' <=> AtTask(d))
            BY <1>0, <1>inv, <3>1, AbortedHolds
        <3>. QED
            BY <1>0, <1>inv, <2>1, <2>2, <3>1, <3>2
            DEF ManagerInv, TasksAreHeld, HeldAreTasks, StartsAlone, StopAwaits,
                RestIsCurrent, TypeOK
    <2>3. CASE task[gen] = NoSlot
        <3>1. UNCHANGED conns /\ phase' = "stopped"
            BY <1>14, <2>3 DEF CloseStopsChannel, Goes
        <3>2. \A d \in Slots : AtTask(d) => conns[d].late
            BY <1>inv, <2>3, ReloadAssumption DEF HeldAreTasks, RestIsCurrent
        <3>. QED
            BY <1>0, <1>inv, <2>1, <3>1, <3>2
            DEF ManagerInv, KindsOfStates, TasksAreHeld, HeldAreTasks, StartsAlone,
                StopAwaits, RestIsCurrent, AtTask, Held
    <2>. QED
        BY <2>2, <2>3
<1>15. ASSUME CloseStopsReloader PROVE ManagerInv'
    BY <1>0, <1>inv, <1>15
    DEF CloseStopsReloader, Goes, ManagerInv, KindsOfStates, TasksAreHeld,
        HeldAreTasks, StartsAlone, StopAwaits, RestIsCurrent, AtTask, Held
<1>16. ASSUME CloseEnds PROVE ManagerInv'
    <2>1. CASE Exit
        BY <2>1, ExitManager
    <2>2. CASE ~Exit
        BY <1>0, <1>inv, <1>16, <2>2
        DEF CloseEnds, ManagerInv, KindsOfStates, TasksAreHeld, HeldAreTasks,
            StartsAlone, StopAwaits, RestIsCurrent, AtTask, Held
    <2>. QED
        BY <2>1, <2>2
<1>17. ASSUME ForceExit PROVE ManagerInv'
    BY <1>17, ExitManager DEF ForceExit
<1>18. ASSUME UNCHANGED vars PROVE ManagerInv'
    BY <1>0, <1>18, ManagerUnchanged DEF vars, manager, process, chosen
<1>. QED
    BY <1>1, <1>2, <1>3, <1>4, <1>5, <1>6, <1>7, <1>8, <1>9, <1>10, <1>11, <1>12,
       <1>13, <1>14, <1>15, <1>16, <1>17, <1>18
    DEF Next, ReloadStep, ServerStep, ChannelStep

-----------------------------------------------------------------------------
(* What runs and what was taken over.                                      *)

\* A reloader that nothing has woken, and a manager that does nothing.
Quiet(s) ==
    ~r[s].on /\ ~r[s].event /\ ~r[s].timer /\ ~r[s].pending /\ ~r[s].restartQueued
Idle(s) == job[s] = "none" /\ task[s] = NoSlot
\* A server that starts has no reload, one that serves has not asked for a
\* restart, and one to come has not begun.
FreshAreQuiet ==
    /\ phase \in Starting => Quiet(gen)
    /\ phase \in {"new", "booted"} => Idle(gen)
    /\ phase = "serving" => ~r[gen].restartQueued
    /\ \A s \in Servers : s > gen => Quiet(s) /\ Idle(s)
\* A connection is late for its own server only when the close has stopped it.
LateAreOld ==
    \A c \in Slots : conns[c].st # "off" =>
        /\ conns[c].srv <= gen
        /\ conns[c].late /\ conns[c].srv = gen => phase \in {"stopped", "silent"}
\* What was aborted and is not late is awaited by a close or by a hot reload.
AbortsAreAwaited ==
    \A c \in Slots : conns[c].st = "aborted" /\ ~conns[c].late /\ phase \notin Closing =>
        phase = "serving" /\ job[gen] = "stopping"
\* What is about to be started is what was taken over, or there is a cause.
LoadIsCurrent ==
    phase \in {"loading", "started", "serving"} /\ job[gen] = "starting" =>
        /\ load[gen] # 0
        /\ cause[gen] = "none" => load[gen] = r[gen].current.chan /\ Running = {}
\* What was started is what was taken over, or there is a cause; a channel that
\* does not listen yet is going to be that.
RunsCurrent ==
    phase \in {"started", "serving"} /\ job[gen] = "none" /\ cause[gen] = "none" =>
        IF lasts \/ task[gen] = NoSlot
        THEN Running = {r[gen].current.chan} \ {0}
        ELSE Running = {} /\ r[gen].current.chan # 0
             /\ conns[task[gen]].chan = r[gen].current.chan
ServersInv == FreshAreQuiet /\ LateAreOld /\ AbortsAreAwaited
DriftInv == LoadIsCurrent /\ RunsCurrent

\* The end of a reload leaves the flags as they are, but those of what waited.
LEMMA FinishedFacts ==
    ASSUME NEW R \in Reloaders
    PROVE /\ Finished(R).current = R.current /\ Finished(R).on = R.on
          /\ Finished(R).event = R.event /\ Finished(R).restartQueued = R.restartQueued
          /\ ~Finished(R).pending /\ (~R.timer /\ ~R.pending => ~Finished(R).timer)
BY DEF Finished, Reloaders

\* What startChannel does before its await, for one server only.
LEMMA BeginStartFacts ==
    ASSUME TypeOK, NEW s \in Servers, NEW R \in Reloaders, NEW t, BeginStart(s, R, t)
    PROVE /\ \A q \in Servers : q # s => /\ r'[q] = r[q] /\ job'[q] = job[q]
                                         /\ load'[q] = load[q] /\ cause'[q] = cause[q]
          /\ r'[s] = R \/ r'[s] = Finished(R)
          /\ cause'[s] = StartCause(R.current)
          /\ \/ job'[s] = "none" /\ (t # NoSlot \/ Loaded = 0)
             \/ job'[s] = "starting" /\ Loaded # 0 /\ load'[s] = Loaded
BY DEF TypeOK, BeginStart

\* The reloader of a start is as quiet as before.
LEMMA BeginStartQuiet ==
    ASSUME TypeOK, NEW s \in Servers, NEW R \in Reloaders, NEW t, BeginStart(s, R, t)
    PROVE /\ r'[s].current = R.current /\ r'[s].on = R.on /\ r'[s].event = R.event
          /\ r'[s].restartQueued = R.restartQueued
          /\ ~R.timer /\ ~R.pending => ~r'[s].timer /\ ~r'[s].pending
<1>1. r'[s] = R \/ r'[s] = Finished(R)
    BY BeginStartFacts
<1>. QED
    BY <1>1, FinishedFacts

\* The watcher and a timer that fires too early touch one reloader's flags.
LEMMA FlagsOnly ==
    ASSUME TypeOK, NEW s \in Servers, WatcherTells(s) \/ WatcherFails(s) \/ ReloadWaits(s)
    PROVE /\ \A q \in Servers : q # s => r'[q] = r[q]
          /\ r'[s].restartQueued = r[s].restartQueued /\ r'[s].current = r[s].current
<1>0. r[s] \in Reloaders
    BY DEF TypeOK
<1>1. CASE WatcherTells(s)
    <2>. DEFINE R == [r[s] EXCEPT !.event = FALSE, !.timer = ~r[s].stopped]
    <2>1. r' = [r EXCEPT ![s] = R]
        BY <1>1 DEF WatcherTells, TypeOK
    <2>2. R.restartQueued = r[s].restartQueued /\ R.current = r[s].current
        BY <1>0 DEF Reloaders
    <2>. HIDE DEF R
    <2>. QED
        BY <2>1, <2>2 DEF TypeOK
<1>2. CASE WatcherFails(s)
    <2>. DEFINE R == [r[s] EXCEPT !.on = FALSE, !.event = FALSE]
    <2>1. r' = [r EXCEPT ![s] = R]
        BY <1>2 DEF WatcherFails, TypeOK
    <2>2. R.restartQueued = r[s].restartQueued /\ R.current = r[s].current
        BY <1>0 DEF Reloaders
    <2>. HIDE DEF R
    <2>. QED
        BY <2>1, <2>2 DEF TypeOK
<1>3. CASE ReloadWaits(s)
    <2>. DEFINE R == [r[s] EXCEPT !.timer = FALSE, !.pending = TRUE]
    <2>1. r' = [r EXCEPT ![s] = R]
        BY <1>3 DEF ReloadWaits, TypeOK
    <2>2. R.restartQueued = r[s].restartQueued /\ R.current = r[s].current
        BY <1>0 DEF Reloaders
    <2>. HIDE DEF R
    <2>. QED
        BY <2>1, <2>2 DEF TypeOK
<1>. QED
    BY <1>1, <1>2, <1>3

\* A settled task is that of one server.
LEMMA SettleFacts ==
    ASSUME TypeOK, NEW s \in Servers, NEW why, Settle(s, why)
    PROVE /\ \A q \in Servers : q # s =>
                /\ r'[q] = r[q] /\ job'[q] = job[q] /\ task'[q] = task[q]
                /\ load'[q] = load[q] /\ cause'[q] = cause[q]
          /\ task'[s] = NoSlot /\ gen' = gen /\ lasts' = lasts
          /\ phase' = IF s = gen /\ phase = "stopping" THEN "stopped" ELSE phase
          /\ r'[s].restartQueued = r[s].restartQueued /\ (Quiet(s) => Quiet(s)')
          /\ job[s] = "none" => job'[s] = "none" /\ cause'[s] = why
<1>1. /\ task' = [task EXCEPT ![s] = NoSlot] /\ gen' = gen /\ lasts' = lasts
      /\ phase' = IF s = gen /\ phase = "stopping" THEN "stopped" ELSE phase
    BY DEF Settle, Goes, process, chosen
<1>2. r[s] \in Reloaders
    BY DEF TypeOK
<1>3. CASE job[s] = "stopping"
    <2>1. BeginStart(s, r[s], NoSlot)
        BY <1>3 DEF Settle
    <2>2. \A q \in Servers : q # s => /\ r'[q] = r[q] /\ job'[q] = job[q]
                                      /\ load'[q] = load[q] /\ cause'[q] = cause[q]
        BY <1>2, <2>1, BeginStartFacts
    <2>3. /\ r'[s].on = r[s].on /\ r'[s].event = r[s].event
          /\ r'[s].restartQueued = r[s].restartQueued
          /\ ~r[s].timer /\ ~r[s].pending => ~r'[s].timer /\ ~r'[s].pending
        BY <1>2, <2>1, BeginStartQuiet
    <2>. QED
        BY <1>1, <1>3, <2>2, <2>3 DEF Quiet, TypeOK
<1>4. CASE job[s] # "stopping"
    <2>1. cause' = [cause EXCEPT ![s] = why] /\ UNCHANGED <<r, job, load>>
        BY <1>4 DEF Settle
    <2>. QED
        BY <1>1, <2>1 DEF TypeOK, Quiet
<1>. QED
    BY <1>3, <1>4

\* How a step keeps FreshAreQuiet.
LEMMA FreshKept ==
    ASSUME TypeOK, FreshAreQuiet, gen' = gen,
           phase' = phase \/ phase' \in Closing \/ (phase = "loading" /\ phase' = "started"),
           \A s \in Servers : Quiet(s) => Quiet(s)',
           \A s \in Servers : Quiet(s) /\ Idle(s) => Idle(s)',
           phase' = "serving" /\ ~r[gen].restartQueued => ~r'[gen].restartQueued
    PROVE FreshAreQuiet'
<1>1. gen \in Servers
    BY DEF TypeOK
<1>. QED
    BY <1>1 DEF FreshAreQuiet, Starting, Closing

\* How a step keeps LateAreOld.
LEMMA LateKept ==
    ASSUME LateAreOld, gen' = gen,
           phase \in {"stopped", "silent"} => phase' \in {"stopped", "silent"},
           \A c \in Slots : conns'[c].st # "off" =>
                /\ conns[c].st # "off" /\ conns'[c].srv = conns[c].srv
                /\ conns'[c].late = conns[c].late
    PROVE LateAreOld'
BY DEF LateAreOld

\* The servers are not touched by steps that leave these alone.
servers == <<gen, phase, job, task, conns, r, lasts>>

\* A step that touches no server keeps the invariant.
LEMMA ServersUnchanged == ASSUME ServersInv, UNCHANGED servers PROVE ServersInv'
BY DEF ServersInv, servers, FreshAreQuiet, LateAreOld, AbortsAreAwaited, Quiet, Idle

\* The process that exits leaves nothing behind.
LEMMA ExitServers == ASSUME Exit PROVE ServersInv'
BY DEF Exit, ServersInv, FreshAreQuiet, LateAreOld, AbortsAreAwaited, Quiet, Idle, Free,
       Asleep, Starting

\* A task is settled: the server that starts is not concerned, and no other
\* aborted connection is awaited by the same server.
LEMMA SettleServers ==
    ASSUME ReloadInv, ServersInv, NEW c \in Slots, AtTask(c),
           NEW why, Settle(conns[c].srv, why),
           \/ conns' = [conns EXCEPT ![c] = Free]
           \/ ~lasts /\ conns' = [conns EXCEPT ![c].st = "on"]
    PROVE ServersInv'
<1>s. PICK s \in Servers : s = conns[c].srv
    BY DEF ReloadInv, TypeOK, Connections
<1>1. /\ TypeOK /\ gen \in Servers /\ task[s] = c /\ c # NoSlot
      /\ KindsOfStates /\ HeldAreTasks /\ RestIsCurrent
    BY <1>s, ReloadAssumption DEF ReloadInv, ManagerInv, TypeOK, HeldAreTasks
<1>0. Settle(s, why)
    BY <1>s
<1>3. /\ \A d \in Slots : d # c => conns'[d] = conns[d]
      /\ conns'[c].st = "off"
         \/ /\ conns'[c].st = "on" /\ conns[c].st # "off"
            /\ conns'[c].srv = conns[c].srv /\ conns'[c].late = conns[c].late
    BY <1>1 DEF TypeOK, Connections, Free, AtTask, Held
<1>2. /\ \A q \in Servers : q # s =>
            /\ r'[q] = r[q] /\ job'[q] = job[q] /\ task'[q] = task[q]
      /\ task'[s] = NoSlot /\ gen' = gen /\ lasts' = lasts
      /\ phase' = IF s = gen /\ phase = "stopping" THEN "stopped" ELSE phase
      /\ r'[s].restartQueued = r[s].restartQueued /\ (Quiet(s) => Quiet(s)')
    BY <1>0, <1>1, SettleFacts
<1>4. FreshAreQuiet'
    <2>1. FreshAreQuiet /\ ~Idle(s)
        BY <1>1 DEF ServersInv, Idle
    <2>2. \A q \in Servers : Quiet(q) => Quiet(q)'
        <3>1. \A q \in Servers : q # s /\ Quiet(q) => Quiet(q)'
            BY <1>2 DEF Quiet
        <3>. QED
            BY <1>2, <3>1
    <2>3. \A q \in Servers : Quiet(q) /\ Idle(q) => Idle(q)'
        BY <1>2, <2>1 DEF Idle
    <2>4. phase' = phase \/ phase' \in Closing
        BY <1>2 DEF Closing
    <2>5. ~r[gen].restartQueued => ~r'[gen].restartQueued
        BY <1>1, <1>2
    <2>. QED
        BY <1>1, <1>2, <2>1, <2>2, <2>3, <2>4, <2>5, FreshKept
<1>5. LateAreOld'
    <2>1. LateAreOld
        BY DEF ServersInv
    <2>. QED
        BY <1>2, <1>3, <2>1, LateKept
<1>6. AbortsAreAwaited'
    <2> SUFFICES ASSUME NEW d \in Slots, conns'[d].st = "aborted", ~conns'[d].late,
                        phase' \notin Closing
                 PROVE phase' = "serving" /\ job'[gen'] = "stopping"
        BY DEF AbortsAreAwaited
    <2>1. d # c /\ conns[d].st = "aborted" /\ ~conns[d].late
        BY <1>3
    <2>2. lasts /\ AtTask(d)
        BY <1>1, <2>1 DEF KindsOfStates, AtTask, Held
    <2>3. task[gen] = d
        BY <1>1, <2>1, <2>2 DEF HeldAreTasks, RestIsCurrent
    <2>4. s # gen
        BY <1>1, <2>1, <2>3
    <2>5. phase' = phase /\ job'[gen] = job[gen]
        BY <1>1, <1>2, <2>4
    <2>. QED
        BY <1>2, <2>1, <2>5 DEF ServersInv, AbortsAreAwaited
<1>. QED
    BY <1>4, <1>5, <1>6 DEF ServersInv

\* Every step keeps the servers' invariant.
LEMMA ServersStep == ReloadInv /\ ServersInv /\ [Next]_vars => ServersInv'
<1> SUFFICES ASSUME ReloadInv, ServersInv, [Next]_vars PROVE ServersInv'
    OBVIOUS
<1>0. /\ TypeOK /\ lasts' = lasts /\ gen \in Servers /\ Servers \subseteq Nat
      /\ KindsOfStates /\ TasksAreHeld /\ HeldAreTasks /\ RestIsCurrent
      /\ FreshAreQuiet /\ LateAreOld /\ AbortsAreAwaited
    BY KindIsChosen DEF ReloadInv, ManagerInv, ServersInv, TypeOK, Servers
<1>1. ASSUME NEW c \in Slots, ChannelEnds(c) PROVE ServersInv'
    BY <1>0, <1>1, SettleServers DEF ChannelEnds, AtTask, Held, KindsOfStates
<1>2. ASSUME NEW c \in Slots, ChannelFails(c) PROVE ServersInv'
    BY <1>2, SettleServers DEF ChannelFails, AtTask, Held
<1>3. ASSUME NEW c \in Slots, ChannelListens(c) PROVE ServersInv'
    BY <1>0, <1>3, SettleServers DEF ChannelListens, AtTask, KindsOfStates
<1>4. ASSUME NEW s \in Servers, Create(s) PROVE ServersInv'
    <2>1. PICK c \in Slots :
            /\ conns' = [conns EXCEPT ![c] =
                  [srv |-> s, chan |-> load[s], late |-> IsLate(s),
                   st |-> IF lasts THEN "on" ELSE "opening"]]
            /\ task' = [task EXCEPT ![s] = c]
        BY <1>4 DEF Create
    <2>2. /\ conns'[c].srv = s /\ conns'[c].late = IsLate(s)
          /\ conns'[c].st # "aborted"
          /\ \A d \in Slots : d # c => conns'[d] = conns[d]
        BY <1>0, <2>1 DEF TypeOK
    <2>3. /\ job[s] = "starting" /\ job' = [job EXCEPT ![s] = "none"] /\ gen' = gen
          /\ phase' = phase \/ (s = gen /\ phase = "loading" /\ phase' = "started")
        BY <1>4 DEF Create, Goes, process
    <2>4. s <= gen /\ ~Idle(s)
        BY <1>0, <2>3 DEF FreshAreQuiet, Idle
    <2>5. \A q \in Servers : Quiet(q) => Quiet(q)'
        <3>1. r[s] \in Reloaders /\ r' = [r EXCEPT ![s] = Finished(r[s])]
            BY <1>0, <1>4 DEF Create, TypeOK
        <3>. QED
            BY <1>0, <3>1, FinishedFacts DEF Quiet, TypeOK
    <2>6. \A q \in Servers : Quiet(q) /\ Idle(q) => Idle(q)'
        BY <1>0, <2>1, <2>3, <2>4 DEF Idle, TypeOK
    <2>7. ~r[gen].restartQueued => ~r'[gen].restartQueued
        <3>1. r[s] \in Reloaders /\ r' = [r EXCEPT ![s] = Finished(r[s])]
            BY <1>0, <1>4 DEF Create, TypeOK
        <3>. QED
            BY <1>0, <3>1, FinishedFacts DEF TypeOK
    <2>8. FreshAreQuiet'
        BY <1>0, <2>3, <2>5, <2>6, <2>7, FreshKept
    <2>9. LateAreOld'
        BY <1>0, <2>2, <2>3, <2>4 DEF LateAreOld, IsLate
    <2>10. AbortsAreAwaited'
        BY <1>0, <2>2, <2>3 DEF AbortsAreAwaited, TypeOK, Closing
    <2>. QED
        BY <2>8, <2>9, <2>10 DEF ServersInv
<1>5. ASSUME UNCHANGED <<gen, job, task, conns, lasts>>,
             phase' = phase \/ (phase = "serving" /\ phase' = "closing"),
             \A s \in Servers : Quiet(s) => Quiet(s)',
             phase' = "serving" /\ ~r[gen].restartQueued => ~r'[gen].restartQueued
      PROVE ServersInv'
    <2>1. \A s \in Servers : Idle(s) => Idle(s)'
        BY <1>5 DEF Idle
    <2>2. FreshAreQuiet'
        BY <1>0, <1>5, <2>1, FreshKept DEF Closing
    <2>3. LateAreOld'
        BY <1>0, <1>5, LateKept
    <2>4. AbortsAreAwaited'
        BY <1>0, <1>5 DEF AbortsAreAwaited, Closing
    <2>. QED
        BY <2>2, <2>3, <2>4 DEF ServersInv
<1>6. ASSUME Edit PROVE ServersInv'
    <2>1. \A s \in Servers : /\ r'[s].on = r[s].on /\ r'[s].timer = r[s].timer
                             /\ r'[s].pending = r[s].pending
                             /\ r'[s].restartQueued = r[s].restartQueued
                             /\ (~r[s].event /\ ~r[s].on => ~r'[s].event)
        <3> SUFFICES ASSUME NEW s \in Servers
                     PROVE /\ r'[s].on = r[s].on /\ r'[s].timer = r[s].timer
                           /\ r'[s].pending = r[s].pending
                           /\ r'[s].restartQueued = r[s].restartQueued
                           /\ (~r[s].event /\ ~r[s].on => ~r'[s].event)
            OBVIOUS
        <3>. DEFINE a == r[s].event \/ r[s].on
                    b == r[s].missed \/ (s = gen /\ phase \in Starting \ {"new"})
        <3>1. r'[s] = [r[s] EXCEPT !.event = a, !.missed = b]
            BY <1>6 DEF Edit
        <3>2. r[s] \in Reloaders
            BY <1>0 DEF TypeOK
        <3>3. ~r[s].event /\ ~r[s].on => ~a
            OBVIOUS
        <3>. HIDE DEF a, b
        <3>. QED
            BY <3>1, <3>2, <3>3 DEF Reloaders
    <2>2. \A s \in Servers : Quiet(s) => Quiet(s)'
        BY <2>1 DEF Quiet
    <2>. QED
        BY <1>0, <1>5, <1>6, <2>1, <2>2 DEF Edit, process, chosen
<1>7. ASSUME NEW s \in Servers,
             WatcherTells(s) \/ WatcherFails(s) \/ ReloadWaits(s) \/ ReloadSkips(s)
      PROVE ServersInv'
    <2>1. /\ ~Quiet(s) /\ r[s] \in Reloaders
          /\ \A q \in Servers : q # s => r'[q] = r[q]
          /\ r'[s].restartQueued = r[s].restartQueued
        <3>1. ~Quiet(s)
            BY <1>7 DEF WatcherTells, WatcherFails, ReloadWaits, ReloadSkips, Reads, Quiet
        <3>2. r[s] \in Reloaders
            BY <1>0 DEF TypeOK
        <3>3. CASE ~ReloadSkips(s)
            BY <1>0, <1>7, <3>1, <3>2, <3>3, FlagsOnly
        <3>4. CASE ReloadSkips(s)
            <4>1. r' = [r EXCEPT ![s] = AfterRead(s)]
                BY <3>4 DEF ReloadSkips
            <4>2. AfterRead(s).restartQueued = r[s].restartQueued
                BY <3>2 DEF AfterRead, Reloaders
            <4>. QED
                BY <1>0, <3>1, <3>2, <4>1, <4>2 DEF TypeOK
        <3>. QED
            BY <3>3, <3>4
    <2>2. \A q \in Servers : Quiet(q) => Quiet(q)'
        BY <2>1 DEF Quiet
    <2>3. UNCHANGED <<gen, phase, job, task, conns, lasts>>
        BY <1>7
        DEF WatcherTells, WatcherFails, ReloadWaits, ReloadSkips, process, chosen
    <2>. QED
        BY <1>0, <1>5, <2>1, <2>2, <2>3
<1>8. ASSUME NEW s \in Servers, ReloadRestarts(s) PROVE ServersInv'
    <2>1. ~Quiet(s) /\ \A q \in Servers : q # s => r'[q] = r[q]
        BY <1>0, <1>8 DEF ReloadRestarts, Reads, Quiet, TypeOK
    <2>2. \A q \in Servers : Quiet(q) => Quiet(q)'
        BY <2>1 DEF Quiet
    <2>3. /\ UNCHANGED <<gen, job, task, conns, lasts>>
          /\ phase' = phase \/ (phase = "serving" /\ phase' = "closing")
        BY <1>8 DEF ReloadRestarts, RequestRestart, process, chosen
    <2>4. phase' = "serving" => s # gen
        BY <1>0, <1>8
        DEF ReloadRestarts, RequestRestart, FreshAreQuiet, process
    <2>. QED
        BY <1>0, <1>5, <2>1, <2>2, <2>3, <2>4
<1>9. ASSUME NEW s \in Servers, HotReload(s) PROVE ServersInv'
    <2>1. /\ ~Quiet(s) /\ UNCHANGED <<task, phase, gen>>
          /\ s = gen => phase \notin Starting
        BY <1>0, <1>9 DEF HotReload, process, Reads, Quiet, FreshAreQuiet
    <2>2. /\ \A q \in Servers : q # s => r'[q] = r[q] /\ job'[q] = job[q]
          /\ r'[s].restartQueued = r[s].restartQueued
        <3>1. AfterRead(s) \in Reloaders /\ AfterRead(s).restartQueued = r[s].restartQueued
            BY <1>0, AfterReadType DEF AfterRead, TypeOK, Reloaders
        <3>2. CASE task[s] # NoSlot
            BY <1>0, <1>9, <3>1, <3>2 DEF HotReload, TypeOK
        <3>3. CASE task[s] = NoSlot
            <4>1. BeginStart(s, AfterRead(s), NoSlot)
                BY <1>9, <3>3 DEF HotReload
            <4>. QED
                BY <1>0, <3>1, <4>1, BeginStartFacts, BeginStartQuiet
        <3>. QED
            BY <3>2, <3>3
    <2>3. \A q \in Servers : Quiet(q) => Quiet(q)'
        BY <2>1, <2>2 DEF Quiet
    <2>4. \A q \in Servers : Quiet(q) /\ Idle(q) => Idle(q)'
        BY <2>1, <2>2 DEF Idle
    <2>5. FreshAreQuiet'
        BY <1>0, <2>1, <2>2, <2>3, <2>4, FreshKept
    <2>6. CASE task[s] # NoSlot
        <3>1. /\ task[s] \in Slots /\ AtTask(task[s]) /\ Aborted(task[s])
              /\ conns[task[s]].srv = s /\ job' = [job EXCEPT ![s] = "stopping"]
            BY <1>0, <1>9, <2>6 DEF HotReload, TypeOK, TasksAreHeld
        <3>2. \A d \in Slots :
                /\ conns'[d].srv = conns[d].srv /\ conns'[d].late = conns[d].late
                /\ (conns'[d].st = "off" <=> conns[d].st = "off")
                /\ (conns'[d].st = "aborted" => conns[d].st = "aborted" \/ d = task[s])
            BY <1>0, <3>1, AbortedHolds
        <3>3. LateAreOld'
            BY <1>0, <2>1, <3>2, LateKept
        <3>4. AbortsAreAwaited'
            <4> SUFFICES ASSUME NEW d \in Slots, conns'[d].st = "aborted",
                                ~conns'[d].late, phase' \notin Closing
                         PROVE phase' = "serving" /\ job'[gen'] = "stopping"
                BY DEF AbortsAreAwaited
            <4>1. CASE d = task[s]
                <5>1. s = gen
                    BY <1>0, <3>1, <3>2, <4>1 DEF RestIsCurrent
                <5>2. phase \in Phases /\ phase # "exited"
                    BY <1>0, <1>9 DEF HotReload, Reads, Alive, TypeOK
                <5>. QED
                    BY <1>0, <2>1, <3>1, <5>1, <5>2 DEF TypeOK, Phases
            <4>2. CASE d # task[s]
                BY <1>0, <2>1, <3>1, <3>2, <4>2 DEF AbortsAreAwaited, TypeOK
            <4>. QED
                BY <4>1, <4>2
        <3>. QED
            BY <2>5, <3>3, <3>4 DEF ServersInv
    <2>7. CASE task[s] = NoSlot
        <3>1. UNCHANGED conns /\ job[s] = "none"
            BY <1>9, <2>7 DEF HotReload, Reads
        <3>2. LateAreOld'
            BY <1>0, <2>1, <3>1, LateKept
        <3>3. AbortsAreAwaited'
            BY <1>0, <2>1, <2>2, <3>1 DEF AbortsAreAwaited
        <3>. QED
            BY <2>5, <3>2, <3>3 DEF ServersInv
    <2>. QED
        BY <2>6, <2>7
<1>10. ASSUME UNCHANGED <<gen, conns, lasts, task>>,
              phase # "serving", phase \notin Closing, phase' \notin {"new"} \cup Closing,
              phase \in {"new", "booted", "started"},
              job'[gen] = "stopping" => job[gen] = "stopping",
              \A q \in Servers : q # gen => r'[q] = r[q] /\ job'[q] = job[q],
              phase' \in Starting => Quiet(gen)',
              phase' = "booted" => phase = "new" /\ job'[gen] = job[gen],
              ~r'[gen].restartQueued
       PROVE ServersInv'
    <2>1. FreshAreQuiet'
        BY <1>0, <1>10 DEF FreshAreQuiet, Quiet, Idle, Starting
    <2>2. LateAreOld'
        BY <1>0, <1>10, LateKept
    <2>3. AbortsAreAwaited'
        BY <1>0, <1>10 DEF AbortsAreAwaited
    <2>. QED
        BY <2>1, <2>2, <2>3 DEF ServersInv
<1>11. ASSUME ServerReadsConfig PROVE ServersInv'
    <2>1. CASE Exit
        BY <2>1, ExitServers
    <2>2. CASE ~Exit
        <3>1. /\ UNCHANGED <<gen, conns, lasts, task, job>>
              /\ phase = "new" /\ phase' = "booted"
              /\ r' = [r EXCEPT ![gen].current = file.content]
            BY <1>11, <2>2 DEF ServerReadsConfig, Goes, chosen
        <3>2. /\ \A q \in Servers : q # gen => r'[q] = r[q]
              /\ Quiet(gen) => Quiet(gen)' /\ ~r'[gen].restartQueued
            BY <1>0, <3>1 DEF TypeOK, Reloaders, Quiet
        <3>3. Quiet(gen) /\ job[gen] = "none"
            BY <1>0, <3>1 DEF FreshAreQuiet, Starting, Idle
        <3>. QED
            BY <1>0, <1>10, <3>1, <3>2, <3>3 DEF Closing, Quiet
    <2>. QED
        BY <2>1, <2>2
<1>12. ASSUME ServerStartsChannels PROVE ServersInv'
    <2>1. /\ UNCHANGED <<conns, task, gen, lasts>> /\ phase = "booted"
          /\ phase' \in {"started", "loading"}
          /\ BeginStart(gen, r[gen], task[gen])
        BY <1>12 DEF ServerStartsChannels, Goes, chosen
    <2>2. r[gen] \in Reloaders /\ Quiet(gen)
        BY <1>0, <2>1 DEF FreshAreQuiet, Starting, TypeOK
    <2>3. /\ \A q \in Servers : q # gen => r'[q] = r[q] /\ job'[q] = job[q]
          /\ job'[gen] # "stopping"
        BY <1>0, <2>1, <2>2, BeginStartFacts
    <2>4. /\ r'[gen].on = r[gen].on /\ r'[gen].event = r[gen].event
          /\ r'[gen].restartQueued = r[gen].restartQueued
          /\ ~r[gen].timer /\ ~r[gen].pending => ~r'[gen].timer /\ ~r'[gen].pending
        BY <1>0, <2>1, <2>2, BeginStartQuiet
    <2>5. Quiet(gen)' /\ ~r'[gen].restartQueued
        BY <2>1, <2>2, <2>4 DEF Quiet
    <2>. QED
        BY <1>0, <1>10, <2>1, <2>3, <2>5 DEF Closing
<1>13. ASSUME ServerServes PROVE ServersInv'
    <2>1. /\ UNCHANGED <<gen, conns, lasts, task, job>>
          /\ phase = "started" /\ phase' = "serving"
          /\ r' = [r EXCEPT ![gen].on = TRUE]
        BY <1>13 DEF ServerServes, Goes, chosen
    <2>2. /\ \A q \in Servers : q # gen => r'[q] = r[q]
          /\ r'[gen].restartQueued = r[gen].restartQueued
        BY <1>0, <2>1 DEF TypeOK, Reloaders
    <2>3. ~r[gen].restartQueued
        BY <1>0, <2>1 DEF FreshAreQuiet, Starting, Quiet
    <2>. QED
        BY <1>0, <1>10, <2>1, <2>2, <2>3 DEF Closing, Starting
<1>14. ASSUME Sigusr1 PROVE ServersInv'
    BY <1>0, <1>5, <1>14 DEF Sigusr1, RequestRestart, chosen, Quiet
<1>15. ASSUME Sigterm PROVE ServersInv'
    <2>1. CASE Exit
        BY <2>1, ExitServers
    <2>2. CASE ~Exit
        BY <1>0, <1>5, <1>15, <2>2 DEF Sigterm, chosen, Quiet
    <2>. QED
        BY <2>1, <2>2
<1>16. ASSUME CloseStopsChannel PROVE ServersInv'
    <2>1. /\ UNCHANGED <<r, task, job, gen, lasts>> /\ phase = "closing"
          /\ phase' \in {"stopping", "stopped"}
        BY <1>16 DEF CloseStopsChannel, Goes, chosen
    <2>2. FreshAreQuiet'
        BY <1>0, <2>1 DEF FreshAreQuiet, Starting, Quiet, Idle
    <2>3. AbortsAreAwaited'
        BY <2>1 DEF AbortsAreAwaited, Closing
    <2>4. LateAreOld'
        <3>1. CASE task[gen] # NoSlot
            <4>1. task[gen] \in Slots /\ AtTask(task[gen]) /\ Aborted(task[gen])
                BY <1>0, <1>16, <3>1 DEF CloseStopsChannel, TypeOK, TasksAreHeld
            <4>2. \A d \in Slots :
                    /\ conns'[d].srv = conns[d].srv /\ conns'[d].late = conns[d].late
                    /\ (conns'[d].st = "off" <=> conns[d].st = "off")
                BY <1>0, <4>1, AbortedHolds
            <4>. QED
                BY <1>0, <2>1, <4>2, LateKept
        <3>2. CASE task[gen] = NoSlot
            <4>1. UNCHANGED conns
                BY <1>16, <3>2 DEF CloseStopsChannel
            <4>. QED
                BY <1>0, <2>1, <4>1, LateKept
        <3>. QED
            BY <3>1, <3>2
    <2>. QED
        BY <2>2, <2>3, <2>4 DEF ServersInv
<1>17. ASSUME CloseStopsReloader PROVE ServersInv'
    <2>1. /\ UNCHANGED <<task, job, gen, lasts, conns>> /\ phase = "stopped"
          /\ phase' = "silent" /\ \A q \in Servers : q # gen => r'[q] = r[q]
        BY <1>0, <1>17 DEF CloseStopsReloader, Goes, chosen, TypeOK
    <2>2. FreshAreQuiet'
        BY <1>0, <2>1 DEF FreshAreQuiet, Starting, Quiet, Idle
    <2>3. LateAreOld'
        BY <1>0, <2>1, LateKept
    <2>4. AbortsAreAwaited'
        BY <2>1 DEF AbortsAreAwaited, Closing
    <2>. QED
        BY <2>2, <2>3, <2>4 DEF ServersInv
<1>18. ASSUME CloseEnds PROVE ServersInv'
    <2>1. CASE Exit
        BY <2>1, ExitServers
    <2>2. CASE ~Exit
        <3>1. /\ UNCHANGED <<task, job, r, lasts, conns>> /\ phase = "silent"
              /\ phase' = "new" /\ gen' = gen + 1 /\ gen < MaxServers
            BY <1>18, <2>2 DEF CloseEnds, chosen
        <3>2. gen' \in Servers /\ gen' > gen
            BY <1>0, <3>1, ReloadAssumption DEF Servers
        <3>3. FreshAreQuiet'
            BY <1>0, <3>1, <3>2 DEF FreshAreQuiet, Quiet, Idle
        <3>4. LateAreOld'
            <4>1. \A c \in Slots : conns[c].srv \in Nat
                BY <1>0 DEF TypeOK, Connections
            <4>2. gen \in Nat
                BY <1>0
            <4>. QED
                BY <1>0, <3>1, <4>1, <4>2 DEF LateAreOld
        <3>5. AbortsAreAwaited'
            BY <1>0, <3>1
            DEF AbortsAreAwaited, KindsOfStates, RestIsCurrent, AtTask, Held
        <3>. QED
            BY <3>3, <3>4, <3>5 DEF ServersInv
    <2>. QED
        BY <2>1, <2>2
<1>19. ASSUME ForceExit PROVE ServersInv'
    BY <1>19, ExitServers DEF ForceExit
<1>20. ASSUME UNCHANGED vars PROVE ServersInv'
    BY <1>20, ServersUnchanged DEF vars, servers, process, chosen
<1>. QED
    BY <1>1, <1>2, <1>3, <1>4, <1>6, <1>7, <1>8, <1>9, <1>11, <1>12, <1>13, <1>14,
       <1>15, <1>16, <1>17, <1>18, <1>19, <1>20
    DEF Next, ReloadStep, ServerStep, ChannelStep

\* The connections that run are those that are on or aborted, and not late.
LEMMA RunningKept ==
    ASSUME \A c \in Slots : Held(c)' /\ ~conns'[c].late <=> Held(c) /\ ~conns[c].late,
           \A c \in Slots : Held(c) /\ ~conns[c].late => conns'[c].chan = conns[c].chan
    PROVE Running' = Running
BY DEF Running, Held

\* Without a task, and with nothing that the manager has lost sight of, nothing
\* runs that is not late.
LEMMA NothingRuns ==
    ASSUME ManagerInv', task'[gen'] = NoSlot,
           lasts' \/ \A c \in Slots : conns'[c].st # "on"
    PROVE Running' = {}
<1>1. ASSUME NEW c \in Slots, Held(c)', ~conns'[c].late PROVE FALSE
    <2>1. lasts'
        BY <1>1 DEF ManagerInv, KindsOfStates, Held
    <2>2. task'[gen'] = c
        BY <1>1, <2>1 DEF ManagerInv, HeldAreTasks, RestIsCurrent, AtTask
    <2>. QED
        BY <2>2, ReloadAssumption
<1>. QED
    BY <1>1 DEF Running, Held

\* A start by the server of the process takes what was taken over, or names the
\* cause.
LEMMA BeginStartDrift ==
    ASSUME TypeOK, ManagerInv', NEW R \in Reloaders, BeginStart(gen, R, NoSlot),
           gen' = gen, lasts' = lasts, task'[gen] = NoSlot
    PROVE DriftInv'
<1>1. gen \in Servers
    BY DEF TypeOK
<1>2. /\ cause'[gen] = StartCause(R.current)
      /\ \/ job'[gen] = "none" /\ Loaded = 0
         \/ job'[gen] = "starting" /\ Loaded # 0 /\ load'[gen] = Loaded
    BY <1>1, BeginStartFacts
<1>3. r'[gen].current = R.current
    BY <1>1, BeginStartQuiet
<1>4. ASSUME cause'[gen] = "none"
      PROVE Running' = {} /\ Loaded = R.current.chan
    <2>1. /\ lasts \/ \A c \in Slots : conns'[c].st # "on"
          /\ Loaded = R.current.chan
        BY <1>2, <1>4 DEF StartCause
    <2>. QED
        BY <2>1, NothingRuns
<1>5. LoadIsCurrent'
    BY <1>2, <1>3, <1>4 DEF LoadIsCurrent
<1>6. RunsCurrent'
    BY <1>2, <1>3, <1>4 DEF RunsCurrent
<1>. QED
    BY <1>5, <1>6 DEF DriftInv

\* Steps that leave the server of the process and what runs alone.
LEMMA DriftKept ==
    ASSUME DriftInv, gen' = gen, lasts' = lasts,
           phase' \in {"loading", "started", "serving"} =>
                phase' = phase \/ (phase = "started" /\ phase' = "serving"),
           job'[gen] = job[gen], load'[gen] = load[gen], cause'[gen] = cause[gen],
           task'[gen] = task[gen], r'[gen].current.chan = r[gen].current.chan,
           Running' = Running,
           ~lasts /\ task[gen] # NoSlot => conns'[task[gen]].chan = conns[task[gen]].chan
    PROVE DriftInv'
BY DEF DriftInv, LoadIsCurrent, RunsCurrent

\* What is said of the server of the process concerns one that starts or serves.
LEMMA DriftEnds ==
    ASSUME phase' \notin {"loading", "started", "serving"} PROVE DriftInv'
BY DEF DriftInv, LoadIsCurrent, RunsCurrent

\* A task is settled: that of a server that is gone was late; and after that of
\* the server of the process, the hot reload that awaited it starts the channel.
LEMMA SettleDrift ==
    ASSUME ReloadInv, ManagerInv', DriftInv, NEW c \in Slots, AtTask(c),
           NEW why, Settle(conns[c].srv, why),
           \/ conns' = [conns EXCEPT ![c] = Free]
           \/ ~lasts /\ conns' = [conns EXCEPT ![c].st = "on"],
           conns[c].srv = gen /\ job[gen] = "none" => RunsCurrent'
    PROVE DriftInv'
<1>s. PICK s \in Servers : s = conns[c].srv
    BY DEF ReloadInv, TypeOK, Connections
<1>0. Settle(s, why)
    BY <1>s
<1>1. /\ TypeOK /\ gen \in Servers /\ task[s] = c /\ c # NoSlot
      /\ KindsOfStates /\ TasksAreHeld /\ StartsAlone /\ HeldAreTasks /\ RestIsCurrent
    BY <1>s, ReloadAssumption DEF ReloadInv, ManagerInv, TypeOK, HeldAreTasks
<1>2. /\ \A q \in Servers : q # s =>
            /\ r'[q] = r[q] /\ job'[q] = job[q] /\ task'[q] = task[q]
            /\ load'[q] = load[q] /\ cause'[q] = cause[q]
      /\ task'[s] = NoSlot /\ gen' = gen /\ lasts' = lasts
      /\ phase' = IF s = gen /\ phase = "stopping" THEN "stopped" ELSE phase
      /\ job[s] = "none" => job'[s] = "none"
    BY <1>0, <1>1, SettleFacts
<1>3. CASE s = gen
    <2>1. job[gen] # "starting"
        BY <1>1, <1>3 DEF StartsAlone
    <2>2. CASE job[gen] = "stopping"
        <3>1. BeginStart(gen, r[gen], NoSlot) /\ r[gen] \in Reloaders
            BY <1>0, <1>1, <1>3, <2>2 DEF Settle, TypeOK
        <3>. QED
            BY <1>1, <1>2, <1>3, <3>1, BeginStartDrift
    <2>3. CASE job[gen] = "none"
        BY <1>s, <1>2, <1>3, <2>3 DEF DriftInv, LoadIsCurrent
    <2>. QED
        BY <1>1, <2>1, <2>2, <2>3 DEF TypeOK
<1>4. CASE s # gen
    <2>1. conns[c].late /\ (task[gen] # NoSlot => task[gen] # c /\ task[gen] \in Slots)
        BY <1>s, <1>1, <1>4 DEF RestIsCurrent, TasksAreHeld, TypeOK
    <2>2. /\ \A d \in Slots : d # c => conns'[d] = conns[d]
          /\ conns'[c].st = "off" \/ conns'[c].late
        BY <1>1, <2>1 DEF TypeOK, Connections, Free
    <2>3. Running' = Running
        BY <2>1, <2>2, RunningKept DEF Held
    <2>4. phase' = phase
        BY <1>2, <1>4
    <2>. QED
        BY <1>1, <1>2, <1>4, <2>1, <2>2, <2>3, <2>4, DriftKept
<1>. QED
    BY <1>3, <1>4

\* Every step keeps the relation of what runs to what was taken over.
LEMMA DriftStep == ReloadInv /\ ServersInv /\ DriftInv /\ [Next]_vars => DriftInv'
<1> SUFFICES ASSUME ReloadInv, ServersInv, DriftInv, [Next]_vars PROVE DriftInv'
    OBVIOUS
<1>0. /\ TypeOK /\ lasts' = lasts /\ gen \in Servers /\ ManagerInv'
      /\ KindsOfStates /\ TasksAreHeld /\ HeldAreTasks /\ StartsAlone /\ RestIsCurrent
      /\ FreshAreQuiet /\ LateAreOld /\ AbortsAreAwaited /\ LoadIsCurrent /\ RunsCurrent
    BY KindIsChosen, ManagerStep DEF ReloadInv, ManagerInv, ServersInv, TypeOK, DriftInv
<1>1. ASSUME NEW c \in Slots, ChannelEnds(c) PROVE DriftInv'
    <2>1. lasts /\ AtTask(c) /\ Settle(conns[c].srv, cause[conns[c].srv])
        BY <1>0, <1>1 DEF ChannelEnds, KindsOfStates, AtTask, Held
    <2>2. ASSUME conns[c].srv = gen, job[gen] = "none" PROVE RunsCurrent'
        <3>1. phase \in Closing
            BY <1>0, <1>1, <2>2
            DEF ChannelEnds, LateAreOld, AbortsAreAwaited, Closing
        <3>2. gen' = gen /\ phase' \in Closing
            BY <2>1, <3>1 DEF Settle, Goes, process, Closing
        <3>. QED
            BY <3>2 DEF RunsCurrent, Closing
    <2>. QED
        BY <1>0, <1>1, <2>1, <2>2, SettleDrift DEF ChannelEnds
<1>2. ASSUME NEW c \in Slots, ChannelFails(c) PROVE DriftInv'
    <2>1. lasts /\ AtTask(c) /\ Settle(conns[c].srv, "failed")
        BY <1>2 DEF ChannelFails, AtTask, Held
    <2>2. ASSUME conns[c].srv = gen, job[gen] = "none" PROVE RunsCurrent'
        <3>1. cause'[gen] = "failed" /\ gen' = gen
            BY <1>0, <2>1, <2>2, SettleFacts
        <3>. QED
            BY <3>1 DEF RunsCurrent
    <2>. QED
        BY <1>0, <1>2, <2>1, <2>2, SettleDrift DEF ChannelFails
<1>3. ASSUME NEW c \in Slots, ChannelListens(c) PROVE DriftInv'
    <2>0. ~lasts /\ AtTask(c) /\ ~Held(c) /\ task[conns[c].srv] = c
        BY <1>0, <1>3 DEF ChannelListens, KindsOfStates, AtTask, Held, HeldAreTasks
    <2>1. CASE \E d \in Slots : Held(d)
        <3>1. conns' = [conns EXCEPT ![c] = Free] /\ Settle(conns[c].srv, "port")
            BY <1>3, <2>1 DEF ChannelListens
        <3>2. ASSUME conns[c].srv = gen, job[gen] = "none" PROVE RunsCurrent'
            <4>1. cause'[gen] = "port" /\ gen' = gen
                BY <1>0, <3>1, <3>2, SettleFacts
            <4>. QED
                BY <4>1 DEF RunsCurrent
        <3>. QED
            BY <1>0, <2>0, <3>1, <3>2, SettleDrift
    <2>2. CASE ~\E d \in Slots : Held(d)
        <3>1. /\ conns' = [conns EXCEPT ![c].st = "on"]
              /\ Settle(conns[c].srv, cause[conns[c].srv])
            BY <1>3, <2>2 DEF ChannelListens
        <3>2. ASSUME conns[c].srv = gen, job[gen] = "none" PROVE RunsCurrent'
            <4>1. /\ job'[gen] = "none" /\ cause'[gen] = cause[gen]
                  /\ task'[gen] = NoSlot /\ gen' = gen
                  /\ phase' = IF phase = "stopping" THEN "stopped" ELSE phase
                BY <1>0, <3>1, <3>2, SettleFacts
            <4>2. r'[gen] = r[gen]
                BY <1>0, <3>1, <3>2 DEF Settle
            <4>3. ASSUME phase' \in {"started", "serving"}, cause'[gen] = "none"
                  PROVE Running' = {r[gen].current.chan} \ {0}
                <5>1. /\ r[gen].current.chan # 0
                      /\ conns[c].chan = r[gen].current.chan
                    BY <2>0, <3>2, <4>1, <4>3, <1>0, ReloadAssumption DEF RunsCurrent
                <5>2. ~conns[c].late
                    BY <1>0, <1>3, <3>2, <4>1, <4>3 DEF LateAreOld, ChannelListens
                <5>3. /\ \A d \in Slots : d # c => ~Held(d)'
                      /\ Held(c)' /\ ~conns'[c].late /\ conns'[c].chan = conns[c].chan
                    BY <1>0, <2>2, <3>1, <5>2 DEF TypeOK, Connections, Held
                <5>. QED
                    BY <5>1, <5>3 DEF Running, Held
            <4>. QED
                BY <4>1, <4>2, <4>3 DEF RunsCurrent
        <3>. QED
            BY <1>0, <2>0, <3>1, <3>2, SettleDrift
    <2>. QED
        BY <2>1, <2>2
<1>4. ASSUME NEW s \in Servers, Create(s) PROVE DriftInv'
    <2>1. PICK c \in Slots :
            /\ conns[c].st = "off"
            /\ conns' = [conns EXCEPT ![c] =
                  [srv |-> s, chan |-> load[s], late |-> IsLate(s),
                   st |-> IF lasts THEN "on" ELSE "opening"]]
            /\ task' = [task EXCEPT ![s] = c]
        BY <1>4 DEF Create
    <2>2. /\ conns'[c].chan = load[s] /\ conns'[c].late = IsLate(s)
          /\ conns'[c].st = IF lasts THEN "on" ELSE "opening"
          /\ \A d \in Slots : d # c => conns'[d] = conns[d]
        BY <1>0, <2>1 DEF TypeOK
    <2>3. /\ job[s] = "starting" /\ job' = [job EXCEPT ![s] = "none"] /\ gen' = gen
          /\ load' = [load EXCEPT ![s] = 0] /\ UNCHANGED cause
          /\ phase' = phase \/ (s = gen /\ phase = "loading" /\ phase' = "started")
        BY <1>4 DEF Create, Goes, process
    <2>4. \A q \in Servers : r'[q].current = r[q].current
        <3>1. r[s] \in Reloaders /\ r' = [r EXCEPT ![s] = Finished(r[s])]
            BY <1>0, <1>4 DEF Create, TypeOK
        <3>. QED
            BY <1>0, <3>1, FinishedFacts DEF TypeOK
    <2>5. c # NoSlot /\ ~Held(c)
        BY <2>1, ReloadAssumption DEF Held
    <2>6. CASE s # gen
        <3>1. Running' = Running
            BY <2>2, <2>5, <2>6, RunningKept DEF IsLate, Held
        <3>2. task[gen] # NoSlot => task[gen] \in Slots /\ task[gen] # c
            BY <1>0, <2>1 DEF TasksAreHeld, AtTask, Held, TypeOK
        <3>3. phase' = phase /\ UNCHANGED <<job[gen], load[gen], cause[gen], task[gen]>>
            BY <1>0, <2>1, <2>3, <2>6 DEF TypeOK
        <3>. QED
            BY <1>0, <2>2, <2>3, <2>4, <3>1, <3>2, <3>3, <2>6, DriftKept
    <2>7. CASE s = gen
        <3>1. /\ job'[gen] = "none" /\ task'[gen] = c /\ cause'[gen] = cause[gen]
              /\ r'[gen].current = r[gen].current
            BY <1>0, <2>1, <2>3, <2>4, <2>7 DEF TypeOK
        <3>2. ASSUME phase' \in {"started", "serving"}, cause'[gen] = "none"
              PROVE IF lasts THEN Running' = {r[gen].current.chan} \ {0}
                    ELSE Running' = {} /\ r[gen].current.chan # 0
                         /\ conns'[c].chan = r[gen].current.chan
            <4>1. /\ load[gen] # 0 /\ load[gen] = r[gen].current.chan /\ Running = {}
                  /\ ~conns'[c].late
                BY <1>0, <2>2, <2>3, <2>7, <3>1, <3>2 DEF LoadIsCurrent, IsLate
            <4>2. \A d \in Slots : d # c => ~(Held(d)' /\ ~conns'[d].late)
                BY <2>2, <4>1 DEF Running, Held
            <4>3. CASE lasts
                <5>1. Held(c)' /\ conns'[c].chan = load[gen]
                    BY <2>2, <2>7, <4>3 DEF Held
                <5>. QED
                    BY <4>1, <4>2, <4>3, <5>1 DEF Running, Held
            <4>4. CASE ~lasts
                <5>1. ~Held(c)' /\ conns'[c].chan = load[gen]
                    BY <2>2, <2>7, <4>4 DEF Held
                <5>. QED
                    BY <4>1, <4>2, <4>4, <5>1 DEF Running, Held
            <4>. QED
                BY <4>3, <4>4
        <3>3. RunsCurrent'
            BY <1>0, <2>3, <2>5, <3>1, <3>2 DEF RunsCurrent
        <3>4. LoadIsCurrent'
            BY <2>3, <3>1 DEF LoadIsCurrent
        <3>. QED
            BY <3>3, <3>4 DEF DriftInv
    <2>. QED
        BY <2>6, <2>7
<1>5. ASSUME UNCHANGED <<gen, job, load, task, conns>>,
             phase' = phase \/ phase' \in Closing \/ (phase = "started" /\ phase' = "serving"),
             cause'[gen] = cause[gen], r'[gen].current.chan = r[gen].current.chan
      PROVE DriftInv'
    <2>1. Running' = Running
        BY <1>5 DEF Running, Held
    <2>. QED
        BY <1>0, <1>5, <2>1, DriftKept DEF Closing
<1>6. ASSUME Edit PROVE DriftInv'
    <2>1. r'[gen].current = r[gen].current
        <3>. DEFINE a == r[gen].event \/ r[gen].on
                    b == r[gen].missed \/ phase \in Starting \ {"new"}
        <3>1. r'[gen] = [r[gen] EXCEPT !.event = a, !.missed = b]
            BY <1>0, <1>6 DEF Edit
        <3>2. r[gen] \in Reloaders
            BY <1>0 DEF TypeOK
        <3>. HIDE DEF a, b
        <3>. QED
            BY <3>1, <3>2 DEF Reloaders
    <2>. QED
        BY <1>5, <1>6, <2>1 DEF Edit, process
<1>7. ASSUME NEW s \in Servers, WatcherTells(s) \/ WatcherFails(s) \/ ReloadWaits(s)
      PROVE DriftInv'
    <2>1. r'[gen].current = r[gen].current
        BY <1>0, <1>7, FlagsOnly
    <2>. QED
        BY <1>5, <1>7, <2>1 DEF WatcherTells, WatcherFails, ReloadWaits, process
<1>8. ASSUME NEW s \in Servers, ReloadSkips(s) PROVE DriftInv'
    <2>1. /\ UNCHANGED <<gen, job, load, task, conns, phase>>
          /\ r' = [r EXCEPT ![s] = AfterRead(s)]
          /\ cause' = [cause EXCEPT ![s] =
                IF Changed(s) /\ ChannelChanged(s) THEN "ignored" ELSE cause[s]]
          /\ job[s] = "none" /\ ~Quiet(s)
        BY <1>8 DEF ReloadSkips, process, Reads, Quiet
    <2>2. CASE s # gen
        <3>1. r'[gen] = r[gen] /\ cause'[gen] = cause[gen]
            BY <1>0, <2>1, <2>2 DEF TypeOK
        <3>. QED
            BY <1>5, <2>1, <3>1
    <2>3. CASE s = gen /\ Changed(gen) /\ ChannelChanged(gen)
        <3>1. cause'[gen] = "ignored" /\ job'[gen] = "none"
            BY <1>0, <2>1, <2>3 DEF TypeOK
        <3>. QED
            BY <2>1, <3>1 DEF DriftInv, LoadIsCurrent, RunsCurrent
    <2>4. CASE s = gen /\ ~(Changed(gen) /\ ChannelChanged(gen))
        <3>1. AfterRead(gen).current.chan = r[gen].current.chan
            BY <1>0, <2>4 DEF AfterRead, Changed, ChannelChanged, TypeOK, Reloaders
        <3>2. r'[gen].current.chan = r[gen].current.chan /\ cause'[gen] = cause[gen]
            BY <1>0, <2>1, <2>4, <3>1 DEF TypeOK
        <3>. QED
            BY <1>5, <2>1, <3>2
    <2>. QED
        BY <2>2, <2>3, <2>4
<1>9. ASSUME NEW s \in Servers, ReloadRestarts(s) PROVE DriftInv'
    <2>1. /\ UNCHANGED <<gen, job, load, task, conns, cause>>
          /\ phase' = phase \/ phase' = "closing"
          /\ r' = [r EXCEPT ![s] = [AfterRead(s) EXCEPT !.restartQueued = TRUE]]
          /\ ~Quiet(s)
        BY <1>9 DEF ReloadRestarts, RequestRestart, process, Reads, Quiet
    <2>2. CASE s # gen
        <3>1. r'[gen] = r[gen]
            BY <1>0, <2>1, <2>2 DEF TypeOK
        <3>. QED
            BY <1>5, <2>1, <3>1 DEF Closing
    <2>3. CASE s = gen
        <3>1. phase' \notin {"loading", "started", "serving"}
            BY <1>0, <1>9, <2>1, <2>3
            DEF ReloadRestarts, RequestRestart, FreshAreQuiet, Starting, process
        <3>. QED
            BY <3>1, DriftEnds
    <2>. QED
        BY <2>2, <2>3
<1>10. ASSUME NEW s \in Servers, HotReload(s) PROVE DriftInv'
    <2>1. /\ UNCHANGED <<gen, phase, task>> /\ ~Quiet(s) /\ job[s] = "none"
        BY <1>10 DEF HotReload, Reads, Quiet, process
    <2>2. AfterRead(s) \in Reloaders
        BY <1>0, AfterReadType
    <2>3. CASE task[s] # NoSlot
        <3>1. /\ task[s] \in Slots /\ AtTask(task[s]) /\ Aborted(task[s])
              /\ job' = [job EXCEPT ![s] = "stopping"]
              /\ r' = [r EXCEPT ![s] = AfterRead(s)] /\ UNCHANGED <<load, cause>>
            BY <1>0, <1>10, <2>3 DEF HotReload, TypeOK, TasksAreHeld
        <3>2. \A d \in Slots :
                /\ conns'[d].late = conns[d].late /\ conns'[d].chan = conns[d].chan
                /\ (Held(d)' <=> Held(d))
            BY <1>0, <3>1, AbortedHolds
        <3>3. CASE s = gen
            <4>1. job'[gen] = "stopping"
                BY <1>0, <3>1, <3>3 DEF TypeOK
            <4>. QED
                BY <2>1, <4>1 DEF DriftInv, LoadIsCurrent, RunsCurrent
        <3>4. CASE s # gen
            <4>1. Running' = Running
                BY <3>2, RunningKept
            <4>2. job'[gen] = job[gen] /\ r'[gen] = r[gen]
                BY <1>0, <3>1, <3>4 DEF TypeOK
            <4>3. task[gen] # NoSlot => task[gen] \in Slots
                BY <1>0 DEF TypeOK
            <4>. QED
                BY <1>0, <2>1, <3>1, <3>2, <4>1, <4>2, <4>3, DriftKept
        <3>. QED
            BY <3>3, <3>4
    <2>4. CASE task[s] = NoSlot
        <3>1. BeginStart(s, AfterRead(s), NoSlot) /\ UNCHANGED conns
            BY <1>10, <2>4 DEF HotReload
        <3>2. CASE s = gen
            BY <1>0, <2>1, <2>2, <2>4, <3>1, <3>2, BeginStartDrift
        <3>3. CASE s # gen
            <4>1. /\ job'[gen] = job[gen] /\ r'[gen] = r[gen]
                  /\ load'[gen] = load[gen] /\ cause'[gen] = cause[gen]
                BY <1>0, <2>2, <3>1, <3>3, BeginStartFacts
            <4>2. Running' = Running
                BY <3>1 DEF Running, Held
            <4>. QED
                BY <1>0, <2>1, <3>1, <4>1, <4>2, DriftKept
        <3>. QED
            BY <3>2, <3>3
    <2>. QED
        BY <2>3, <2>4
<1>11. ASSUME Exit PROVE DriftInv'
    BY <1>11, DriftEnds DEF Exit
<1>12. ASSUME ServerReadsConfig PROVE DriftInv'
    BY <1>11, <1>12, DriftEnds DEF ServerReadsConfig, Goes
<1>13. ASSUME ServerStartsChannels PROVE DriftInv'
    <2>1. /\ UNCHANGED <<conns, task, gen>> /\ phase = "booted"
          /\ BeginStart(gen, r[gen], task[gen])
        BY <1>13 DEF ServerStartsChannels, Goes
    <2>2. task[gen] = NoSlot /\ r[gen] \in Reloaders
        BY <1>0, <2>1 DEF FreshAreQuiet, Idle, TypeOK
    <2>. QED
        BY <1>0, <2>1, <2>2, BeginStartDrift
<1>14. ASSUME ServerServes PROVE DriftInv'
    <2>1. r'[gen].current = r[gen].current
        BY <1>0, <1>14 DEF ServerServes, TypeOK, Reloaders
    <2>. QED
        BY <1>5, <1>14, <2>1 DEF ServerServes, Goes
<1>15. ASSUME Sigusr1 \/ (Sigterm /\ ~Exit) PROVE DriftInv'
    BY <1>15, DriftEnds DEF Sigusr1, Sigterm, RequestRestart
<1>16. ASSUME CloseStopsChannel PROVE DriftInv'
    BY <1>16, DriftEnds DEF CloseStopsChannel, Goes
<1>17. ASSUME CloseStopsReloader PROVE DriftInv'
    BY <1>17, DriftEnds DEF CloseStopsReloader, Goes
<1>18. ASSUME CloseEnds PROVE DriftInv'
    BY <1>11, <1>18, DriftEnds DEF CloseEnds
<1>19. ASSUME UNCHANGED vars PROVE DriftInv'
    BY <1>5, <1>19 DEF vars, process
<1>. QED
    BY <1>1, <1>2, <1>3, <1>4, <1>6, <1>7, <1>8, <1>9, <1>10, <1>11, <1>12, <1>13,
       <1>14, <1>15, <1>16, <1>17, <1>18, <1>19
    DEF Next, ReloadStep, ServerStep, ChannelStep, ForceExit

-----------------------------------------------------------------------------
(* Theorems.                                                               *)

\* The invariant holds.
LEMMA ReloadInvariant == Spec => [](ReloadInv /\ ServersInv /\ DriftInv)
<1>1. Init => ReloadInv /\ ServersInv /\ DriftInv
    <2>1. Init => ManagerInv
        BY DEF Init, ManagerInv, KindsOfStates, TasksAreHeld, HeldAreTasks, StartsAlone,
               StopAwaits, RestIsCurrent, AtTask, Held, Free
    <2>2. Init => ServersInv
        BY ReloadAssumption
        DEF Init, ServersInv, FreshAreQuiet, LateAreOld, AbortsAreAwaited, Quiet, Idle,
            Asleep, Free, Servers
    <2>3. Init => DriftInv
        BY DEF Init, DriftInv, LoadIsCurrent, RunsCurrent
    <2>. QED
        BY <2>1, <2>2, <2>3, TypeInit DEF ReloadInv
<1>2. ReloadInv /\ ServersInv /\ DriftInv /\ [Next]_vars
        => (ReloadInv /\ ServersInv /\ DriftInv)'
    BY TypeStep, ManagerStep, ServersStep, DriftStep DEF ReloadInv
<1>. QED
    BY <1>1, <1>2, PTL DEF Spec

\* The variables of the reload have the values their declarations say.
THEOREM ReloadTypeCorrect == Spec => []TypeOK
<1>1. ReloadInv => TypeOK
    BY DEF ReloadInv
<1>. QED
    BY <1>1, ReloadInvariant, PTL

\* However edits, reloads, restarts and failures fall, a channel whose promise
\* lasts is the task of its server, and of an old server only what a hot reload
\* made after the close had stopped the channel is left.
THEOREM ConnectionsStayOwned == Spec => []ConnectionsAreOwned
<1>1. ReloadInv => ConnectionsAreOwned
    BY DEF ReloadInv, ManagerInv, HeldAreTasks, RestIsCurrent, AtTask, ConnectionsAreOwned
<1>. QED
    BY <1>1, ReloadInvariant, PTL

\* When the reloader has come to rest the channel runs what it took over, unless
\* the change was ignored, startChannel met another content, the channel ended by
\* itself, or it is of the kind that the manager loses sight of.
THEOREM DriftIsExplained == Spec => []DriftHasCause
<1>1. ReloadInv /\ DriftInv => DriftHasCause
    <2> SUFFICES ASSUME ReloadInv, DriftInv, Resting, cause[gen] = "none"
                 PROVE Running = {r[gen].current.chan} \ {0}
        BY DEF DriftHasCause
    <2>1. lasts \/ task[gen] = NoSlot
        BY DEF ReloadInv, ManagerInv, TypeOK, TasksAreHeld, AtTask, Resting
    <2>. QED
        BY <2>1 DEF DriftInv, RunsCurrent, Resting
<1>. QED
    BY <1>1, ReloadInvariant, PTL
===========================================================================
