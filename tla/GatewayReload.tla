--------------------------- MODULE GatewayReload ---------------------------
(***************************************************************************)
(* The life of a gateway process and of a channel account in it: the loop  *)
(* that starts one server after another (run-loop.ts), the start and the   *)
(* close of a server (server.impl.ts, server-close.ts), the reloader that  *)
(* watches the config file (config-reload.ts, server-reload-handlers.ts),  *)
(* and the manager that starts and stops channels (server-channels.ts).    *)
(*                                                                         *)
(* Servers of one process follow each other; what a closed one has under   *)
(* way goes on, and each has a manager of its own.  One channel, one       *)
(* account.  The other parts a hot reload restarts are in the modules of   *)
(* those parts (CronService, Heartbeat, LaneState).                        *)
(***************************************************************************)
EXTENDS Naturals

CONSTANTS
    MaxServers,  \* bound: the servers the process makes
    MaxVersions, \* bound: the contents of the channel's section of the file
    MaxEdits,    \* bound: the edits of the file
    Slots,       \* of the connections that there are at a time
    NoSlot

ASSUME ReloadAssumption ==
    /\ MaxServers \in Nat \ {0} /\ MaxVersions \in Nat \ {0} /\ MaxEdits \in Nat
    /\ Slots \subseteq Nat /\ NoSlot \notin Slots

Servers == 1..MaxServers
Modes == {"hybrid", "hot", "restart", "off"}
\* The channel's section (0: the account is disabled, or not there) and a
\* section that no running server can take over.
Contents == [chan : 0..MaxVersions, gw : 0..1]

VARIABLES
    file,   \* the config file; ok: it parses and validates
    edits,  \* how often it was edited
    mode,   \* gateway.reload.mode
    lasts,  \* startAccount's promise lasts as long as the channel does
    gen,    \* the server of the process: each has the next number
    phase,  \* where the process stands
    goal,   \* what the close under way was asked for
    r,      \* of each server: its config reloader
    job,    \* of each server: the start or hot reload it is making
    load,   \* of each server: the content startChannel has loaded
    task,   \* of each server: store.tasks and store.aborts, its connection
    conns,  \* the connections of the account
    cause   \* history, of each server: why its channel may not be as configured

process == <<gen, phase, goal>>
chosen == <<mode, lasts>>
vars == <<file, edits, chosen, process, r, job, load, task, conns, cause>>

Starting == {"new", "booted", "loading", "started"}
Closing == {"closing", "stopping", "stopped", "silent"}
Phases == Starting \cup {"serving", "exited"} \cup Closing

Reloaders == [on : BOOLEAN, event : BOOLEAN, timer : BOOLEAN, pending : BOOLEAN,
              restartQueued : BOOLEAN, stopped : BOOLEAN, missed : BOOLEAN,
              current : Contents]
Connections == [srv : Servers, chan : 0..MaxVersions, late : BOOLEAN,
                st : {"opening", "on", "aborted", "off"}]
Causes == {"none", "ignored", "raced", "failed", "unheld", "port"}

TypeOK ==
    /\ file \in [content : Contents, ok : BOOLEAN] /\ edits \in 0..MaxEdits
    /\ mode \in Modes /\ lasts \in BOOLEAN
    /\ gen \in Servers /\ phase \in Phases /\ goal \in {"none", "restart", "stop"}
    /\ r \in [Servers -> Reloaders]
    /\ job \in [Servers -> {"none", "stopping", "starting"}]
    /\ load \in [Servers -> 0..MaxVersions]
    /\ task \in [Servers -> Slots \cup {NoSlot}]
    /\ conns \in [Slots -> Connections]
    /\ cause \in [Servers -> Causes]

First == [chan |-> 1, gw |-> 0]
Free == [srv |-> 1, chan |-> 0, late |-> FALSE, st |-> "off"]
Asleep == [on |-> FALSE, event |-> FALSE, timer |-> FALSE, pending |-> FALSE,
           restartQueued |-> FALSE, stopped |-> FALSE, missed |-> FALSE,
           current |-> First]

Init ==
    /\ file = [content |-> First, ok |-> TRUE] /\ edits = 0
    /\ mode \in Modes /\ lasts \in BOOLEAN
    /\ gen = 1 /\ phase = "new" /\ goal = "none"
    /\ r = [s \in Servers |-> Asleep]
    /\ job = [s \in Servers |-> "none"] /\ load = [s \in Servers |-> 0]
    /\ task = [s \in Servers |-> NoSlot]
    /\ conns = [c \in Slots |-> Free]
    /\ cause = [s \in Servers |-> "none"]

Goes(next) == phase' = next /\ UNCHANGED <<gen, goal>>
Alive == phase # "exited"
\* A connection holds the account until it has ended, aborted or not.
Held(c) == conns[c].st \in {"on", "aborted"}

-----------------------------------------------------------------------------
(* The channel manager.                                                    *)

\* loadConfig takes a file it cannot read for an empty one.
Loaded == IF file.ok THEN file.content.chan ELSE 0

\* Mutant: what came during the reload is forgotten.
Finished_DropsPending(R) == [R EXCEPT !.pending = FALSE]

\* The end of runReload: what came meanwhile sets the timer again.
Finished(R) == [R EXCEPT !.pending = FALSE, !.timer = @ \/ (R.pending /\ ~R.stopped)]

StartCause(current) ==
    IF ~lasts /\ \E c \in Slots : conns'[c].st = "on" THEN "unheld"
    ELSE IF Loaded # current.chan THEN "raced" ELSE "none"

\* startChannel up to the await of isConfigured, for the reloader R of s and
\* with the task t that s has.
BeginStart(s, R, t) ==
    /\ cause' = [cause EXCEPT ![s] = StartCause(R.current)]
    /\ IF t # NoSlot \/ Loaded = 0
       THEN /\ job' = [job EXCEPT ![s] = "none"]
            /\ r' = [r EXCEPT ![s] = Finished(R)]
            /\ UNCHANGED load
       ELSE /\ job' = [job EXCEPT ![s] = "starting"]
            /\ load' = [load EXCEPT ![s] = Loaded]
            /\ r' = [r EXCEPT ![s] = R]

\* The close of the server has already stopped what there was to stop.
IsLate(s) == s # gen \/ phase \in {"stopped", "silent"}

\* After the await: the account is started and its task kept.
Create(s) ==
    /\ Alive /\ job[s] = "starting"
    /\ \E c \in Slots :
        /\ conns[c].st = "off" /\ \A d \in Slots : conns[d].st = "off" => c <= d
        /\ conns' = [conns EXCEPT ![c] =
              [srv |-> s, chan |-> load[s], late |-> IsLate(s),
               st |-> IF lasts THEN "on" ELSE "opening"]]
        /\ task' = [task EXCEPT ![s] = c]
    /\ job' = [job EXCEPT ![s] = "none"]
    /\ load' = [load EXCEPT ![s] = 0]
    /\ r' = [r EXCEPT ![s] = Finished(@)]
    /\ IF s = gen /\ phase = "loading" THEN Goes("started") ELSE UNCHANGED process
    /\ UNCHANGED <<file, edits, chosen, cause>>

\* abort.abort(): a channel that has not attached its listener yet misses it.
Aborted(c) ==
    conns' = IF conns[c].st = "on" THEN [conns EXCEPT ![c].st = "aborted"] ELSE conns

\* A task is settled: the manager forgets it, and whoever awaited it goes on.
Settle(s, otherwise) ==
    /\ task' = [task EXCEPT ![s] = NoSlot]
    /\ IF s = gen /\ phase = "stopping" THEN Goes("stopped") ELSE UNCHANGED process
    /\ IF job[s] = "stopping"
       THEN BeginStart(s, r[s], NoSlot)
       ELSE cause' = [cause EXCEPT ![s] = otherwise] /\ UNCHANGED <<r, job, load>>
    /\ UNCHANGED <<file, edits, chosen>>

\* An aborted channel ends.
ChannelEnds(c) ==
    /\ Alive /\ conns[c].st = "aborted"
    /\ conns' = [conns EXCEPT ![c] = Free]
    /\ Settle(conns[c].srv, cause[conns[c].srv])

\* A channel ends by itself; nothing starts it again.
ChannelFails(c) ==
    /\ Alive /\ lasts /\ conns[c].st = "on"
    /\ conns' = [conns EXCEPT ![c] = Free]
    /\ Settle(conns[c].srv, "failed")

\* monitorMSTeamsProvider, whose promise ends with the listen: the port may be
\* in use, which is logged and nothing else.
ChannelListens(c) ==
    /\ Alive /\ conns[c].st = "opening"
    /\ IF \E d \in Slots : Held(d)
       THEN conns' = [conns EXCEPT ![c] = Free] /\ Settle(conns[c].srv, "port")
       ELSE conns' = [conns EXCEPT ![c].st = "on"]
            /\ Settle(conns[c].srv, cause[conns[c].srv])

-----------------------------------------------------------------------------
(* The config file and the reloader.                                       *)

\* The file is written: one section changes, or it breaks or is mended.
Edit ==
    /\ Alive /\ edits < MaxEdits
    /\ edits' = edits + 1
    /\ \/ \E v \in 0..MaxVersions \ {file.content.chan} : file' = [file EXCEPT !.content.chan = v]
       \/ file' = [file EXCEPT !.content.gw = 1 - @]
       \/ file' = [file EXCEPT !.ok = ~@]
    /\ r' = [s \in Servers |-> [r[s] EXCEPT
          !.event = @ \/ r[s].on,
          !.missed = @ \/ (s = gen /\ phase \in Starting \ {"new"})]]
    /\ UNCHANGED <<chosen, process, job, load, task, conns, cause>>

\* chokidar tells of it, and the debounce timer starts again.
WatcherTells(s) ==
    /\ Alive /\ r[s].event
    /\ r' = [r EXCEPT ![s].event = FALSE, ![s].timer = ~r[s].stopped]
    /\ UNCHANGED <<file, edits, chosen, process, job, load, task, conns, cause>>

\* An error of the watcher closes it for good.
WatcherFails(s) ==
    /\ Alive /\ r[s].on
    /\ r' = [r EXCEPT ![s].on = FALSE, ![s].event = FALSE]
    /\ UNCHANGED <<file, edits, chosen, process, job, load, task, conns, cause>>

\* runReload while another one runs.
ReloadWaits(s) ==
    /\ Alive /\ r[s].timer /\ job[s] # "none"
    /\ r' = [r EXCEPT ![s].timer = FALSE, ![s].pending = TRUE]
    /\ UNCHANGED <<file, edits, chosen, process, job, load, task, conns, cause>>

\* runReload reads the file, and takes what it reads for current before it has
\* done anything about it.
Reads(s) == Alive /\ r[s].timer /\ job[s] = "none"
AfterRead(s) == [r[s] EXCEPT !.timer = FALSE, !.missed = FALSE,
                             !.current = IF file.ok THEN file.content ELSE @]
Changed(s) == file.ok /\ file.content # r[s].current
ChannelChanged(s) == file.content.chan # r[s].current.chan
GatewayChanged(s) == file.content.gw # r[s].current.gw

\* Nothing new, or nothing that the mode lets it do.
ReloadSkips(s) ==
    /\ Reads(s)
    /\ ~Changed(s) \/ mode = "off" \/ (mode = "hot" /\ GatewayChanged(s))
    /\ r' = [r EXCEPT ![s] = AfterRead(s)]
    /\ cause' = [cause EXCEPT ![s] =
          IF Changed(s) /\ ChannelChanged(s) THEN "ignored" ELSE @]
    /\ UNCHANGED <<file, edits, chosen, process, job, load, task, conns>>

\* request("restart") is ignored during a close.
RequestRestart ==
    IF phase = "serving"
    THEN phase' = "closing" /\ goal' = "restart" /\ UNCHANGED gen
    ELSE UNCHANGED process

\* requestGatewayRestart.
ReloadRestarts(s) ==
    /\ Reads(s) /\ Changed(s)
    /\ mode = "restart" \/ (mode = "hybrid" /\ GatewayChanged(s))
    /\ r' = [r EXCEPT ![s] = [AfterRead(s) EXCEPT !.restartQueued = TRUE]]
    /\ IF r[s].restartQueued THEN UNCHANGED process ELSE RequestRestart
    /\ UNCHANGED <<file, edits, chosen, job, load, task, conns, cause>>

\* Mutant: the channel is started without being stopped.
HotReload_NoStop(s) ==
    /\ Reads(s) /\ Changed(s) /\ ~GatewayChanged(s)
    /\ mode \in {"hot", "hybrid"}
    /\ UNCHANGED conns /\ BeginStart(s, AfterRead(s), task[s])
    /\ UNCHANGED <<file, edits, chosen, process, task>>

\* applyHotReload: the channel is stopped, what it had at work is awaited, and
\* the channel is started.
HotReload(s) ==
    /\ Reads(s) /\ Changed(s) /\ ~GatewayChanged(s)
    /\ mode \in {"hot", "hybrid"}
    /\ IF task[s] # NoSlot
       THEN /\ Aborted(task[s])
            /\ job' = [job EXCEPT ![s] = "stopping"]
            /\ r' = [r EXCEPT ![s] = AfterRead(s)]
            /\ UNCHANGED <<load, cause>>
       ELSE UNCHANGED conns /\ BeginStart(s, AfterRead(s), NoSlot)
    /\ UNCHANGED <<file, edits, chosen, process, task>>

-----------------------------------------------------------------------------
(* The servers and the loop.                                               *)

Exit ==
    /\ phase' = "exited" /\ UNCHANGED <<gen, goal>>
    /\ r' = [s \in Servers |-> Asleep]
    /\ job' = [s \in Servers |-> "none"] /\ load' = [s \in Servers |-> 0]
    /\ task' = [s \in Servers |-> NoSlot]
    /\ conns' = [c \in Slots |-> Free]
    /\ cause' = [s \in Servers |-> "none"]
    /\ UNCHANGED <<file, edits, chosen>>

\* startGatewayServer reads cfgAtStart, and refuses a file it cannot read.
ServerReadsConfig ==
    /\ phase = "new"
    /\ IF file.ok
       THEN /\ Goes("booted")
            /\ r' = [r EXCEPT ![gen].current = file.content]
            /\ UNCHANGED <<file, edits, chosen, job, load, task, conns, cause>>
       ELSE Exit

\* startChannels reads the file again.
ServerStartsChannels ==
    /\ phase = "booted"
    /\ UNCHANGED conns /\ BeginStart(gen, r[gen], task[gen])
    /\ Goes(IF Loaded = 0 THEN "started" ELSE "loading")
    /\ UNCHANGED <<file, edits, chosen, task>>

\* The watcher tells of changes from here on, and signals are heeded.
ServerServes ==
    /\ phase = "started" /\ Goes("serving")
    /\ r' = [r EXCEPT ![gen].on = TRUE]
    /\ UNCHANGED <<file, edits, chosen, job, load, task, conns, cause>>

\* SIGUSR1 or SIGTERM. A restart asked for before the server serves is lost, a
\* stop is an exit; a close under way ignores both. Bound: the last server is
\* not restarted by a signal.
Sigusr1 ==
    /\ phase = "serving" /\ gen < MaxServers
    /\ RequestRestart
    /\ UNCHANGED <<file, edits, chosen, r, job, load, task, conns, cause>>
Sigterm ==
    \/ phase \in Starting /\ Exit
    \/ /\ phase = "serving"
       /\ phase' = "closing" /\ goal' = "stop" /\ UNCHANGED gen
       /\ UNCHANGED <<file, edits, chosen, r, job, load, task, conns, cause>>

\* Mutant: the close aborts the channel and does not await its task.
CloseStopsChannel_NoAwait ==
    /\ phase = "closing"
    /\ IF task[gen] # NoSlot THEN Aborted(task[gen]) ELSE UNCHANGED conns
    /\ Goes("stopped")
    /\ UNCHANGED <<file, edits, chosen, r, job, load, task, cause>>

\* The close handler, to stopChannel.
CloseStopsChannel ==
    /\ phase = "closing"
    /\ IF task[gen] # NoSlot
       THEN Aborted(task[gen]) /\ Goes("stopping")
       ELSE UNCHANGED conns /\ Goes("stopped")
    /\ UNCHANGED <<file, edits, chosen, r, job, load, task, cause>>

\* configReloader.stop(), which leaves a reload under way alone.
CloseStopsReloader ==
    /\ phase = "stopped" /\ Goes("silent")
    /\ r' = [r EXCEPT ![gen].stopped = TRUE, ![gen].on = FALSE,
                      ![gen].event = FALSE, ![gen].timer = FALSE]
    /\ UNCHANGED <<file, edits, chosen, job, load, task, conns, cause>>

\* The server is closed: the loop starts the next one, or the process exits.
\* Bound: so it does after the last server.
CloseEnds ==
    /\ phase = "silent"
    /\ IF goal = "restart" /\ gen < MaxServers
       THEN /\ gen' = gen + 1 /\ phase' = "new" /\ goal' = "none"
            /\ UNCHANGED <<file, edits, chosen, r, job, load, task, conns, cause>>
       ELSE Exit

\* A close that takes five seconds.
ForceExit == phase \in Closing /\ Exit

-----------------------------------------------------------------------------

ChannelStep(c) == ChannelEnds(c) \/ ChannelListens(c)
ReloadStep(s) ==
    \/ WatcherTells(s) \/ ReloadWaits(s) \/ ReloadSkips(s) \/ ReloadRestarts(s)
    \/ HotReload(s) \/ Create(s)
ServerStep ==
    \/ ServerReadsConfig \/ ServerStartsChannels \/ ServerServes
    \/ CloseStopsChannel \/ CloseStopsReloader \/ CloseEnds
Next ==
    \/ Edit \/ Sigusr1 \/ Sigterm \/ ForceExit \/ ServerStep
    \/ \E s \in Servers : ReloadStep(s) \/ WatcherFails(s)
    \/ \E c \in Slots : ChannelStep(c) \/ ChannelFails(c)

Spec == Init /\ [][Next]_vars
\* Timers fire, awaits end, and an aborted channel ends.
FairSpec ==
    /\ Spec /\ WF_vars(ServerStep)
    /\ \A s \in Servers : WF_vars(ReloadStep(s))
    /\ \A c \in Slots : WF_vars(ChannelStep(c))

-----------------------------------------------------------------------------
(* Properties.                                                             *)

\* The account is not held twice, nor by a connection nobody can stop: where
\* startAccount's promise lasts, each connection is the task of its server, and
\* that is the one the process has. Only what a hot reload makes after the close
\* of its server has stopped the channel outlives it (server-channels.ts,
\* run-loop.ts).
ConnectionsAreOwned ==
    lasts => \A c \in Slots : Held(c) =>
        /\ task[conns[c].srv] = c
        /\ conns[c].late \/ conns[c].srv = gen

\* A reloader at rest, in a server that serves.
Resting ==
    /\ phase = "serving" /\ job[gen] = "none"
    /\ ~r[gen].timer /\ ~r[gen].pending /\ ~r[gen].event
    /\ \A c \in Slots : conns[c].st # "opening"
Running == {conns[c].chan : c \in {d \in Slots : Held(d) /\ ~conns[d].late}}

\* When the reloader has come to rest the channel runs what it took for current,
\* or there is a reason: the mode made it ignore the change; startChannel, which
\* loads the file again, met another content than the reload; the channel ended
\* by itself; or it is one that the manager lost sight of (config-reload.ts).
DriftHasCause ==
    Resting => \/ cause[gen] # "none"
               \/ Running = {r[gen].current.chan} \ {0}

\* Every edit is taken over in the end, whatever the process is doing when it
\* comes: it serves, at rest, with the file as it is, or has exited. Not so if
\* the file does not parse, if the watcher has failed, or if the last edit came
\* while the server was starting (config-reload.ts, run-loop.ts).
EditsAreTaken ==
    <>[](phase = "exited" \/ (Resting /\ (r[gen].current = file.content
                \/ ~file.ok \/ ~r[gen].on \/ r[gen].missed)))
=============================================================================
