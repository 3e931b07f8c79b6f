----------------------------- MODULE RemoteExec -----------------------------
(***************************************************************************)
(* The exec tool on a node (bash-tools.exec.ts, host=node): a command that *)
(* needs an approval returns at once, asks the operators, and is invoked   *)
(* on the node when they, or the fallback for an approval that expires,    *)
(* let it; the session hears of it by system events.  Composes the         *)
(* approvals and the node registry with the tool, which reaches both by    *)
(* gateway calls, and with the node host, which runs the command.          *)
(***************************************************************************)
EXTENDS NodeRegistry, ExecApprovals

CONSTANT Calls   \* commands; an approval and an invoke each

ASSUME ExecAssumption == Calls = Invokes /\ Calls = Approvals

VARIABLES
    stage,       \* of each call: where the tool stands
    askFallback, \* of each call: what an expired approval means
    listed,      \* the calls whose command is on the allowlist of their node
    approved,    \* of each call: the approved flag of its invoke
    node,        \* of each call: the node it is for
    atNode,      \* of each call: what the node made of it
    told         \* of each call: the system events about it, or its return

tool == <<stage, askFallback, listed, approved, node, told>>
vars == <<registry, approvals, stage, askFallback, listed, approved, node, atNode, told>>

Stages == {"new", "asking", "sending", "invoking", "over"}
TypeOK ==
    /\ RegistryTypeOK /\ ApprovalsTypeOK
    /\ stage \in [Calls -> Stages]
    /\ askFallback \in [Calls -> {"full", "allowlist", "deny"}]
    /\ listed \subseteq Calls
    /\ approved \in [Calls -> BOOLEAN]
    /\ node \in [Calls -> Nodes]
    /\ atNode \in [Calls -> {"none", "running", "ran", "reporting", "refused", "refusing"}]
    /\ told \in [Calls -> SUBSET {"denied", "finished", "returned"}]

Init ==
    /\ RegistryInit /\ ApprovalsInit
    /\ stage = [k \in Calls |-> "new"]
    /\ askFallback \in [Calls -> {"full", "allowlist", "deny"}]
    /\ listed \in SUBSET Calls
    /\ approved = [k \in Calls |-> FALSE]
    /\ node \in [Calls -> Nodes]
    /\ atNode = [k \in Calls |-> "none"]
    /\ told = [k \in Calls |-> {}]

Goes(k, next) == stage' = [stage EXCEPT ![k] = next]
Tell(k, what) == told' = [told EXCEPT ![k] = @ \cup {what}]

-----------------------------------------------------------------------------
(* The tool.                                                               *)

\* requiresExecApproval: the call asks, and the tool returns.
Ask(k) ==
    /\ stage[k] = "new"
    /\ Goes(k, "asking")
    /\ RequestApproval(k)
    /\ UNCHANGED <<registry, askFallback, listed, approved, node, atNode, told>>

\* The allowlist of the node, as it was fetched, makes asking unnecessary.
RunUnasked(k) ==
    /\ stage[k] = "new" /\ k \in listed
    /\ Goes(k, "sending")
    /\ UNCHANGED <<registry, approvals, askFallback, listed, approved, node, atNode, told>>

\* What a verdict means: refused, or sent with or without the approved flag.
RefusedBy(k) ==
    verdict[k] = "deny" \/ (verdict[k] = "expired" /\ askFallback[k] = "deny")
ApprovedBy(k) ==
    verdict[k] = "allow" \/ (verdict[k] = "expired" /\ askFallback[k] = "full")

HearVerdict_IgnoresFallback(k) ==
    /\ stage[k] = "asking" /\ verdict[k] # "open"
    /\ Goes(k, "sending")
    /\ approved' = [approved EXCEPT ![k] = verdict[k] # "deny"]
    /\ UNCHANGED <<registry, approvals, askFallback, listed, node, atNode, told>>
HearVerdict(k) ==
    /\ stage[k] = "asking" /\ verdict[k] # "open"
    /\ IF RefusedBy(k)
       THEN Goes(k, "over") /\ Tell(k, "denied") /\ UNCHANGED approved
       ELSE /\ Goes(k, "sending")
            /\ approved' = [approved EXCEPT ![k] = ApprovedBy(k)]
            /\ UNCHANGED told
    /\ UNCHANGED <<registry, approvals, askFallback, listed, node, atNode>>

\* The call of exec.approval.request fails: the approval stays open.
AskFails(k) ==
    /\ stage[k] = "asking"
    /\ Goes(k, "over") /\ Tell(k, "denied")
    /\ UNCHANGED <<registry, approvals, askFallback, listed, approved, node, atNode>>

\* node.invoke reaches the registry.
Send(k) ==
    /\ stage[k] = "sending"
    /\ Goes(k, "invoking")
    /\ InvokeSent(k, node[k]) \/ InvokeUnreachable(k, node[k])
    /\ UNCHANGED <<approvals, askFallback, listed, approved, node, atNode, told>>

\* The answer of node.invoke; if the call was asked for, a good one is silent,
\* as the node reports by an event, and any other is reported as a denial.
Heard(k) == IF verdict[k] = "open" THEN "returned" ELSE "denied"
HearAnswer(k) ==
    /\ stage[k] = "invoking" /\ answer[k] # "none"
    /\ Goes(k, "over")
    /\ IF answer[k] = "ok" /\ verdict[k] # "open" THEN UNCHANGED told ELSE Tell(k, Heard(k))
    /\ UNCHANGED <<registry, approvals, askFallback, listed, approved, node, atNode>>

\* The call of node.invoke times out or fails on the tool's side.
InvokeFails(k) ==
    /\ stage[k] \in {"sending", "invoking"}
    /\ Goes(k, "over") /\ Tell(k, Heard(k))
    /\ UNCHANGED <<registry, approvals, askFallback, listed, approved, node, atNode>>

-----------------------------------------------------------------------------
(* The node host: handleSystemRun.                                         *)

\* The request arrives if the socket it took has not broken.  The node runs
\* what is approved or listed, if its own policy does not forbid it.
MayRun(k) == approved[k] \/ k \in listed
NodeReceives(k, next) ==
    /\ k \in pendingInvokes \/ answer[k] \in {"timeout", "disconnected"}
    /\ sentTo[k].conn # NoConn /\ socket[sentTo[k].conn] = "open"
    /\ atNode[k] = "none"
    /\ next = "running" => MayRun(k)
    /\ atNode' = [atNode EXCEPT ![k] = next]
    /\ UNCHANGED <<registry, approvals, tool>>

\* The command ends, or was refused: an event first, awaited ...
Outcome(k) == IF atNode[k] = "running" THEN "finished" ELSE "denied"
Settled(k) == IF atNode[k] = "running" THEN "ran" ELSE "refused"
NodeReports(k) ==
    /\ atNode[k] \in {"running", "refusing"}
    /\ IF LinkOf(node[k]) = {}
       THEN /\ atNode' = [atNode EXCEPT ![k] = Settled(k)]
            /\ UNCHANGED told
       ELSE /\ atNode' = [atNode EXCEPT ![k] = "reporting"]
            /\ Tell(k, Outcome(k))
    /\ UNCHANGED <<registry, approvals, stage, askFallback, listed, approved, node>>

\* ... and then the result, which is lost if the socket is gone by now.
NodeAnswers(k) ==
    /\ atNode[k] = "reporting"
    /\ atNode' = [atNode EXCEPT ![k] = IF "finished" \in told[k] THEN "ran" ELSE "refused"]
    /\ IF LinkOf(node[k]) = {} THEN UNCHANGED registry
       ELSE HandleInvokeResult(k, node[k], IF "finished" \in told[k] THEN "ok" ELSE "failed")
    /\ UNCHANGED <<approvals, tool>>

-----------------------------------------------------------------------------
RegistryMoves ==
    /\ RegistryStep \/ \E k \in Calls : InvokeTimesOut(k)
    /\ UNCHANGED <<approvals, tool, atNode>>

ApprovalMoves ==
    /\ \E k \in Calls : ApprovalTimesOut(k) \/ \E d \in Decisions : Resolve(k, d)
    /\ UNCHANGED <<registry, tool, atNode>>

ToolStep(k) == HearVerdict(k) \/ Send(k) \/ HearAnswer(k)
NodeStep(k) ==
    \/ \E next \in {"running", "refusing"} : NodeReceives(k, next)
    \/ NodeReports(k) \/ NodeAnswers(k)

Next ==
    \/ RegistryMoves \/ ApprovalMoves
    \/ \E k \in Calls :
          \/ Ask(k) \/ RunUnasked(k) \/ AskFails(k) \/ InvokeFails(k)
          \/ ToolStep(k) \/ NodeStep(k)

\* Timers fire and calls inside the gateway are answered.  Nothing is assumed
\* of the operators, the nodes and their sockets.
Fairness ==
    \A k \in Calls :
        /\ WF_vars(ToolStep(k))
        /\ WF_vars(InvokeTimesOut(k) /\ UNCHANGED <<approvals, tool, atNode>>)
        /\ WF_vars(ApprovalTimesOut(k) /\ UNCHANGED <<registry, tool, atNode>>)

Spec == Init /\ [][Next]_vars
FairSpec == Spec /\ Fairness

-----------------------------------------------------------------------------
(* What makes it correct.                                                  *)

\* No command starts against a decision: what the node runs was allowed by an
\* operator, or nobody answered in time and the fallback allows it, or the
\* node itself lists it and no operator denied it; whichever of the timer, the
\* operators, the tool and the node's reconnects came first.
RunsAreAllowed ==
    \A k \in Calls : (atNode[k] = "running" \/ "finished" \in told[k]) =>
        /\ "deny" \notin accepted[k]
        /\ \/ "allow" \in accepted[k]
           \/ verdict[k] = "expired" /\ askFallback[k] = "full"
           \/ verdict[k] # "deny" /\ k \in listed

\* What becomes of a command agrees with its decision: a decision that the
\* gateway accepted is the one the tool hears, and what runs was allowed.
CommandsAreDecided == AcceptedDecisionStands /\ RunsAreAllowed

\* The maps of the registry agree with each other, a node with an open socket
\* is reachable unless a late close bereft it, and no invoke waits on a socket
\* that the gateway knows to be closed.
RegistryIsSound == MapsAgree /\ ConnectedIsReachable /\ WaitsForOpenConnection

\* The session hears of every command in the end: by the tool's return, the
\* node's events, or a report of the tool when the node does not answer, is
\* disconnected or was never reached.
EveryCallIsReported == \A k \in Calls : stage[k] # "new" ~> told[k] # {}
=============================================================================
