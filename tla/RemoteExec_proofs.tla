-------------------------- MODULE RemoteExec_proofs --------------------------
(***************************************************************************)
(* That a command which a node runs was allowed to, and that the registry  *)
(* of nodes is consistent: for any number of nodes, connections, sessions  *)
(* and commands.                                                           *)
(***************************************************************************)
EXTENDS RemoteExec, TLAPS

-----------------------------------------------------------------------------
(* The invariant.                                                          *)

\* A socket the gateway has not closed belongs to a node, and an invoke waits
\* for the node of the socket it took.
SocketsHaveNodes ==
    /\ \A c \in Conns : Up(c) => nodesByConn[c] \in Nodes
    /\ \A i \in pendingInvokes :
          sentTo[i].conn \in Conns /\ nodesByConn[sentTo[i].conn] = sentTo[i].node

RegistryInv ==
    /\ RegistryTypeOK
    /\ MapsAgree /\ ConnectedIsReachable /\ WaitsForOpenConnection
    /\ SocketsHaveNodes

\* An approval is open as long as it is in the map, and then has the decision
\* that was accepted, if one was.
ApprovalsInv ==
    /\ ApprovalsTypeOK
    /\ \A a \in pendingApprovals : verdict[a] = "open"
    /\ \A a \in Approvals :
          accepted[a] = (IF verdict[a] \in Decisions THEN {verdict[a]} ELSE {})

Sent(k) == sentTo[k].conn # NoConn

\* Before it is sent, nobody waits for an invoke; before it asks, no approval.
NothingEarly ==
    \A k \in Calls :
        /\ stage[k] \in {"new", "asking", "sending"} =>
              k \notin pendingInvokes /\ answer[k] = "none" /\ ~Sent(k)
        /\ stage[k] = "new" => k \notin pendingApprovals /\ verdict[k] = "open"

\* Once a command may be sent, no decision about it can come any more.
SentIsSettled ==
    \A k \in Calls :
        stage[k] \in {"sending", "invoking"} \/ Sent(k) =>
            k \notin pendingApprovals /\ verdict[k] # "deny"

\* The approved flag comes from an operator or from the fallback.
FlagIsEarned ==
    \A k \in Calls : approved[k] => ApprovedBy(k)

OnlySentRun ==
    \A k \in Calls : atNode[k] # "none" \/ "finished" \in told[k] => Sent(k)

ExecInv ==
    /\ TypeOK /\ RegistryInv /\ ApprovalsInv
    /\ NothingEarly /\ SentIsSettled /\ FlagIsEarned /\ OnlySentRun /\ RunsAreAllowed

-----------------------------------------------------------------------------
(* The registry.                                                           *)

\* A registration makes the new connection the one the node is reached by.
LEMMA RegisterKeeps ==
    ASSUME RegistryInv, NEW c \in Conns, NEW n \in Nodes, Register(c, n)
    PROVE  RegistryInv'
<1>. USE RegistryAssumption DEF RegistryTypeOK, Conns
<1>1. RegistryTypeOK'
    BY DEF RegistryInv, Register, invokes, subscriptions
<1>2. \A d \in Conns : Up(d) => d # c
    BY DEF Register, Up
<1>3. \A d \in Conns : Up(d)' <=> Up(d) \/ d = c
    BY DEF RegistryInv, Register, Up
<1>4. MapsAgree'
    BY <1>2, <1>3 DEF RegistryInv, MapsAgree, Register, subscriptions
<1>5. ConnectedIsReachable'
    BY DEF RegistryInv, ConnectedIsReachable, LinkOf, Register
<1>6. WaitsForOpenConnection'
    BY <1>3 DEF RegistryInv, WaitsForOpenConnection, SocketsHaveNodes, Register, invokes
<1>7. SocketsHaveNodes'
    BY <1>2, <1>3
    DEF RegistryInv, SocketsHaveNodes, WaitsForOpenConnection, Register, invokes
<1>. QED
    BY <1>1, <1>4, <1>5, <1>6, <1>7 DEF RegistryInv

\* A socket that breaks stays registered until the gateway closes it.
LEMMA BreaksKeeps ==
    ASSUME RegistryInv, NEW c \in Conns, Breaks(c)
    PROVE  RegistryInv'
<1>. USE DEF RegistryTypeOK, RegistryInv
<1>1. RegistryTypeOK'
    BY DEF Breaks, invokes, subscriptions
<1>2. \A d \in Conns : Up(d)' <=> Up(d)
    BY DEF Breaks, Up
<1>3. MapsAgree' /\ SocketsHaveNodes' /\ WaitsForOpenConnection'
    BY <1>2
    DEF MapsAgree, SocketsHaveNodes, WaitsForOpenConnection, Breaks, invokes, subscriptions
<1>4. ConnectedIsReachable'
    BY DEF ConnectedIsReachable, LinkOf, Breaks
<1>. QED
    BY <1>1, <1>3, <1>4

\* The close of a socket is the one step that takes entries away: the node's,
\* the socket's and its invokes'.
LEMMA ClosesKeeps ==
    ASSUME RegistryInv, NEW c \in Conns, Closes(c)
    PROVE  RegistryInv'
<1>. DEFINE n == nodesByConn[c]
<1>1. n \in Nodes /\ Up(c)
    BY DEF Closes, RegistryInv, SocketsHaveNodes
<1>2. /\ socket' = [socket EXCEPT ![c] = "closed"]
      /\ nodesByConn' = [nodesByConn EXCEPT ![c] = NoNode]
      /\ nodesById' = [nodesById EXCEPT ![n] = NoConn]
      /\ bereft' = bereft \cup ({nodesById[n]} \ {c, NoConn})
      /\ UNCHANGED <<sentTo, events>>
    BY DEF Closes, Unregister, UnsubscribeAll
<1>3. /\ pendingInvokes' = {i \in pendingInvokes : sentTo[i].node # n}
      /\ answer' = [i \in Invokes |->
             IF i \in pendingInvokes /\ sentTo[i].node = n THEN "disconnected" ELSE answer[i]]
    BY DEF Closes, Unregister
<1>4. /\ nodeSubscriptions' = [nodeSubscriptions EXCEPT ![n] = {}]
      /\ sessionSubscribers' = [s \in Sessions |->
             IF s \in nodeSubscriptions[n] THEN sessionSubscribers[s] \ {n}
             ELSE sessionSubscribers[s]]
    BY DEF Closes, UnsubscribeAll
<1>. HIDE DEF n
<1>5. RegistryTypeOK'
    <2>1. /\ socket' \in [Conns -> {"new", "open", "broken", "closed"}]
          /\ nodesById' \in [Nodes -> Conns \cup {NoConn}]
          /\ nodesByConn' \in [Conns -> Nodes \cup {NoNode}]
          /\ pendingInvokes' \subseteq Invokes
          /\ sentTo' \in [Invokes -> [node : Nodes \cup {NoNode}, conn : Conns \cup {NoConn}]]
          /\ events' \subseteq Nodes \X Sessions
        BY <1>1, <1>2, <1>3 DEF RegistryInv, RegistryTypeOK
    <2>2. answer' \in [Invokes -> Answers]
        BY <1>3 DEF RegistryInv, RegistryTypeOK, Answers
    <2>3. /\ nodeSubscriptions' \in [Nodes -> SUBSET Sessions]
          /\ sessionSubscribers' \in [Sessions -> SUBSET Nodes]
        BY <1>1, <1>4 DEF RegistryInv, RegistryTypeOK
    <2>4. bereft' \subseteq Conns
        BY <1>1, <1>2 DEF RegistryInv, RegistryTypeOK
    <2>. QED
        BY <2>1, <2>2, <2>3, <2>4 DEF RegistryTypeOK
<1>6. \A d \in Conns : Up(d)' <=> Up(d) /\ d # c
    BY <1>2 DEF RegistryInv, RegistryTypeOK, Up
<1>7. MapsAgree'
    <2>1. ASSUME NEW d \in Conns, NEW m \in Nodes, nodesById'[m] = d
          PROVE  Up(d)' /\ nodesByConn'[d] = m
        <3>1. m # n /\ nodesById[m] = d
            BY <1>1, <1>2, <2>1, RegistryAssumption DEF RegistryInv, RegistryTypeOK, Conns
        <3>2. Up(d) /\ nodesByConn[d] = m /\ d # c
            BY <3>1 DEF RegistryInv, MapsAgree, n
        <3>. QED
            BY <1>2, <1>6, <3>2 DEF RegistryInv, RegistryTypeOK
    <2>2. \A m \in Nodes, s \in Sessions :
              s \in nodeSubscriptions'[m] <=> m \in sessionSubscribers'[s]
        BY <1>1, <1>4 DEF RegistryInv, RegistryTypeOK, MapsAgree
    <2>. QED
        BY <2>1, <2>2 DEF MapsAgree
<1>8. ConnectedIsReachable'
    <2>. SUFFICES ASSUME NEW m \in Nodes, NEW d \in LinkOf(m)' \ bereft'
                  PROVE  nodesById'[m] = d
        BY DEF ConnectedIsReachable
    <2>1. d \in Conns /\ d # c /\ d \in LinkOf(m) \ bereft
        BY <1>2 DEF LinkOf, RegistryInv, RegistryTypeOK
    <2>2. nodesById[m] = d
        BY <2>1 DEF RegistryInv, ConnectedIsReachable
    <2>3. m # n
        BY <1>2, <2>1, <2>2, RegistryAssumption DEF Conns
    <2>. QED
        BY <1>2, <2>2, <2>3 DEF RegistryInv, RegistryTypeOK
<1>9. ASSUME NEW i \in pendingInvokes'
      PROVE  /\ sentTo'[i].conn \in Conns /\ Up(sentTo[i].conn)'
             /\ nodesByConn'[sentTo'[i].conn] = sentTo'[i].node /\ answer'[i] = "none"
    <2>1. i \in pendingInvokes /\ sentTo[i].node # n /\ i \in Invokes
        BY <1>3, <1>9 DEF RegistryInv, RegistryTypeOK
    <2>2. /\ sentTo[i].conn \in Conns /\ nodesByConn[sentTo[i].conn] = sentTo[i].node
          /\ Up(sentTo[i].conn) /\ answer[i] = "none"
        BY <2>1 DEF RegistryInv, SocketsHaveNodes, WaitsForOpenConnection
    <2>3. sentTo[i].conn # c
        BY <2>1, <2>2 DEF n
    <2>. QED
        BY <1>2, <1>3, <1>6, <2>1, <2>2, <2>3 DEF RegistryInv, RegistryTypeOK
<1>10. SocketsHaveNodes'
    BY <1>2, <1>6, <1>9 DEF RegistryInv, RegistryTypeOK, SocketsHaveNodes
<1>11. WaitsForOpenConnection'
    BY <1>2, <1>9 DEF WaitsForOpenConnection
<1>. QED
    BY <1>5, <1>7, <1>8, <1>10, <1>11 DEF RegistryInv

\* Subscriptions change both of their maps alike.
LEMMA SubscriptionsKeep ==
    ASSUME RegistryInv, NEW n \in Nodes, NEW s \in Sessions,
           SubscribeReceived(n, s) \/ Subscribe(n, s) \/ Unsubscribe(n, s)
    PROVE  RegistryInv'
<1>1. UNCHANGED <<maps, invokes>>
    BY DEF SubscribeReceived, Subscribe, Unsubscribe
<1>2. /\ RegistryTypeOK'
      /\ \A m \in Nodes, t \in Sessions :
            t \in nodeSubscriptions'[m] <=> m \in sessionSubscribers'[t]
    <2>1. CASE SubscribeReceived(n, s)
        BY <1>1, <2>1
        DEF SubscribeReceived, RegistryInv, RegistryTypeOK, MapsAgree, maps, invokes
    <2>2. CASE Subscribe(n, s)
        BY <1>1, <2>2 DEF Subscribe, RegistryInv, RegistryTypeOK, MapsAgree, maps, invokes
    <2>3. CASE Unsubscribe(n, s)
        BY <1>1, <2>3 DEF Unsubscribe, RegistryInv, RegistryTypeOK, MapsAgree, maps, invokes
    <2>. QED
        BY <2>1, <2>2, <2>3
<1>. QED
    BY <1>1, <1>2
    DEF RegistryInv, MapsAgree, ConnectedIsReachable, LinkOf, WaitsForOpenConnection,
        SocketsHaveNodes, Up, maps, invokes

\* So every step of the registry itself keeps its invariant.
LEMMA RegistryStepKeeps == RegistryInv /\ RegistryStep => RegistryInv'
BY RegisterKeeps, BreaksKeeps, ClosesKeeps, SubscriptionsKeep DEF RegistryStep

\* What the operations on an invoke do to the registry: nothing but its answer,
\* and its place among those that wait.
LEMMA InvokesKeep ==
    ASSUME RegistryInv, NEW i \in Invokes, UNCHANGED <<maps, sentTo, subscriptions>>,
           pendingInvokes' \subseteq pendingInvokes, answer' \in [Invokes -> Answers],
           \A j \in pendingInvokes' : answer'[j] = answer[j]
    PROVE  RegistryInv'
BY DEF RegistryInv, RegistryTypeOK, MapsAgree, ConnectedIsReachable, LinkOf,
       WaitsForOpenConnection, SocketsHaveNodes, Up, maps, subscriptions

\* An invoke takes a connection that is not closed and belongs to its node.
LEMMA InvokeSentKeeps ==
    ASSUME RegistryInv, NEW i \in Invokes, NEW n \in Nodes, InvokeSent(i, n),
           answer[i] = "none"
    PROVE  RegistryInv'
<1>1. /\ nodesById[n] \in Conns
      /\ pendingInvokes' = pendingInvokes \cup {i}
      /\ sentTo' = [sentTo EXCEPT ![i] = [node |-> n, conn |-> nodesById[n]]]
      /\ UNCHANGED <<maps, answer, subscriptions>>
    BY DEF InvokeSent, RegistryInv, RegistryTypeOK
<1>2. RegistryTypeOK' /\ MapsAgree' /\ ConnectedIsReachable'
    BY <1>1
    DEF RegistryInv, RegistryTypeOK, MapsAgree, ConnectedIsReachable, LinkOf, Up, maps,
        subscriptions
<1>3. Up(nodesById[n]) /\ nodesByConn[nodesById[n]] = n
    BY <1>1 DEF RegistryInv, MapsAgree
<1>4. SocketsHaveNodes' /\ WaitsForOpenConnection'
    BY <1>1, <1>3
    DEF RegistryInv, RegistryTypeOK, SocketsHaveNodes, WaitsForOpenConnection, Up, maps
<1>. QED
    BY <1>2, <1>4 DEF RegistryInv

-----------------------------------------------------------------------------
(* The approvals.                                                          *)

\* A new approval of a call that never had one keeps the approvals' invariant.
LEMMA RequestKeeps ==
    ASSUME ApprovalsInv, NEW a \in Approvals, RequestApproval(a), verdict[a] = "open"
    PROVE  ApprovalsInv'
BY DEF ApprovalsInv, ApprovalsTypeOK, RequestApproval

\* The timer and the operators keep it: who comes first takes the entry away.
LEMMA DecisionKeeps ==
    ASSUME ApprovalsInv, NEW a \in Approvals,
           ApprovalTimesOut(a) \/ \E d \in Decisions : Resolve(a, d)
    PROVE  /\ ApprovalsInv'
           /\ a \in pendingApprovals /\ pendingApprovals' = pendingApprovals \ {a}
           /\ \A b \in Approvals \ {a} :
                 verdict'[b] = verdict[b] /\ accepted'[b] = accepted[b]
<1>1. a \in pendingApprovals /\ verdict[a] = "open" /\ accepted[a] = {}
    BY DEF ApprovalsInv, ApprovalTimesOut, Resolve, Decisions
<1>2. CASE ApprovalTimesOut(a)
    BY <1>1, <1>2 DEF ApprovalsInv, ApprovalsTypeOK, ApprovalTimesOut, Decisions
<1>3. ASSUME NEW d \in Decisions, Resolve(a, d)
      PROVE  /\ ApprovalsInv'
             /\ pendingApprovals' = pendingApprovals \ {a}
             /\ \A b \in Approvals \ {a} :
                   verdict'[b] = verdict[b] /\ accepted'[b] = accepted[b]
    BY <1>1, <1>3 DEF ApprovalsInv, ApprovalsTypeOK, Resolve, Decisions
<1>. QED
    BY <1>1, <1>2, <1>3

-----------------------------------------------------------------------------
(* The composition.                                                        *)

\* The registry's invariant is kept by what the tool and the node host do to it.
LEMMA RegistryKept ==
    ASSUME ExecInv, [Next]_vars
    PROVE  RegistryInv'
<1>. USE ExecAssumption
<1>1. CASE UNCHANGED registry
    BY <1>1
    DEF ExecInv, RegistryInv, RegistryTypeOK, MapsAgree, ConnectedIsReachable, LinkOf,
        WaitsForOpenConnection, SocketsHaveNodes, Up, registry, maps, invokes,
        subscriptions
<1>2. CASE RegistryMoves
    <2>1. CASE RegistryStep
        BY <2>1, RegistryStepKeeps DEF ExecInv
    <2>2. ASSUME NEW k \in Calls, InvokeTimesOut(k) PROVE RegistryInv'
        <3>1. /\ UNCHANGED <<maps, sentTo, subscriptions>>
              /\ pendingInvokes' \subseteq pendingInvokes
              /\ answer' \in [Invokes -> Answers]
              /\ \A j \in pendingInvokes' : answer'[j] = answer[j]
            BY <2>2 DEF InvokeTimesOut, ExecInv, RegistryInv, RegistryTypeOK, Answers
        <3>. QED
            BY <3>1, InvokesKeep DEF ExecInv
    <2>. QED
        BY <1>2, <2>1, <2>2 DEF RegistryMoves
<1>3. ASSUME NEW k \in Calls, Send(k) PROVE RegistryInv'
    <2>1. node[k] \in Nodes /\ answer[k] = "none" /\ k \notin pendingInvokes
        BY <1>3 DEF Send, ExecInv, TypeOK, NothingEarly
    <2>2. CASE InvokeSent(k, node[k])
        BY <2>1, <2>2, InvokeSentKeeps DEF ExecInv
    <2>3. CASE InvokeUnreachable(k, node[k])
        <3>1. /\ UNCHANGED <<maps, sentTo, subscriptions>>
              /\ pendingInvokes' \subseteq pendingInvokes
              /\ answer' \in [Invokes -> Answers]
              /\ \A j \in pendingInvokes' : answer'[j] = answer[j]
            BY <2>1, <2>3
            DEF InvokeUnreachable, ExecInv, RegistryInv, RegistryTypeOK, Answers
        <3>. QED
            BY <3>1, InvokesKeep DEF ExecInv
    <2>. QED
        BY <1>3, <2>2, <2>3 DEF Send
<1>4. ASSUME NEW k \in Calls, NodeAnswers(k), ~ UNCHANGED registry PROVE RegistryInv'
    <2>1. PICK result \in {"ok", "failed"} : HandleInvokeResult(k, node[k], result)
        BY <1>4 DEF NodeAnswers
    <2>2. /\ UNCHANGED <<maps, sentTo, subscriptions>>
          /\ pendingInvokes' \subseteq pendingInvokes
          /\ answer' \in [Invokes -> Answers]
          /\ \A j \in pendingInvokes' : answer'[j] = answer[j]
        BY <2>1 DEF HandleInvokeResult, ExecInv, RegistryInv, RegistryTypeOK, Answers
    <2>. QED
        BY <2>2, InvokesKeep DEF ExecInv
<1>5. RegistryMoves \/ (\E k \in Calls : Send(k) \/ NodeAnswers(k)) \/ UNCHANGED registry
    BY DEF Next, vars, ApprovalMoves, Ask, RunUnasked, AskFails, InvokeFails, ToolStep,
           HearVerdict, HearAnswer, NodeStep, NodeReceives, NodeReports
<1>. QED
    BY <1>1, <1>2, <1>3, <1>4, <1>5

\* So is the approvals': a call asks once.
LEMMA ApprovalsKept ==
    ASSUME ExecInv, [Next]_vars
    PROVE  ApprovalsInv'
<1>. USE ExecAssumption
<1>1. CASE UNCHANGED approvals
    BY <1>1 DEF ExecInv, ApprovalsInv, ApprovalsTypeOK, approvals
<1>2. CASE ApprovalMoves
    BY <1>2, DecisionKeeps DEF ApprovalMoves, ExecInv
<1>3. ASSUME NEW k \in Calls, Ask(k) PROVE ApprovalsInv'
    <2>1. verdict[k] = "open"
        BY <1>3 DEF Ask, ExecInv, NothingEarly
    <2>. QED
        BY <1>3, <2>1, RequestKeeps DEF Ask, ExecInv
<1>4. ApprovalMoves \/ (\E k \in Calls : Ask(k)) \/ UNCHANGED approvals
    BY DEF Next, vars, RegistryMoves, RunUnasked, AskFails, InvokeFails, ToolStep, Send,
           HearVerdict, HearAnswer, NodeStep, NodeReceives, NodeReports, NodeAnswers
<1>. QED
    BY <1>1, <1>2, <1>3, <1>4

\* The tool, the node host and their own parts of the invariant.
ToolTypeOK ==
    /\ stage \in [Calls -> Stages]
    /\ askFallback \in [Calls -> {"full", "allowlist", "deny"}]
    /\ listed \subseteq Calls
    /\ approved \in [Calls -> BOOLEAN]
    /\ node \in [Calls -> Nodes]
    /\ atNode \in [Calls -> {"none", "running", "ran", "reporting", "refused", "refusing"}]
    /\ told \in [Calls -> SUBSET {"denied", "finished", "returned"}]

ToolInv ==
    /\ ToolTypeOK
    /\ NothingEarly /\ SentIsSettled /\ FlagIsEarned /\ OnlySentRun /\ RunsAreAllowed

\* Each step keeps them; the registry and the approvals move under the tool only
\* as far as a call lets them.
LEMMA ToolKept ==
    ASSUME ExecInv, [Next]_vars
    PROVE  ToolInv'
<1>. USE ExecAssumption DEF ToolTypeOK
<1>1. ToolInv /\ RegistryTypeOK /\ ApprovalsTypeOK
    BY DEF ExecInv, ToolInv, TypeOK
<1>. USE DEF RegistryTypeOK, ApprovalsTypeOK
<1>2. CASE RegistryMoves
    <2>1. /\ pendingInvokes' \subseteq pendingInvokes
          /\ \A k \in Calls : k \notin pendingInvokes => answer'[k] = answer[k]
          /\ UNCHANGED <<sentTo, approvals, tool, atNode>>
        BY <1>1, <1>2
        DEF RegistryMoves, RegistryStep, Breaks, Closes, Unregister, Register,
            SubscribeReceived, Subscribe, Unsubscribe, InvokeTimesOut, invokes
    <2>. QED
        BY <1>1, <2>1
        DEF ToolInv, NothingEarly, SentIsSettled, FlagIsEarned, ApprovedBy, OnlySentRun,
            RunsAreAllowed, Sent, approvals, tool
<1>3. CASE ApprovalMoves
    <2>1. PICK a \in Calls : ApprovalTimesOut(a) \/ \E d \in Decisions : Resolve(a, d)
        BY <1>3 DEF ApprovalMoves
    <2>2. /\ a \in pendingApprovals /\ pendingApprovals' = pendingApprovals \ {a}
          /\ \A b \in Calls \ {a} : verdict'[b] = verdict[b] /\ accepted'[b] = accepted[b]
        BY <2>1, DecisionKeeps DEF ExecInv
    <2>3. UNCHANGED <<registry, tool, atNode>>
        BY <1>3 DEF ApprovalMoves
    <2>4. verdict[a] = "open"
        BY <2>2 DEF ExecInv, ApprovalsInv
    <2>5. ToolTypeOK' /\ NothingEarly' /\ SentIsSettled' /\ OnlySentRun'
        BY <1>1, <2>2, <2>3
        DEF ToolInv, NothingEarly, SentIsSettled, OnlySentRun, Sent, registry, invokes, tool
    <2>6. FlagIsEarned'
        BY <1>1, <2>2, <2>3, <2>4 DEF ToolInv, FlagIsEarned, ApprovedBy, tool
    <2>7. RunsAreAllowed'
        BY <1>1, <2>2, <2>3 DEF ToolInv, RunsAreAllowed, OnlySentRun, SentIsSettled, tool
    <2>. QED
        BY <2>5, <2>6, <2>7 DEF ToolInv
<1>4. ASSUME NEW k \in Calls, Ask(k) PROVE ToolInv'
    BY <1>1, <1>4
    DEF Ask, Goes, RequestApproval, Stages, ToolInv, NothingEarly, SentIsSettled,
        FlagIsEarned, ApprovedBy, OnlySentRun, RunsAreAllowed, Sent, registry, invokes
<1>5. ASSUME NEW k \in Calls, RunUnasked(k) PROVE ToolInv'
    BY <1>1, <1>5
    DEF RunUnasked, Goes, Stages, ToolInv, NothingEarly, SentIsSettled, FlagIsEarned,
        ApprovedBy, OnlySentRun, RunsAreAllowed, Sent, registry, invokes, approvals
<1>6. ASSUME NEW k \in Calls, AskFails(k) PROVE ToolInv'
    BY <1>1, <1>6
    DEF AskFails, Goes, Tell, Stages, ToolInv, NothingEarly, SentIsSettled, FlagIsEarned,
        ApprovedBy, OnlySentRun, RunsAreAllowed, Sent, registry, invokes, approvals
<1>7. ASSUME NEW k \in Calls, InvokeFails(k) PROVE ToolInv'
    BY <1>1, <1>7
    DEF InvokeFails, Goes, Tell, Heard, Stages, ToolInv, NothingEarly, SentIsSettled,
        FlagIsEarned, ApprovedBy, OnlySentRun, RunsAreAllowed, Sent, registry, invokes,
        approvals
<1>8. ASSUME NEW k \in Calls, HearVerdict(k) PROVE ToolInv'
    <2>1. verdict[k] # "open" /\ k \notin pendingApprovals
        BY <1>8 DEF HearVerdict, ExecInv, ApprovalsInv
    <2>2. UNCHANGED <<registry, approvals, askFallback, listed, node, atNode>>
        BY <1>8 DEF HearVerdict
    <2>3. CASE RefusedBy(k)
        <3>1. /\ stage' = [stage EXCEPT ![k] = "over"] /\ UNCHANGED approved
              /\ told' = [told EXCEPT ![k] = @ \cup {"denied"}]
            BY <1>8, <2>3 DEF HearVerdict, Goes, Tell
        <3>2. ToolTypeOK'
            BY <1>1, <2>2, <3>1 DEF ToolInv, Stages
        <3>3. \A j \in Calls : "finished" \in told'[j] <=> "finished" \in told[j]
            BY <1>1, <3>1 DEF ToolInv
        <3>4. NothingEarly' /\ SentIsSettled' /\ FlagIsEarned'
            BY <1>1, <2>2, <3>1
            DEF ToolInv, NothingEarly, SentIsSettled, FlagIsEarned, ApprovedBy, Sent,
                registry, invokes, approvals
        <3>5. OnlySentRun' /\ RunsAreAllowed'
            BY <1>1, <2>2, <3>1, <3>3
            DEF ToolInv, OnlySentRun, RunsAreAllowed, Sent, registry, invokes, approvals
        <3>. QED
            BY <3>2, <3>4, <3>5 DEF ToolInv
    <2>4. CASE ~RefusedBy(k)
        <3>1. /\ stage' = [stage EXCEPT ![k] = "sending"] /\ stage[k] = "asking"
              /\ approved' = [approved EXCEPT ![k] = ApprovedBy(k)]
              /\ UNCHANGED told /\ verdict[k] # "deny"
            BY <1>8, <2>4 DEF HearVerdict, Goes, RefusedBy
        <3>2. ToolTypeOK' /\ FlagIsEarned'
            BY <1>1, <2>2, <3>1
            DEF ToolInv, Stages, FlagIsEarned, ApprovedBy, approvals
        <3>3. NothingEarly' /\ SentIsSettled' /\ OnlySentRun' /\ RunsAreAllowed'
            BY <1>1, <2>1, <2>2, <3>1
            DEF ToolInv, NothingEarly, SentIsSettled, OnlySentRun, RunsAreAllowed, Sent,
                registry, invokes, approvals
        <3>. QED
            BY <3>2, <3>3 DEF ToolInv
    <2>. QED
        BY <2>3, <2>4
<1>9. ASSUME NEW k \in Calls, Send(k) PROVE ToolInv'
    <2>1. /\ stage' = [stage EXCEPT ![k] = "invoking"] /\ stage[k] = "sending"
          /\ UNCHANGED <<approvals, askFallback, listed, approved, node, atNode, told>>
        BY <1>9 DEF Send, Goes
    <2>2. /\ \A j \in Calls \ {k} :
                /\ sentTo'[j] = sentTo[j] /\ answer'[j] = answer[j]
                /\ j \in pendingInvokes' <=> j \in pendingInvokes
          /\ Sent(k) => Sent(k)'
        BY <1>1, <1>9, <2>1
        DEF Send, InvokeSent, InvokeUnreachable, Sent, ToolInv, NothingEarly
    <2>3. ToolTypeOK' /\ NothingEarly' /\ SentIsSettled' /\ FlagIsEarned'
        BY <1>1, <2>1, <2>2
        DEF ToolInv, Stages, NothingEarly, SentIsSettled, FlagIsEarned, ApprovedBy, Sent,
            approvals
    <2>4. OnlySentRun' /\ RunsAreAllowed'
        BY <1>1, <2>1, <2>2 DEF ToolInv, OnlySentRun, RunsAreAllowed, Sent, approvals
    <2>. QED
        BY <2>3, <2>4 DEF ToolInv
<1>10. ASSUME NEW k \in Calls, HearAnswer(k) PROVE ToolInv'
    <2>1. /\ stage' = [stage EXCEPT ![k] = "over"]
          /\ UNCHANGED <<registry, approvals, askFallback, listed, approved, node, atNode>>
          /\ \/ UNCHANGED told
             \/ told' = [told EXCEPT ![k] = @ \cup {"returned"}]
             \/ told' = [told EXCEPT ![k] = @ \cup {"denied"}]
        BY <1>10 DEF HearAnswer, Goes, Tell, Heard
    <2>2. ToolTypeOK'
        <3>1. told' \in [Calls -> SUBSET {"denied", "finished", "returned"}]
            BY <1>1, <2>1 DEF ToolInv
        <3>. QED
            BY <1>1, <2>1, <3>1 DEF ToolInv, Stages
    <2>3. \A j \in Calls : "finished" \in told'[j] <=> "finished" \in told[j]
        BY <1>1, <2>1 DEF ToolInv
    <2>4. NothingEarly' /\ SentIsSettled' /\ FlagIsEarned'
        BY <1>1, <2>1
        DEF ToolInv, NothingEarly, SentIsSettled, FlagIsEarned, ApprovedBy, Sent,
            registry, invokes, approvals
    <2>5. OnlySentRun' /\ RunsAreAllowed'
        BY <1>1, <2>1, <2>3
        DEF ToolInv, OnlySentRun, RunsAreAllowed, Sent, registry, invokes, approvals
    <2>. QED
        BY <2>2, <2>4, <2>5 DEF ToolInv
<1>11. ASSUME NEW k \in Calls, NEW next \in {"running", "refusing"}, NodeReceives(k, next)
       PROVE  ToolInv'
    <2>1. /\ Sent(k) /\ (next = "running" => MayRun(k))
          /\ atNode' = [atNode EXCEPT ![k] = next]
          /\ UNCHANGED <<registry, approvals, tool>>
        BY <1>11 DEF NodeReceives, Sent
    <2>2. ToolTypeOK' /\ NothingEarly' /\ SentIsSettled' /\ FlagIsEarned' /\ OnlySentRun'
        BY <1>1, <2>1
        DEF ToolInv, NothingEarly, SentIsSettled, FlagIsEarned, ApprovedBy, OnlySentRun,
            Sent, registry, invokes, approvals, tool
    <2>3. ASSUME next = "running"
          PROVE  /\ "deny" \notin accepted[k]
                 /\ \/ "allow" \in accepted[k]
                    \/ verdict[k] = "expired" /\ askFallback[k] = "full"
                    \/ verdict[k] # "deny" /\ k \in listed
        BY <1>1, <2>1, <2>3
        DEF ToolInv, MayRun, FlagIsEarned, ApprovedBy, SentIsSettled, ExecInv,
            ApprovalsInv, Decisions
    <2>4. RunsAreAllowed'
        BY <1>1, <2>1, <2>3 DEF ToolInv, RunsAreAllowed, approvals, tool
    <2>. QED
        BY <2>2, <2>4 DEF ToolInv
<1>12. ASSUME NEW k \in Calls, NodeReports(k) PROVE ToolInv'
    <2>1. /\ atNode[k] # "none"
          /\ UNCHANGED <<registry, approvals, stage, askFallback, listed, approved, node>>
          /\ \E next \in {"ran", "refused", "reporting"} :
                atNode' = [atNode EXCEPT ![k] = next]
          /\ \/ UNCHANGED told
             \/ told' = [told EXCEPT ![k] = @ \cup {Outcome(k)}]
        BY <1>12 DEF NodeReports, Settled, Tell
    <2>2. Outcome(k) = "denied" \/ (Outcome(k) = "finished" /\ atNode[k] = "running")
        BY DEF Outcome
    <2>3. ToolTypeOK'
        BY <1>1, <2>1, <2>2 DEF ToolInv
    <2>4. NothingEarly' /\ SentIsSettled' /\ FlagIsEarned'
        BY <1>1, <2>1
        DEF ToolInv, NothingEarly, SentIsSettled, FlagIsEarned, ApprovedBy, Sent,
            registry, invokes, approvals
    <2>5. \A j \in Calls : "finished" \in told'[j] =>
              "finished" \in told[j] \/ atNode[j] = "running"
        BY <1>1, <2>1, <2>2 DEF ToolInv
    <2>6. \A j \in Calls : atNode'[j] = "running" => atNode[j] = "running"
        BY <1>1, <2>1 DEF ToolInv
    <2>7. OnlySentRun'
        BY <1>1, <2>1, <2>5 DEF ToolInv, OnlySentRun, Sent, registry, invokes
    <2>8. RunsAreAllowed'
        BY <1>1, <2>1, <2>5, <2>6 DEF ToolInv, RunsAreAllowed, approvals
    <2>. QED
        BY <2>3, <2>4, <2>7, <2>8 DEF ToolInv
<1>13. ASSUME NEW k \in Calls, NodeAnswers(k) PROVE ToolInv'
    <2>1. /\ atNode[k] = "reporting" /\ UNCHANGED <<sentTo, approvals, tool>>
          /\ \/ atNode' = [atNode EXCEPT ![k] = "ran"]
             \/ atNode' = [atNode EXCEPT ![k] = "refused"]
          /\ pendingInvokes' \subseteq pendingInvokes
          /\ \A j \in Calls : j \notin pendingInvokes => answer'[j] = answer[j]
        BY <1>1, <1>13 DEF NodeAnswers, HandleInvokeResult, registry, invokes
    <2>2. ToolTypeOK' /\ NothingEarly' /\ SentIsSettled' /\ FlagIsEarned'
        BY <1>1, <2>1
        DEF ToolInv, NothingEarly, SentIsSettled, FlagIsEarned, ApprovedBy, Sent, approvals,
            tool
    <2>3. OnlySentRun' /\ RunsAreAllowed'
        BY <1>1, <2>1 DEF ToolInv, OnlySentRun, RunsAreAllowed, Sent, approvals, tool
    <2>. QED
        BY <2>2, <2>3 DEF ToolInv
<1>14. CASE UNCHANGED vars
    BY <1>1, <1>14
    DEF vars, ToolInv, NothingEarly, SentIsSettled, FlagIsEarned, ApprovedBy, OnlySentRun,
        RunsAreAllowed, Sent, registry, invokes, approvals
<1>. QED
    BY <1>2, <1>3, <1>4, <1>5, <1>6, <1>7, <1>8, <1>9, <1>10, <1>11, <1>12, <1>13, <1>14
    DEF Next, ToolStep, NodeStep

-----------------------------------------------------------------------------
(* The theorems.                                                           *)

\* The invariant holds throughout.
LEMMA ExecInvariant == Spec => []ExecInv
<1>1. ASSUME Init PROVE ExecInv
    <2>1. RegistryTypeOK
        BY <1>1, RegistryAssumption DEF Init, RegistryInit, RegistryTypeOK, Answers
    <2>2. RegistryInv
        BY <1>1, <2>1, RegistryAssumption
        DEF Init, RegistryInit, RegistryInv, MapsAgree, ConnectedIsReachable, LinkOf,
            WaitsForOpenConnection, SocketsHaveNodes, Up, Conns
    <2>3. ApprovalsInv
        BY <1>1 DEF Init, ApprovalsInit, ApprovalsInv, ApprovalsTypeOK, Decisions
    <2>4. TypeOK
        BY <1>1, <2>1, <2>3 DEF Init, TypeOK, ApprovalsInv, Stages
    <2>5. NothingEarly /\ SentIsSettled /\ FlagIsEarned /\ OnlySentRun /\ RunsAreAllowed
        BY <1>1, ExecAssumption
        DEF Init, RegistryInit, ApprovalsInit, NothingEarly, SentIsSettled, FlagIsEarned,
            OnlySentRun, RunsAreAllowed, Sent
    <2>. QED
        BY <2>2, <2>3, <2>4, <2>5 DEF ExecInv
<1>2. ASSUME ExecInv, [Next]_vars PROVE ExecInv'
    BY <1>2, RegistryKept, ApprovalsKept, ToolKept
    DEF ExecInv, TypeOK, ToolInv, ToolTypeOK, RegistryInv, ApprovalsInv
<1>. QED
    BY <1>1, <1>2, PTL DEF Spec

\* The variables of the registry, the approvals, the tool and the nodes keep
\* their types.
THEOREM ExecTypeCorrect == Spec => []TypeOK
<1>1. ExecInv => TypeOK
    BY DEF ExecInv
<1>. QED
    BY <1>1, ExecInvariant, PTL

\* A node runs a command only if an operator, the fallback for an approval that
\* expired, or its own allowlist lets it and no operator denied it; and of the
\* decisions about an approval one at most is accepted, the one the tool hears.
THEOREM CommandsAreAllowed == Spec => []CommandsAreDecided
<1>1. ExecInv => CommandsAreDecided
    <2>1. ExecInv => AcceptedDecisionStands
        BY DEF ExecInv, ApprovalsInv, ApprovalsTypeOK, AcceptedDecisionStands, Decisions
    <2>. QED
        BY <2>1 DEF ExecInv, CommandsAreDecided
<1>. QED
    BY <1>1, ExecInvariant, PTL

\* The maps of the registry agree, and a connected node can be reached unless
\* the late close of its older socket took its entry.
THEOREM RegistryStaysSound == Spec => []RegistryIsSound
<1>1. ExecInv => RegistryIsSound
    BY DEF ExecInv, RegistryInv, RegistryIsSound
<1>. QED
    BY <1>1, ExecInvariant, PTL

\* No invoke waits for a connection that was closed.
THEOREM InvokesWaitForNodes == Spec => []WaitsForOpenConnection
<1>1. ExecInv => WaitsForOpenConnection
    BY DEF ExecInv, RegistryInv
<1>. QED
    BY <1>1, ExecInvariant, PTL
=============================================================================
