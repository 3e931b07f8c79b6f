---------------------------- MODULE NodeRegistry ----------------------------
(***************************************************************************)
(* The gateway's side of its nodes (phones, laptops, node hosts): which    *)
(* web socket a node is reached by, the invokes that wait for a node's     *)
(* answer, and who subscribed to what (node-registry.ts, the close handler *)
(* of ws-connection.ts, server-node-subscriptions.ts).                     *)
(*                                                                         *)
(* The operations alone: RemoteExec composes them with their callers.      *)
(***************************************************************************)
EXTENDS Naturals, FiniteSets

CONSTANTS
    Nodes,         \* device ids
    MaxConns,      \* bound on the web sockets opened
    Invokes,       \* calls of NodeRegistry.invoke, each made once
    Sessions,      \* session keys a node may subscribe to
    NoConn, NoNode

ASSUME RegistryAssumption == MaxConns \in Nat /\ NoConn \notin Nat /\ NoNode \notin Nodes

\* Connection ids, in the order of their use.
Conns == 1..MaxConns

VARIABLES
    socket,             \* broken: dead for the node, not yet for the gateway
    nodesById,          \* node -> the connection it registered last
    nodesByConn,        \* connection -> its node, until it is unregistered
    pendingInvokes,
    sentTo,             \* of each invoke: the node, and the connection it took
    answer,             \* of each invoke: what its promise settled with
    nodeSubscriptions,  \* node -> session keys
    sessionSubscribers, \* session key -> nodes
    events,             \* subscriptions that wait for the import of nodes.ts
    bereft              \* history: connections whose entry an older one took along

maps == <<socket, nodesById, nodesByConn, bereft>>
invokes == <<pendingInvokes, sentTo, answer>>
subscriptions == <<nodeSubscriptions, sessionSubscribers, events>>
registry == <<maps, invokes, subscriptions>>

Answers == {"none", "ok", "failed", "unreachable", "timeout", "disconnected"}

RegistryTypeOK ==
    /\ socket \in [Conns -> {"new", "open", "broken", "closed"}]
    /\ nodesById \in [Nodes -> Conns \cup {NoConn}]
    /\ nodesByConn \in [Conns -> Nodes \cup {NoNode}]
    /\ pendingInvokes \subseteq Invokes
    /\ sentTo \in [Invokes -> [node : Nodes \cup {NoNode}, conn : Conns \cup {NoConn}]]
    /\ answer \in [Invokes -> Answers]
    /\ nodeSubscriptions \in [Nodes -> SUBSET Sessions]
    /\ sessionSubscribers \in [Sessions -> SUBSET Nodes]
    /\ events \subseteq Nodes \X Sessions
    /\ bereft \subseteq Conns

RegistryInit ==
    /\ socket = [c \in Conns |-> "new"]
    /\ nodesById = [n \in Nodes |-> NoConn]
    /\ nodesByConn = [c \in Conns |-> NoNode]
    /\ pendingInvokes = {}
    /\ sentTo = [i \in Invokes |-> [node |-> NoNode, conn |-> NoConn]]
    /\ answer = [i \in Invokes |-> "none"]
    /\ nodeSubscriptions = [n \in Nodes |-> {}]
    /\ sessionSubscribers = [s \in Sessions |-> {}]
    /\ events = {} /\ bereft = {}

\* The gateway has not closed it yet.
Up(c) == socket[c] \in {"open", "broken"}
\* The connection a node is on, as the node sees it.
LinkOf(n) == {c \in Conns : socket[c] = "open" /\ nodesByConn[c] = n}

-----------------------------------------------------------------------------
(* Connections.                                                            *)

\* register, at the end of the handshake.  A node dials again as soon as its
\* own socket is gone, which the gateway may not have noticed.
Register_KeepsFirst(c, n) ==
    /\ socket[c] = "new" /\ \A d \in 1..(c - 1) : socket[d] # "new"
    /\ LinkOf(n) = {}
    /\ socket' = [socket EXCEPT ![c] = "open"]
    /\ nodesById' = [nodesById EXCEPT ![n] = IF @ = NoConn THEN c ELSE @]
    /\ nodesByConn' = [nodesByConn EXCEPT ![c] = n]
    /\ UNCHANGED <<bereft, invokes, subscriptions>>
Register(c, n) ==
    /\ socket[c] = "new" /\ \A d \in 1..(c - 1) : socket[d] # "new"
    /\ LinkOf(n) = {}
    /\ socket' = [socket EXCEPT ![c] = "open"]
    /\ nodesById' = [nodesById EXCEPT ![n] = c]
    /\ nodesByConn' = [nodesByConn EXCEPT ![c] = n]
    /\ UNCHANGED <<bereft, invokes, subscriptions>>

Breaks(c) ==
    /\ socket[c] = "open"
    /\ socket' = [socket EXCEPT ![c] = "broken"]
    /\ UNCHANGED <<nodesById, nodesByConn, bereft, invokes, subscriptions>>

\* unregister: the entry of the node goes, whichever connection it names, and
\* every invoke of the node is rejected.
Unregister_OnlyCurrent(c, n) ==
    /\ nodesByConn' = [nodesByConn EXCEPT ![c] = NoNode]
    /\ nodesById' = [nodesById EXCEPT ![n] = IF @ = c THEN NoConn ELSE @]
    /\ LET rejected == {i \in pendingInvokes : nodesById[n] = c /\ sentTo[i].node = n}
       IN  /\ pendingInvokes' = pendingInvokes \ rejected
           /\ answer' = [i \in Invokes |-> IF i \in rejected THEN "disconnected" ELSE answer[i]]
    /\ UNCHANGED sentTo
Unregister(c, n) ==
    /\ nodesByConn' = [nodesByConn EXCEPT ![c] = NoNode]
    /\ nodesById' = [nodesById EXCEPT ![n] = NoConn]
    /\ LET rejected == {i \in pendingInvokes : sentTo[i].node = n}
       IN  /\ pendingInvokes' = pendingInvokes \ rejected
           /\ answer' = [i \in Invokes |-> IF i \in rejected THEN "disconnected" ELSE answer[i]]
    /\ UNCHANGED sentTo

UnsubscribeAll(n) ==
    /\ nodeSubscriptions' = [nodeSubscriptions EXCEPT ![n] = {}]
    /\ sessionSubscribers' = [s \in Sessions |->
          IF s \in nodeSubscriptions[n] THEN sessionSubscribers[s] \ {n}
          ELSE sessionSubscribers[s]]
    /\ UNCHANGED events

\* The close handler of the socket.
Closes(c) ==
    /\ Up(c)
    /\ socket' = [socket EXCEPT ![c] = "closed"]
    /\ Unregister(c, nodesByConn[c])
    /\ UnsubscribeAll(nodesByConn[c])
    /\ bereft' = bereft \cup ({nodesById[nodesByConn[c]]} \ {c, NoConn})

-----------------------------------------------------------------------------
(* Invokes.                                                                *)

\* Answered at once: no entry, or the send throws.
InvokeUnreachable(i, n) ==
    /\ answer' = [answer EXCEPT ![i] = "unreachable"]
    /\ UNCHANGED <<maps, pendingInvokes, sentTo, subscriptions>>

\* Sent, also when the socket is broken and nobody noticed.
InvokeSent(i, n) ==
    /\ nodesById[n] # NoConn
    /\ pendingInvokes' = pendingInvokes \cup {i}
    /\ sentTo' = [sentTo EXCEPT ![i] = [node |-> n, conn |-> nodesById[n]]]
    /\ UNCHANGED <<maps, answer, subscriptions>>

InvokeTimesOut_KeepsWaiting(i) ==
    /\ i \in pendingInvokes
    /\ pendingInvokes' = pendingInvokes \ {i}
    /\ UNCHANGED <<maps, sentTo, answer, subscriptions>>
InvokeTimesOut(i) ==
    /\ i \in pendingInvokes
    /\ pendingInvokes' = pendingInvokes \ {i}
    /\ answer' = [answer EXCEPT ![i] = "timeout"]
    /\ UNCHANGED <<maps, sentTo, subscriptions>>

\* handleInvokeResult for a result that came from node n: a late or foreign one
\* is ignored.
HandleInvokeResult(i, n, result) ==
    /\ IF i \in pendingInvokes /\ sentTo[i].node = n
       THEN /\ pendingInvokes' = pendingInvokes \ {i}
            /\ answer' = [answer EXCEPT ![i] = result]
       ELSE UNCHANGED <<pendingInvokes, answer>>
    /\ UNCHANGED <<maps, sentTo, subscriptions>>

-----------------------------------------------------------------------------
(* Subscriptions.                                                          *)

\* node.event with chat.subscribe: the handler imports its module first, and
\* the socket may be closed when it goes on.
SubscribeReceived(n, s) ==
    /\ LinkOf(n) # {}
    /\ events' = events \cup {<<n, s>>}
    /\ UNCHANGED <<maps, invokes, nodeSubscriptions, sessionSubscribers>>

Subscribe(n, s) ==
    /\ <<n, s>> \in events
    /\ events' = events \ {<<n, s>>}
    /\ nodeSubscriptions' = [nodeSubscriptions EXCEPT ![n] = @ \cup {s}]
    /\ sessionSubscribers' = [sessionSubscribers EXCEPT ![s] = @ \cup {n}]
    /\ UNCHANGED <<maps, invokes>>

Unsubscribe(n, s) ==
    /\ LinkOf(n) # {} /\ s \in nodeSubscriptions[n]
    /\ nodeSubscriptions' = [nodeSubscriptions EXCEPT ![n] = @ \ {s}]
    /\ sessionSubscribers' = [sessionSubscribers EXCEPT ![s] = @ \ {n}]
    /\ UNCHANGED <<maps, invokes, events>>

RegistryStep ==
    \/ \E c \in Conns : Breaks(c) \/ Closes(c) \/ \E n \in Nodes : Register(c, n)
    \/ \E n \in Nodes, s \in Sessions :
          SubscribeReceived(n, s) \/ Subscribe(n, s) \/ Unsubscribe(n, s)

-----------------------------------------------------------------------------

\* The two directions agree: the connection a node is reached by is one the
\* gateway has not closed, and belongs to that node; a session's subscribers
\* are the nodes subscribed to it, also after a late subscription.
MapsAgree ==
    /\ \A c \in Conns, n \in Nodes : nodesById[n] = c => Up(c) /\ nodesByConn[c] = n
    /\ \A n \in Nodes, s \in Sessions :
          s \in nodeSubscriptions[n] <=> n \in sessionSubscribers[s]

\* A connected node can be invoked over the connection it is on, also while
\* its old socket lingers; but the close of the old one, if it comes after the
\* new registration, takes the entry along.
ConnectedIsReachable ==
    \A n \in Nodes : \A c \in LinkOf(n) \ bereft : nodesById[n] = c

\* Nobody waits for a connection that is closed: its invokes are rejected with
\* the close and not by their timers, although another may have replaced it.
WaitsForOpenConnection ==
    \A i \in pendingInvokes :
        Up(sentTo[i].conn) /\ answer[i] = "none"
=============================================================================
