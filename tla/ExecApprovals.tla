--------------------------- MODULE ExecApprovals ---------------------------
(***************************************************************************)
(* Approvals of commands by an operator (exec-approval-manager.ts and its  *)
(* request handlers).  An approval's id is a random UUID, so it stands for *)
(* the approval; the map entry and the timer come and go together.         *)
(***************************************************************************)
EXTENDS Naturals

CONSTANT Approvals

VARIABLES
    pendingApprovals,
    verdict,           \* what the promise of waitForDecision settled with
    accepted           \* of each approval: the decisions answered with ok

approvals == <<pendingApprovals, verdict, accepted>>

Decisions == {"allow", "deny"}

ApprovalsTypeOK ==
    /\ pendingApprovals \subseteq Approvals
    /\ verdict \in [Approvals -> Decisions \cup {"open", "expired"}]
    /\ accepted \in [Approvals -> SUBSET Decisions]

ApprovalsInit ==
    /\ pendingApprovals = {}
    /\ verdict = [a \in Approvals |-> "open"]
    /\ accepted = [a \in Approvals |-> {}]

\* exec.approval.request: create and waitForDecision in one turn.
RequestApproval(a) ==
    /\ a \notin pendingApprovals
    /\ pendingApprovals' = pendingApprovals \cup {a}
    /\ UNCHANGED <<verdict, accepted>>

ApprovalTimesOut(a) ==
    /\ a \in pendingApprovals
    /\ pendingApprovals' = pendingApprovals \ {a}
    /\ verdict' = [verdict EXCEPT ![a] = "expired"]
    /\ UNCHANGED accepted

\* exec.approval.resolve; without an entry the operator is told so.
Resolve(a, decision) ==
    /\ a \in pendingApprovals
    /\ pendingApprovals' = pendingApprovals \ {a}
    /\ verdict' = [verdict EXCEPT ![a] = IF @ = "open" THEN decision ELSE @]
    /\ accepted' = [accepted EXCEPT ![a] = @ \cup {decision}]

\* The operator is told the truth: a decision that was accepted is the one the
\* command gets, and no second one is accepted, however the timer and several
\* operators race.
AcceptedDecisionStands ==
    \A a \in Approvals : accepted[a] # {} => accepted[a] = {verdict[a]}
============================================================================
