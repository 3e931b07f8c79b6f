----------------------------- MODULE MCAgentRuns -----------------------------
(* Model values for AgentRuns.  Liveness is checked too: no symmetry. *)
EXTENDS AgentRuns

==============================================================================
