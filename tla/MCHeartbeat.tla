----------------------------- MODULE MCHeartbeat -----------------------------
(* Model values for Heartbeat. *)
EXTENDS Heartbeat

==============================================================================
