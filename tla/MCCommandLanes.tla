--------------------------- MODULE MCCommandLanes ---------------------------
(* Model values for CommandLanes.  Liveness is checked too: no symmetry. *)
EXTENDS CommandLanes

=============================================================================
