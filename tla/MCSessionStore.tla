--------------------------- MODULE MCSessionStore ---------------------------
\* The gateway with a reader and calls of each kind, and a call of another process.
EXTENDS SessionStore
CONSTANTS gateway, cli, reader, heartbeat, route, meta, other
MCHome == [c \in Calls |-> IF c = other THEN cli ELSE gateway]
MCKind == [c \in Calls |->
    CASE c = reader -> "load" [] c = heartbeat -> "save"
      [] c = route -> "patch" [] OTHER -> "update"]
=============================================================================
