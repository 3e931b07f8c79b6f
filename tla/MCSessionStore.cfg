CONSTANTS
    gateway = gateway
    cli = cli
    reader = reader
    heartbeat = heartbeat
    route = route
    meta = meta
    other = other
    Nobody = Nobody
    Calls = {reader, heartbeat, route, other}
    Processes = {gateway, cli}
    Home <- MCHome
    Kind <- MCKind
    Enforces = TRUE
    Ages = TRUE
    MaxCrashes = 1
SPECIFICATION Spec
INVARIANTS
    
    LockIsSound
CHECK_DEADLOCK FALSE
