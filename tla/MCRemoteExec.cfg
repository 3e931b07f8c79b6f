CONSTANTS
    Calls = {k1}
    Invokes = {k1}
    Approvals = {k1}
    Nodes = {n1}
    MaxConns = 3
    Sessions = {s1}
    NoConn = NoConn
    NoNode = NoNode
SPECIFICATION FairSpec
INVARIANTS
    CommandsAreDecided
    RegistryIsSound
PROPERTY EveryCallIsReported
CHECK_DEADLOCK FALSE
