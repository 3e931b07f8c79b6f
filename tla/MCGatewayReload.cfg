CONSTANTS
    MaxServers = 2
    MaxVersions = 2
    MaxEdits = 3
    Slots = {1, 2, 3}
    NoSlot = 0
SPECIFICATION FairSpec
INVARIANTS
    ConnectionsAreOwned
    
PROPERTY EditsAreTaken
CHECK_DEADLOCK FALSE
