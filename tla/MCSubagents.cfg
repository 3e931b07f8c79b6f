CONSTANTS
    here = here
    there = there
    Runs = {here, there}
    Deletes = {here}
    Remote = {there}
    MaxEnds = 2
    MaxCrashes = 1
SPECIFICATION Spec
INVARIANTS
    
    FinishedIsAnnounced
    
CHECK_DEADLOCK FALSE
