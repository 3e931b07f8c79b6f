CONSTANTS
    foreign = foreign
    steer = steer
    backlog = backlog
    interrupt = interrupt
    NoRun = NoRun
    Inputs <- MCInputs
    Mode <- MCMode
SPECIFICATION DispatchFairSpec
INVARIANTS
    QueueIsServed
PROPERTY QueuedIsTaken
CHECK_DEADLOCK FALSE
