SPECIFICATION FairSpec
CONSTANTS
    s1 = s1
    s2 = s2
    every = every
    once = once
    Services = {s1, s2}
    Primary = s1
    Jobs = {once}
    Kind <- OneShotKind
    At <- OneShotTime
    Stored = {once}
    MaxConcurrent = 1
    Backoff = 1
    MaxRetries = 1
    StuckAfter = 0
    MaxNow = 1
    MaxFaults = 1
    Requests = {"read", "remove"}
    None = None
    NoJob = NoJob
INVARIANTS  SchedulerGoesOn
 
CHECK_DEADLOCK FALSE
