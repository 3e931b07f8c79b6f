SPECIFICATION Spec
CONSTANTS
    s1 = s1
    s2 = s2
    every = every
    once = once
    Services = {s1}
    Primary = s1
    Jobs = {every, once}
    Kind <- TwoKinds
    At <- TwoTimes
    Stored = {every}
    MaxConcurrent = 1
    Backoff = 1
    MaxRetries = 0
    StuckAfter = 0
    MaxNow = 1
    MaxFaults = 0
    Requests = {"read", "add", "update", "remove", "run"}
    None = None
    NoJob = NoJob
  
PROPERTY TicksSkipNothing
CHECK_DEADLOCK FALSE
