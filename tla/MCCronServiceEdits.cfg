SPECIFICATION Spec
CONSTANTS
    s1 = s1
    s2 = s2
    every = every
    once = once
    Services = {s1, s2}
    Primary = s1
    Jobs = {every}
    Kind <- OneKind
    At <- OneTime
    Stored = {every}
    MaxConcurrent = 1
    Backoff = 2
    MaxRetries = 1
    StuckAfter = 1
    MaxNow = 1
    MaxFaults = 0
    Requests = {"read", "add", "update", "remove", "run"}
    None = None
    NoJob = NoJob
PROPERTY EditsSurvive
CHECK_DEADLOCK FALSE
