CONSTANTS
    Sessions = {s1, s2}
    Runs = {r1, r2}
    Waiters = {w1}
    NoRun = NoRun
    NoSession = NoSession
    MaxLimit = 2
    MaxAttempts = 2
SPECIFICATION FairSpec
INVARIANTS
    SlotsMatchRuns
    RegistryIsLive
PROPERTIES
    AbortIsFinal
    ImplementsBoth
    RunsEnd
