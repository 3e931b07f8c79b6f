CONSTANTS
    Messages = {m1, m2, m3, m4}
    m1 = m1
    m2 = m2
    m3 = m3
    m4 = m4
    Id <- MixedId
    Route <- MixedRoute
    NumericThreads <- Topics
    Settings <- MixedSettings
    MaxQueues = 2
SPECIFICATION FairSpec
INVARIANTS
    Conservation
    DuplicateHasTwin
    OneDestination
    LoopsKeepTheirQueue
    NoEmptyPrompt
PROPERTY CapHolds HeldIsSettled
CHECK_DEADLOCK FALSE
