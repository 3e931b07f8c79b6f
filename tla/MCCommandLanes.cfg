CONSTANTS
    Lanes = {main, cron}
    Tasks = {t1, t2, t3, t4}
    MaxConcurrency = 2
SPECIFICATION FairSpec
INVARIANTS
    SlotsExact
    OnePlace
    NoIdleBacklog
PROPERTIES
    LaneDiscipline
    EveryCallAnswered
