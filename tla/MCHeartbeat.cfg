CONSTANTS
    Agents = {a1, a2}
    Events = {exec, cron}
    NoReason = NoReason
SPECIFICATION HeartbeatFairSpec
INVARIANTS
    TimerFollowsWakes
    HeartbeatGoesOn
PROPERTY OneRunAtATime WakeIsServed
