---------------------------- MODULE MCCronService ----------------------------
\* A recurring job that is stored, and a one-shot job that a client adds; or
\* one job alone, a recurring one or a one-shot job that is kept when it is done.
EXTENDS CronService, TLC

CONSTANTS every, once, s1, s2

TwoKinds == (every :> "every") @@ (once :> "once")
TwoTimes == (every :> 0) @@ (once :> 0)
OneKind == every :> "every"
OneTime == every :> 0
OneShotKind == once :> "at"
OneShotTime == once :> 0
==============================================================================
