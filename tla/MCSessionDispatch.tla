------------------------- MODULE MCSessionDispatch -------------------------
\* A run that has no queue, and messages of three modes; a followup message is
\* dispatched like the steer-backlog one.
EXTENDS SessionDispatch
CONSTANTS foreign, steer, backlog, interrupt
MCInputs == {foreign, steer, backlog, interrupt}
MCMode == [m \in MCInputs |->
    CASE m = foreign -> "foreign" [] m = steer -> "steer"
      [] m = backlog -> "steer-backlog" [] m = interrupt -> "interrupt"]
============================================================================
