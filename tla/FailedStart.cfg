CONSTANTS
    Durations = {0, 2}
    Extensions = {0, 2}
    MaxCommands = 0
SPECIFICATION Spec
INVARIANT FailedStartHoldsNothing
\* A block ends, and then nothing is left to happen.
CHECK_DEADLOCK FALSE
