CONSTANTS
    Durations = {0, 2}
    Extensions = {0, 2}
    MaxCommands = 2
SPECIFICATION FairSpec
PROPERTY BlockExpires
\* A block ends, and then nothing is left to happen.
CHECK_DEADLOCK FALSE
