CONSTANTS
    Durations = {0, 2}
    Extensions = {0, 2}
    MaxCommands = 0
SPECIFICATION FairSpec
PROPERTY AnyExitReleases
\* A block ends, and then nothing is left to happen.
CHECK_DEADLOCK FALSE
