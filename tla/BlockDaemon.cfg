CONSTANTS
    Durations = {0, 2}
    Extensions = {0, 2}
    MaxCommands = 3
SPECIFICATION FairSpec
INVARIANTS
    TypeOK
    PublishedIsHeld
    StatusShowsEnd
PROPERTIES
    NeverEndsEarly
    LoopEndReleases
    EndsUnlessLate
    KeepsBlock
\* A block ends, and then nothing is left to happen.
CHECK_DEADLOCK FALSE
