CONSTANT MaxSignals = 3
SPECIFICATION FairSpec
INVARIANTS
    TypeOK
    HeldWhileCommandRuns
    CleanExitLeavesNothing
PROPERTIES
    EventEnds
    KeepsBlock
    SignalReachesCommand
\* A block ends, and then nothing is left to happen.
CHECK_DEADLOCK FALSE
