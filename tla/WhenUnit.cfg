CONSTANTS
    StartLimit = 2
    MaxRuns = 4
SPECIFICATION Spec
INVARIANTS
    TypeOK
    KeepsItsID
    FailedStartLeavesNothing
    ReportIsTrue
    BlockingIsReal
    StoppedStaysStopped
PROPERTY
    ActsAsProcess
\* A block that is stopped or failed is not started again by itself.
CHECK_DEADLOCK FALSE
