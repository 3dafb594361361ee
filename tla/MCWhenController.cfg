SPECIFICATION CtlSpec
CONSTANTS
    Grace = 3
    ResumeGrace = 5
INVARIANTS
    TimerIsNoLonger
    LockTracksInhibitor
    TimerCoversPromises
PROPERTY
    KeepsPromise
