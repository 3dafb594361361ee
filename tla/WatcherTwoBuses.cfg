SPECIFICATION Spec
CONSTANTS
    Grace = 0
    ResumeGrace = 1
    SessionBus = TRUE
    Every = TRUE
    BusCap <- MCBusCap
    OsSigCap = 1
    StartLimit = 1
INVARIANT
    NoLostTrigger
