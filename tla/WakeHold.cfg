SPECIFICATION WakeSpec
CONSTANTS
    Grace = 1
    ResumeGrace = 2
    SessionBus = FALSE
    Every = FALSE
    BusCap <- MCBusCap
    OsSigCap = 1
    StartLimit = 1
PROPERTY
    HeldAfterWake
