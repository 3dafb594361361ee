SPECIFICATION FairSpec
CONSTANTS
    Grace = 0
    ResumeGrace = 1
    SessionBus = FALSE
    Every = FALSE
    BusCap <- MCBusCap
    OsSigCap = 2
    StartLimit = 2
PROPERTIES
    EventuallyBlocks
    EventuallyReleases
    StopIsHonoured
