SPECIFICATION Spec
CONSTANTS
    Grace = 1
    ResumeGrace = 2
    SessionBus = FALSE
    Every = FALSE
    BusCap <- MCBusCap
    OsSigCap = 2
    StartLimit = 2
INVARIANTS
    TypeOK
    NoLostTrigger
    SettledIsRight
    StatusIsTruthful
    FirstCheckIsHonest
    LockIsAccountedFor
PROPERTIES
    DrivesController
    ActsAsProcess
