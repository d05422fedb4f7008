SPECIFICATION Spec
CONSTANTS
    DefaultHold = 1
    DefaultCooldown = 3
    DefaultPeriod = 1
    MaxHold = 1
    MaxCooldown = 3
    MaxPeriod = 1
    MaxDribble = 1
    Discharge = 2
    FinalFrames = 1
INVARIANTS
    TypeOK
    KickEnds
    EndsUnarmed
PROPERTIES
    PulsesApart
    Terminates
CHECK_DEADLOCK FALSE
