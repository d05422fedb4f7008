SPECIFICATION Spec
CONSTANTS
    DefaultHold = 1
    DefaultCooldown = 1
    DefaultPeriod = 1
    MaxHold = 1
    MaxCooldown = 1
    MaxPeriod = 1
    MaxDribble = 1
    Discharge = 1
    FinalFrames = 1
INVARIANT
    EndsDischarged
CHECK_DEADLOCK FALSE
