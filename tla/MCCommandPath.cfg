SPECIFICATION FairSpec
CONSTANTS
    Powers = {0, 1}
    Commands <- MCCommands
    Modes <- MCModes
    KickHold = 1
    NoRecvTimeout = 2
    ChargeStopTimeout = 3
    LinkPeriod = 1
    MaxArrivals = 1
INVARIANTS
    TypeOK
    FailsafeStops
    ChargeStops
    PulsesEnd
    NoResidualPower
PROPERTIES
    ImplementsFailsafe
    PulseReleased
