SPECIFICATION RobotSpec
CONSTANTS
    PCs = {p1, p2}
    ThePC = p1
    NoPC = NoPC
    RobotIds = {3, 4}
    MyID = 3
    RobotTimeout = 3
    DiscoverInterval = 1
    OkInterval = 0
    MaxStray = 2
    NoRecvTimeout = 1
    LinkPeriod = 1
INVARIANTS
    ConfirmedByItsPC
    StatusOnlyAfterHandshake
    StoppedWithoutSession
PROPERTIES
    DropOnlyWhenSilentOrForgotten
    ImplementsPcLease
    AlwaysReconnects
    DeadPcReleased
