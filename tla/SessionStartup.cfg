SPECIFICATION Spec
CONSTANTS
    PCs = {p1, p2}
    NoPC = NoPC
    RobotIds = {3, 4}
    MyID = 3
    RobotTimeout = 4
    DiscoverInterval = 2
    OkInterval = 1
PROPERTY DropOnlyWhenSilent
