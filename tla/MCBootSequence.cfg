SPECIFICATION BootSpec
CONSTANTS
    Boards <- MCBoards
    NoCamera = NoCamera
    Files = {main}
    MaxReleases = 2
    MaxCuts = 2
INVARIANTS
    InSyncUnlessCutShort
    BoundedReboots
    GivesUpOnlyWithoutCamera
PROPERTIES
    NeverOlder
    RobotComesUp
