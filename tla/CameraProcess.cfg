SPECIFICATION Spec
CONSTANTS
    Handlers = {h1, h2, h3}
    NoCmd = NoCmd
    MaxCmds = 5
INVARIANTS
    TypeOK
    CameraRunsWhenQuiet
    PanicNeedsOverlap
PROPERTY StartsAlone
CHECK_DEADLOCK FALSE
