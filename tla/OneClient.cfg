SPECIFICATION Spec
CONSTANTS
    Handlers = {h1, h2}
    NoCmd = NoCmd
    MaxCmds = 4
INVARIANT OneClient
CHECK_DEADLOCK FALSE
