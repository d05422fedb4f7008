SPECIFICATION Spec
CONSTANTS
    Handlers = {h1, h2}
    NoHandler = NoHandler
    MaxWidth = 1
    MaxRequests = 2
    MaxTries = 2
INVARIANT ExtraKeysPreserved
CHECK_DEADLOCK FALSE
