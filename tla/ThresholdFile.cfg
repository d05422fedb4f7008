SPECIFICATION FairSpec
CONSTANTS
    Handlers = {h1, h2}
    NoHandler = NoHandler
    MaxWidth = 1
    MaxRequests = 2
    MaxTries = 2
INVARIANTS
    SettledAgrees
    EmptyOnlyWhileWritten
PROPERTY RequestsEnd
CHECK_DEADLOCK FALSE
