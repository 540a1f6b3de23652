SPECIFICATION FairSpec
CONSTANTS
    h1 = h1
    h2 = h2
    Handlers <- MCHandlers
    Scenarios <- MCConnected
    BatchSize = 1
    MaxOps = 2
PROPERTIES
    EventuallyStored
CHECK_DEADLOCK FALSE
