SPECIFICATION FairSpec
CONSTANTS
    h1 = h1
    h2 = h2
    Handlers <- MCHandlers
    Scenarios <- MCScenarios
    BatchSize = 1
    MaxOps = 2
INVARIANTS
    TypeOK
    SyncedIsScheduled
    
PROPERTIES
    ScheduledOnce
    
CHECK_DEADLOCK FALSE
