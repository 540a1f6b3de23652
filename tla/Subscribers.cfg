SPECIFICATION FairSpec
CONSTANTS
    Subs = {s1, s2}
    Retaining = {s1}
    Threads = {b1, b2}
    Manager = manager
    MaxVersions = 5
INVARIANTS
    TypeOK
    RefsExact
    ReplacedVectorDrained
PROPERTIES
    
    UnsubscribeReturns
CHECK_DEADLOCK FALSE
