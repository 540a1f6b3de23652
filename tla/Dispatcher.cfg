SPECIFICATION FairSpec
CONSTANTS
    Senders = {s1, s2, s3}
    CVs = {c1, c2}
    NoCV = NoCV
    MaxRequests = 4
INVARIANTS
    TypeOK
    PoolExact
    OkHasAnswer
PROPERTIES
    NoLateWrite
    SendReturns
CHECK_DEADLOCK FALSE
