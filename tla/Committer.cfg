SPECIFICATION FairSpec
CONSTANTS
    Logs = {l1, l2}
    Handlers = {h1, h2}
    Workers = {k1, k2}
    Main = main
    Capacity = 1
    MaxRequests = 2
INVARIANTS
    TypeOK
    OneJobPerLog
    NoRequestSwallowed
    RequestHasJob
    
PROPERTIES
    RequestsServed
CHECK_DEADLOCK FALSE
