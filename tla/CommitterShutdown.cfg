SPECIFICATION FairSpec
CONSTANTS
    Logs = {l1}
    Handlers = {h1}
    Workers = {k1}
    Main = main
    Capacity = 1
    MaxRequests = 1
PROPERTIES
    FreedWhenUnreferenced
CHECK_DEADLOCK FALSE
