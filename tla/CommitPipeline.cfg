SPECIFICATION Spec
CONSTANTS
    Logs = {l1}
    Handlers = {h1, h2}
    MaxOps = 4
    MaxCrashes = 2
INVARIANTS
    TypeOK
    

    
CHECK_DEADLOCK FALSE
