SPECIFICATION Spec
CONSTANTS
    Logs = {l1, l2}
    Handlers = {h1, h2}
    MaxOps = 1
    MaxCrashes = 0
PROPERTIES
    EventuallyApplied
CHECK_DEADLOCK FALSE
