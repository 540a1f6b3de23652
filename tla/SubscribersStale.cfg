SPECIFICATION Spec
CONSTANTS
    Subs = {s1, s2}
    Retaining = {}
    Threads = {b1}
    Manager = manager
    MaxVersions = 5
INVARIANTS
    NoCallAfterUnsubscribe
CHECK_DEADLOCK FALSE
