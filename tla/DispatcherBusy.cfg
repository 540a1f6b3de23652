SPECIFICATION Spec
CONSTANTS
    Senders = {s1, s2, s3}
    CVs = {c1, c2}
    NoCV = NoCV
    MaxRequests = 4
INVARIANT BusyWhenFull
CHECK_DEADLOCK FALSE
