SPECIFICATION FairSpec
CONSTANTS
    Publishers = {p1, p2}
    Threads = {b1, b2}
    UniqueTypes = {u}
    DefaultTypes = {d}
    QueueCount = 2
    QueueSize = 1
    PushAttempts = 2
    MaxEvents = 3
INVARIANTS
    TypeOK
    UniqueOnce
    GenExact
    HandledOnce
PROPERTIES
    AcceptedHandled
CHECK_DEADLOCK FALSE
