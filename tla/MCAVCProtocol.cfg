SPECIFICATION FairSpec
CONSTANTS
    c1 = c1
    c2 = c2
    n1 = n1
    o1 = o1
    o2 = o2
    None = None
    Owner = {o1, o2}
    Call = {c1, c2}
    Number = {n1}
    NumberOf <- MCNumberOf
    MaxRetries = 1
    Interval = 1
    MaxLag = 1
    MaxAge = 2
INVARIANTS
    TypeOK
    TransmissionsBounded
    TimedOutAfterAllTries
PROPERTIES
    PendingResolved
    HandlerJoined
