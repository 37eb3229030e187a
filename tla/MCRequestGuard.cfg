SPECIFICATION Spec
CONSTANTS
    Clients = {phone}
    Capacity = 3
    Rate = 1
    Threshold = 2
    Lockout = 3
    NoBucket = NoBucket
    NotLocked = NotLocked
    MaxTime = 9
    MaxCount = 9
CHECK_DEADLOCK FALSE
INVARIANTS
    RateIsBounded
    
    LockIsEarned
PROPERTIES
    PacedIsLetIn
