SPECIFICATION Spec
CONSTANTS
    Connections = {phone, desk}
    QueueCap = 2
    NoEvent = NoEvent
    MaxEvents = 5
CHECK_DEADLOCK FALSE
INVARIANTS
    SentInOrder
    NothingLostOtherwise
    
PROPERTIES
    QueuedIsSent
