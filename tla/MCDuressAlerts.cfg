SPECIFICATION AlertsSpec
CONSTANTS
    Panics = {p1}
    Misses = {m1, m2}
    Contacts = {c1}
    Peers = {n1}
    Nowhere = Nowhere
    NoEvent = NoEvent
CHECK_DEADLOCK FALSE
INVARIANTS
    AnnouncedAfterContacts
    
PROPERTIES
    
    MeshIsTold
