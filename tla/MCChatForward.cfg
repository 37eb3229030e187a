SPECIFICATION Spec
CONSTANTS
    Mac = Mac
    Zbook = Zbook
    Nodes = {Mac, Zbook}
    Hosts = {Mac, Zbook}
    Guarded = {}
    Capacity <- Strength
    Models = {m1}
    Requests = {r1}
    Chunks = 2
    Nobody = Nobody
    MaxFails = 2
CHECK_DEADLOCK FALSE
INVARIANTS
    OneHop
    ServedByIsTrue
    
PROPERTY
    EveryoneIsAnswered
