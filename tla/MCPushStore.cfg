SPECIFICATION Spec
CONSTANTS
    Endpoints = {e1, e2}
    Threads = {w1}
    EventLoop = loop
    Nobody = Nobody
    Garbage = Garbage
    Length <- TextLength
    MaxFailures = 1
    MaxRestarts = 1
INVARIANTS
    AckedIsKept
    EveryoneIsOwed
    SavedUnlessRaced
PROPERTIES
    EveryoneIsTried
