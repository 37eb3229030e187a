SPECIFICATION Spec
CONSTANTS
    Labels = {home, work}
    Intervals = {1, 3}
    NotRecurring = NotRecurring
    Unarmed = Unarmed
    NoPledge = NoPledge
    PollPeriod = 2
    MaxAlert = 1
    MaxTime = 9
    MaxEpisodes = 2
    MaxRestarts = 1
CHECK_DEADLOCK FALSE
INVARIANTS
    MissedIsAlarmed
    AlarmedOnceInOrder
    NoFalseAlarm
PROPERTIES
    KeepsPromise
