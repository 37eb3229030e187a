SPECIFICATION Spec
CONSTANTS
    Mac = Mac
    Hp = Hp
    Old = Old
    Nodes = {Mac, Hp, Old}
    PeersOf <- MacGreets
    Period = 5
    RefreshMax = 0
    GreetMax = 1
    Lateness = 2
    MaxMissed = 1
    Unknown = Unknown
    MaxTime = 19
    MaxStarts <- OldIsOff
CHECK_DEADLOCK FALSE
INVARIANTS
    RunningIsListed
    DownAgesOut
