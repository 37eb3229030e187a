SPECIFICATION Spec
CONSTANTS
    esp = esp
    phone = phone
    beacon = beacon
    follower = follower
    west = west
    east = east
    town = town
    Sources = {esp, phone}
    Devices = {beacon, follower}
    AccessPoints <- Twin
    Watched = {beacon}
    Positions = {west, east, town}
    Nowhere = Nowhere
    BinOf <- GridOf
    Unknown = 0
    Reach <- HeardAt
    Zones <- Fences
    Fields = {50, 90}
    NoField = NoField
    Postable <- Posts
    Window = 2
    MinField = 2
    MaxDelta = 15
    Follow = 3
    MinSpan = 1
    NoTrack = NoTrack
    MaxReadings = 4
    MaxTime = 2
CHECK_DEADLOCK FALSE
INVARIANTS
    SuspectsAreFollowers
    AnomalyIsAChange
    VerdictIsTold
