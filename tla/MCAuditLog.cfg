SPECIFICATION LogSpec
CONSTANTS
    Garbage = Garbage
    MaxRecords = 7
    MaxTears = 3
    MaxDamages = 2
INVARIANTS
    IntactIsComplete
    TearsCostLittle
PROPERTIES
    NeverHeals
CHECK_DEADLOCK FALSE
