SPECIFICATION ActionSpec
CONSTANTS
    r1 = r1
    n1 = n1
    n2 = n2
    v1 = v1
    v2 = v2
    p1 = p1
    p2 = p2
    Runs = {r1}
    Names = {n1, n2}
    Values = {v1, v2}
    Passphrases = {p1, p2}
    Locked = Locked
    Absent = Absent
    Torn = Torn
    Unreadable = Unreadable
    NoCode = NoCode
    Require2FA = TRUE
    Step = 2
    Window = 1
    MaxSkew = 5
    MaxNow = 6
INVARIANTS
    SecretsSurvive
    CodesAreTimely
PROPERTIES
    RunsEnd
