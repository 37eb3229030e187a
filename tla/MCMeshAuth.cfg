SPECIFICATION Spec
CONSTANTS
    Nonces = {a, b, c}
    Offsets <- ClockOffsets
    Grain = 2
    MaxSkew = 3
    NonceTtl = 6
    GcAbove = 1
    Never = Never
    MaxTime = 9
    MaxRestarts = 1
SYMMETRY Symmetry
CHECK_DEADLOCK FALSE
INVARIANTS
    AcceptedOnce
PROPERTIES
    PromptIsFresh
