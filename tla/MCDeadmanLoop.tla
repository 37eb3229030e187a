--------------------------- MODULE MCDeadmanLoop ---------------------------
\* DeadmanLoop for TLC; the configurations give the constants their values.
EXTENDS DeadmanLoop, TLC

Symmetry == Permutations(Labels)
=============================================================================
