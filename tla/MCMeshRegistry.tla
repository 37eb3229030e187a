--------------------------- MODULE MCMeshRegistry ---------------------------
\* MeshRegistry for TLC: one node that greets a second, which comes and goes, and
\* before it a third, which is off.
EXTENDS MeshRegistry

CONSTANTS Mac, Hp, Old

MacGreets == [n \in Nodes |-> IF n = Mac THEN <<Old, Hp>> ELSE <<>>]
OldIsOff == [n \in Nodes |-> CASE n = Mac -> 1 [] n = Hp -> 2 [] OTHER -> 0]
=============================================================================
