---------------------------- MODULE MCMeshAuth ----------------------------
\* MeshAuth for TLC; the configurations give the other constants their values.
EXTENDS MeshAuth, TLC

ClockOffsets == {-1, 1}
Symmetry == Permutations(Nonces)
=============================================================================
