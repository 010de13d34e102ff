----------------------------- MODULE MCGitSlots -----------------------------
EXTENDS GitSlots, TLC

Symmetry == Permutations(Connection)
=============================================================================
