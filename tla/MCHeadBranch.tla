---------------------------- MODULE MCHeadBranch ----------------------------
EXTENDS HeadBranch, TLC

Symmetry == Permutations(Req)
=============================================================================
