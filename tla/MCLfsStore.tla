----------------------------- MODULE MCLfsStore -----------------------------
EXTENDS LfsStore, TLC

Symmetry == Permutations(Req)
=============================================================================
