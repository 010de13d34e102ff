--------------------------- MODULE MCProjectStore ---------------------------
EXTENDS ProjectStore, TLC

Symmetry == Permutations(Handler) \cup Permutations(Namespace) \cup Permutations(Path)
=============================================================================
