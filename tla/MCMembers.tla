------------------------------ MODULE MCMembers ------------------------------
(* The members of a project on a small instance. *)
EXTENDS Members, TLC

Symmetry == Permutations(Requests)
=============================================================================
