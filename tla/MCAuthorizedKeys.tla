-------------------------- MODULE MCAuthorizedKeys --------------------------
(* One user's keys on a small instance; no symmetry, since liveness is checked. *)
EXTENDS AuthorizedKeys, TLC

CONSTANTS u1, k1, k2, r1, r2
=============================================================================
