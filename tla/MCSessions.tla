----------------------------- MODULE MCSessions -----------------------------
(* The credentials on a small instance. *)
EXTENDS Sessions
=============================================================================
