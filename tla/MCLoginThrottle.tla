--------------------------- MODULE MCLoginThrottle ---------------------------
(* The login throttle on a small instance. *)
EXTENDS LoginThrottle
=============================================================================
