--------------------------- MODULE MCScullDriver ---------------------------
(* Model values for the instance of ScullDriver that TLC checks. *)
EXTENDS ScullDriver

CONSTANTS a, b, x
=============================================================================
