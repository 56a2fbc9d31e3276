---------------------------- MODULE MCScullDev ----------------------------
(* Model values for the instances of ScullDev that TLC checks. *)
EXTENDS ScullDev

CONSTANTS a, b
=============================================================================
