---------------------------- MODULE MCScullPipe ----------------------------
(***************************************************************************)
(* Instances of ScullPipe for TLC.  The processes a and b have the same    *)
(* rights in the safety run and are interchangeable there; c differs.      *)
(***************************************************************************)
EXTENDS ScullPipe, TLC

CONSTANTS a, b, c

Interchangeable == Permutations({a, b})
=============================================================================
