--------------------------- MODULE MCScullAccess ---------------------------
(***************************************************************************)
(* An instance of ScullAccess for TLC: a and b are the same user's, b      *)
(* having changed to another (su), c is that other user, d is root.  a and *)
(* c work at one terminal, b at a second, d has none.                      *)
(***************************************************************************)
EXTENDS ScullAccess, TLC

CONSTANTS a, b, c, d, u, v, t1, t2

MCUid  == a :> u @@ b :> u @@ c :> v @@ d :> Root
MCEuid == a :> u @@ b :> v @@ c :> v @@ d :> Root
MCTty  == a :> t1 @@ b :> t2 @@ c :> t1 @@ d :> NoTty
=============================================================================
