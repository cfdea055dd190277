------------------------------ MODULE MCPlayer ------------------------------
(* Player on small instances; the .cfg files give the constants.           *)
EXTENDS Player, TLC
=============================================================================
