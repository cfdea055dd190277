----------------------------- MODULE MCStartup -----------------------------
(* Startup on small instances; the .cfg files give the constants.          *)
EXTENDS Startup, TLC

\* The processes are alike.
AnyProcess == Permutations(Process)
=============================================================================
