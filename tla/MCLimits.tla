------------------------------ MODULE MCLimits ------------------------------
(* Limits on small instances; the .cfg files give the constants.           *)
EXTENDS Limits, TLC

\* The threads of the pool are alike.
AnyThread == Permutations(Thread)
=============================================================================
