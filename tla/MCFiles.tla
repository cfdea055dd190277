------------------------------ MODULE MCFiles ------------------------------
(* Files on small instances; the .cfg files give the constants.            *)
EXTENDS Files, TLC

\* The threads are alike, and so are the names.
Alike == Permutations(Thread) \cup Permutations(Clip) \cup Permutations(Phrase)
=============================================================================
