------------------------------ MODULE MCStatus ------------------------------
(* Status on small instances; the .cfg files give the constants.           *)
EXTENDS Status, TLC
=============================================================================
