----------------------------- MODULE MCAccounts -----------------------------
(* Accounts on small instances; the .cfg files give the constants.         *)
EXTENDS Accounts, TLC

\* Made staff, turned off, and put back as an administrator.
DownAndUp == {<<"staff", None>>, <<None, FALSE>>, <<"admin", TRUE>>}

\* The threads of the pool are alike.
AnyThread == Permutations(Thread)
=============================================================================
