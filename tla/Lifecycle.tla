----------------------------- MODULE Lifecycle -----------------------------
(***************************************************************************)
(* What the announcer promises about announcements, with no thread, no     *)
(* device and no web server: each accepted announcement waits, is on air   *)
(* alone, and is over once; the one put on air next is always the first in *)
(* line; nothing is forgotten before it is over.                           *)
(***************************************************************************)
EXTENDS Integers

CONSTANT Items   \* Numbers: the ids, in the order they are handed out.

VARIABLES
  phase,   \* [Items -> {"new", "waiting", "on_air", "over", "gone"}]
  urgent   \* [Items -> 0..1], meaningful while an item waits

lifecycle == <<phase, urgent>>

Init ==
  /\ phase = [i \in Items |-> "new"]
  /\ urgent = [i \in Items |-> 0]

FirstInLine(i) ==
  /\ phase[i] = "waiting"
  /\ \A j \in Items \ {i} : phase[j] = "waiting" =>
       urgent[i] > urgent[j] \/ (urgent[i] = urgent[j] /\ i < j)

----------------------------------------------------------------------------
(* Accepted in id order.                                                   *)
Accept(i) ==
  /\ phase[i] = "new"
  /\ \A j \in Items : j < i => phase[j] # "new"
  /\ phase' = [phase EXCEPT ![i] = "waiting"]
  /\ \E u \in 0 .. 1 : urgent' = [urgent EXCEPT ![i] = u]

PutOnAir(i) ==
  /\ FirstInLine(i)
  /\ \A j \in Items : phase[j] # "on_air"
  /\ phase' = [phase EXCEPT ![i] = "on_air"]
  /\ UNCHANGED urgent

(* The speakers were out of reach: it keeps its place in line.             *)
PutBack(i) ==
  /\ phase[i] = "on_air"
  /\ phase' = [phase EXCEPT ![i] = "waiting"]
  /\ UNCHANGED urgent

(* Played, failed, stopped, cancelled or cut by a restart.                 *)
End(i) ==
  /\ phase[i] \in {"waiting", "on_air"}
  /\ phase' = [phase EXCEPT ![i] = "over"]
  /\ UNCHANGED urgent

(* The log is cleared; only what is over can go.                           *)
Forget(S) ==
  /\ \A i \in S : phase[i] = "over"
  /\ phase' = [i \in Items |-> IF i \in S THEN "gone" ELSE phase[i]]
  /\ urgent' = [i \in Items |-> IF i \in S THEN 0 ELSE urgent[i]]

Next ==
  \/ \E i \in Items : Accept(i) \/ PutOnAir(i) \/ PutBack(i) \/ End(i)
  \/ \E S \in SUBSET Items : Forget(S)

Spec == Init /\ [][Next]_lifecycle
=============================================================================
