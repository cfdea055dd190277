---------------------------- MODULE MCSchedules ----------------------------
(* Schedules on small instances: a day is four instants, a clock change    *)
(* one instant, and the story runs from a Friday to a Sunday.              *)
EXTENDS Schedules, TLC

Repeats(kind, at, days) ==
  [kind |-> kind, at |-> at, days |-> days, date |-> None, starts |-> None, ends |-> None]

(* One weekend, at the time that the clock change of spring skips on the   *)
(* Saturday and the one of autumn repeats.                                 *)
Weekend == [Repeats("weekly", 1, {5, 6}) EXCEPT !.starts = 5, !.ends = 6]

(* A one-off, typed with the bounds of a weekend that it ignores.          *)
Friday == [kind |-> "once", at |-> 3, days |-> {}, date |-> 4,
           starts |-> 5, ends |-> 6]

(* Both changes come on Saturday.                                          *)
Spring == [change |-> 22, before |-> -1, after |-> 0]
Autumn == [change |-> 22, before |-> 0, after |-> -1]

WeekendAndFriday == {Weekend, Friday}
BothChanges == {Spring, Autumn}

(* What the proofs about the calendar ask of the zones.                    *)
ASSUME MidnightAssumption == \A zone \in BothChanges : MidnightKept(zone)
=============================================================================
