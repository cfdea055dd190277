------------------------------ MODULE Calendar ------------------------------
(***************************************************************************)
(* School time: app/schedules.py.  Instants are UTC and count from an      *)
(* arbitrary Monday; a day of the school's own calendar is numbered from   *)
(* the same Monday.  A zone is the one clock change that is in sight: the  *)
(* instant at which the offset from UTC changes, and the two offsets.      *)
(***************************************************************************)
EXTENDS Integers

CONSTANTS
  DayLength,      \* How many instants a day has.
  MaxSearchDays,  \* MAX_SEARCH_DAYS.
  Grace,          \* schedule_grace_minutes, in instants.
  None            \* Python None, SQL NULL.

ASSUME DayAssumption == DayLength \in Nat \ {0} /\ MaxSearchDays \in Nat
ASSUME GraceAssumption == Grace \in Nat
ASSUME NoneAssumption == None \notin Int

(* What somebody typed.  days matters to a weekly plan, date to a one-off; *)
(* starts and ends are None when they were left empty.                     *)
IsPlan(plan) ==
  /\ plan.kind \in {"once", "daily", "weekdays", "weekly"}
  /\ plan.at \in 0 .. DayLength - 1
  /\ plan.days \subseteq 0 .. 6
  /\ {plan.date, plan.starts, plan.ends} \subseteq Int \cup {None}
  /\ plan.kind = "once" => plan.date # None
  /\ plan.kind = "weekly" => plan.days # {}

IsZone(zone) ==
  /\ zone.change \in Int
  /\ zone.before \in Int /\ zone.after \in Int

----------------------------------------------------------------------------
(* The time zone database, as datetime.astimezone uses it.                 *)

Offset(zone, t) == IF t < zone.change THEN zone.before ELSE zone.after

LocalDay(zone, t) == (t + Offset(zone, t)) \div DayLength

LocalTime(zone, t) == (t + Offset(zone, t)) % DayLength

\* Mutant of ToUtc: the offset of today is used for every day to come.
ToUtcOneOffset(zone, wall) == wall - zone.before

(* A local time that exists twice is the first of the two; one that does   *)
(* not exist is read with the offset before the change (fold = 0).         *)
ToUtc(zone, wall) ==
  LET later == IF zone.before > zone.after THEN zone.before ELSE zone.after
  IN wall - (IF wall < zone.change + later THEN zone.before ELSE zone.after)

----------------------------------------------------------------------------
(* next_occurrence.                                                        *)

WantedDays(plan) ==
  CASE plan.kind = "weekdays" -> 0 .. 4
    [] plan.kind = "weekly"   -> plan.days
    [] OTHER                  -> 0 .. 6

\* Mutant of WithinBounds: the last day of the term is left out.
WithinBoundsExclusive(plan, day) ==
  /\ plan.starts # None => day >= plan.starts
  /\ plan.ends # None => day < plan.ends

WithinBounds(plan, day) ==
  /\ plan.starts # None => day >= plan.starts
  /\ plan.ends # None => day <= plan.ends

OnDay(plan, day) == WithinBounds(plan, day) /\ day % 7 \in WantedDays(plan)

Candidate(zone, plan, day) == ToUtc(zone, day * DayLength + plan.at)

\* Mutant of IsLater: an occurrence is after itself.
IsLaterOrSame(candidate, after) == candidate >= after

IsLater(candidate, after) == candidate > after

SearchDays(zone, after) ==
  LocalDay(zone, after) .. LocalDay(zone, after) + MaxSearchDays - 1

NextOccurrence(zone, plan, after) ==
  IF plan.kind = "once"
  THEN LET candidate == Candidate(zone, plan, plan.date)
       IN IF IsLater(candidate, after) THEN candidate ELSE None
  ELSE LET hits == {day \in SearchDays(zone, after) :
                      OnDay(plan, day) /\ IsLater(Candidate(zone, plan, day), after)}
       IN IF hits = {} THEN None
          ELSE Candidate(zone, plan, CHOOSE d \in hits : \A e \in hits : d <= e)

(* Without a zone the days are those of UTC, and the first candidate, a    *)
(* time without an offset, is compared with a time that has one, which     *)
(* raises; there is nothing to compare when the search finds no day.       *)
RaisesWithoutZone(plan, after) ==
  \/ plan.kind = "once"
  \/ \E day \in (after \div DayLength) .. (after \div DayLength) + MaxSearchDays - 1 :
       OnDay(plan, day)

----------------------------------------------------------------------------
(* decide.                                                                 *)

NotYet(due, now) == due > now

Fires(due, now) == ~NotYet(due, now) /\ now - due <= Grace

----------------------------------------------------------------------------
(* The plan as its author reads it, on the clock on the wall; nothing      *)
(* below converts a local time to UTC.                                     *)

(* The days somebody asked for, first and last day included.  A one-off    *)
(* has its date; what else was typed with it is not looked at.             *)
AskedFor(plan, day) ==
  \/ plan.kind = "once" /\ day = plan.date
  \/ /\ plan.kind # "once"
     /\ plan.starts = None \/ plan.starts <= day
     /\ plan.ends = None \/ day <= plan.ends
     /\ plan.kind = "weekdays" => day % 7 < 5
     /\ plan.kind = "weekly" => day % 7 \in plan.days

(* The school's clocks show the planned time of this day at instant t,     *)
Shows(zone, plan, day, t) == LocalDay(zone, t) = day /\ LocalTime(zone, t) = plan.at

(* or they never do, because they are put forward past it.                 *)
NeverShows(zone, plan, day) ==
  \A o \in {zone.before, zone.after} :
    ~Shows(zone, plan, day, day * DayLength + plan.at - o)

AsPlanned(zone, plan, t) ==
  LET day == LocalDay(zone, t)
  IN /\ AskedFor(plan, day)
     /\ \/ Shows(zone, plan, day, t)
        \/ /\ NeverShows(zone, plan, day)
           /\ LocalTime(zone, t) = plan.at + (zone.after - zone.before)

(* The days on which a plan is due, between two others.                    *)
DaysBetween(plan, first, last) == {day \in first + 1 .. last - 1 : AskedFor(plan, day)}

(* What the proofs ask of a zone: its clock change does not take the       *)
(* school back into a day that is over, nor carry a time that it skips     *)
(* into the next day.                                                      *)
MidnightKept(zone) ==
  /\ LocalDay(zone, zone.change - 1) <= LocalDay(zone, zone.change)
  /\ \A wall \in zone.change + zone.before .. zone.change + zone.after - 1 :
       (wall + (zone.after - zone.before)) \div DayLength = wall \div DayLength
=============================================================================
