-------------------------- MODULE SchedulesProofs --------------------------
(***************************************************************************)
(* No occurrence of a schedule is announced twice, for every calendar,     *)
(* every plan and every number of schedules, people, requests and faults.  *)
(* The proof needs one fact about next_occurrence, that it is strictly     *)
(* later than its argument; the rest is the invariant OnceInv of Schedules.*)
(***************************************************************************)
EXTENDS Schedules, WellFoundedInduction, TLAPS

(* A day's conversion to UTC is an instant.                                *)
LEMMA CandidateType ==
  ASSUME NEW zone, IsZone(zone), NEW plan, IsPlan(plan), NEW day \in Int
  PROVE  Candidate(zone, plan, day) \in Int
<1>1. DayLength \in Nat /\ plan.at \in Int /\ day * DayLength \in Int
  BY DayAssumption DEF IsPlan
<1>2. day * DayLength + plan.at \in Int
  BY <1>1
<1> DEFINE wall == day * DayLength + plan.at
<1> HIDE DEF wall
<1>3. ToUtc(zone, wall) \in Int
  BY <1>2 DEF ToUtc, IsZone, wall
<1> QED BY <1>3 DEF Candidate, wall

(* The first of some days that are not before a given one.                 *)
LEMMA FirstDay ==
  ASSUME NEW first \in Int, NEW hits, hits # {},
         \A d \in hits : d \in Int /\ first <= d
  PROVE  LET earliest == CHOOSE d \in hits : \A e \in hits : d <= e
         IN earliest \in hits /\ \A e \in hits : earliest <= e
<1> DEFINE shifted == {n \in Nat : n + first \in hits}
<1>1. PICK h \in hits : TRUE
  OBVIOUS
<1>2. h - first \in Nat /\ (h - first) + first = h
  OBVIOUS
<1>3. h - first \in shifted
  BY <1>1, <1>2
<1>4. PICK n \in shifted : \A m \in shifted : n <= m
  <2> DEFINE less == OpToRel(<, Nat)
  <2>1. shifted \subseteq Nat /\ shifted # {}
    BY <1>3
  <2>2. IsWellFoundedOn(less, Nat)
    BY NatLessThanWellFounded, Zenon
  <2>3. \A x, y \in Nat : y < x => <<y, x>> \in less
    BY Zenon DEF OpToRel
  <2> HIDE DEF less, shifted
  <2>4. PICK x \in shifted : \A y \in shifted : ~ (<<y, x>> \in less)
    BY <2>1, <2>2, WFMin, Zenon
  <2>5. ASSUME NEW y \in shifted PROVE x <= y
    <3>1. x \in Nat /\ y \in Nat
      BY <2>1
    <3>2. <<y, x>> \notin less
      BY <2>4
    <3>3. ~ (y < x)
      BY <2>3, <3>1, <3>2, Zenon
    <3> QED BY <3>1, <3>3
  <2> QED BY <2>5
<1>5. n + first \in hits
  OBVIOUS
<1>6. ASSUME NEW e \in hits PROVE n + first <= e
  <2>1. e \in Int /\ first <= e /\ e - first \in Nat /\ (e - first) + first = e
    OBVIOUS
  <2>2. e - first \in shifted
    BY <2>1
  <2>3. n <= e - first /\ n \in Nat
    BY <1>4, <2>2
  <2> QED BY <2>1, <2>3
<1>7. \E d \in hits : \A e \in hits : d <= e
  BY <1>5, <1>6
<1> QED BY <1>7

(* next_occurrence: a UTC instant strictly later than `after`, or None     *)
(* (app/schedules.py:157).                                                 *)
LEMMA NextOccurrenceLater ==
  ASSUME NEW zone, IsZone(zone), NEW plan, IsPlan(plan), NEW after \in Int
  PROVE  LET next == NextOccurrence(zone, plan, after)
         IN next = None \/ (next \in Int /\ next > after)
<1>1. CASE plan.kind = "once"
  <2>1. plan.date \in Int
    BY <1>1 DEF IsPlan
  <2>2. Candidate(zone, plan, plan.date) \in Int
    BY <2>1, CandidateType
  <2> QED BY <1>1, <2>2 DEF NextOccurrence, IsLater
<1>2. CASE plan.kind # "once"
  <2> DEFINE hits == {day \in SearchDays(zone, after) :
                        OnDay(plan, day) /\ IsLater(Candidate(zone, plan, day), after)}
             day0 == CHOOSE d \in hits : \A e \in hits : d <= e
  <2>1. CASE hits = {}
    BY <1>2, <2>1 DEF NextOccurrence
  <2>2. CASE hits # {}
    <3>1. LocalDay(zone, after) \in Int
      BY DayAssumption DEF LocalDay, Offset, IsZone
    <3>2. \A d \in hits : d \in Int /\ LocalDay(zone, after) <= d
      BY <3>1 DEF SearchDays
    <3>3. day0 \in hits
      <4> HIDE DEF hits
      <4> QED BY <2>2, <3>1, <3>2, FirstDay
    <3>4. day0 \in Int /\ IsLater(Candidate(zone, plan, day0), after)
      BY <3>2, <3>3
    <3>5. Candidate(zone, plan, day0) \in Int
      <4> HIDE DEF day0
      <4> QED BY <3>4, CandidateType
    <3>6. NextOccurrence(zone, plan, after) = Candidate(zone, plan, day0)
      BY <1>2, <2>2 DEF NextOccurrence
    <3> HIDE DEF day0
    <3> QED BY <3>4, <3>5, <3>6 DEF IsLater
  <2> QED BY <2>1, <2>2
<1> QED BY <1>1, <1>2

----------------------------------------------------------------------------
(* Instants, days and times of the day.                                    *)

LEMMA DayAndTime ==
  ASSUME NEW x \in Int
  PROVE  /\ x \div DayLength \in Int /\ x % DayLength \in 0 .. DayLength - 1
         /\ x = DayLength * (x \div DayLength) + (x % DayLength)
BY DayAssumption

LEMMA OneDayAndTime ==
  ASSUME NEW d \in Int, NEW e \in Int, NEW u \in 0 .. DayLength - 1, NEW v \in 0 .. DayLength - 1,
         DayLength * d + u = DayLength * e + v
  PROVE  d = e /\ u = v
<1> USE DayAssumption
<1>1. DayLength * (d - e) = v - u
  OBVIOUS
<1>2. ~ (d - e >= 1)
  <2> SUFFICES ASSUME d - e >= 1 PROVE FALSE
    OBVIOUS
  <2>1. DayLength * (d - e) >= DayLength
    OBVIOUS
  <2> QED BY <1>1, <2>1
<1>3. ~ (e - d >= 1)
  <2> SUFFICES ASSUME e - d >= 1 PROVE FALSE
    OBVIOUS
  <2>1. DayLength * (e - d) >= DayLength
    OBVIOUS
  <2>2. DayLength * (e - d) = u - v
    BY <1>1
  <2> QED BY <2>1, <2>2
<1> QED BY <1>1, <1>2, <1>3

(* A wall time determines its day and its time of the day.                 *)
LEMMA WallTime ==
  ASSUME NEW day \in Int, NEW at \in 0 .. DayLength - 1
  PROVE  /\ (DayLength * day + at) \div DayLength = day
         /\ (DayLength * day + at) % DayLength = at
<1> DEFINE wall == DayLength * day + at
<1>1. wall \in Int
  BY DayAssumption
<1>2. wall = DayLength * day + at
  OBVIOUS
<1> HIDE DEF wall
<1>3. wall \div DayLength = day /\ wall % DayLength = at
  BY <1>1, <1>2, DayAndTime, OneDayAndTime
<1> QED BY <1>3 DEF wall

LEMMA DaysInOrder ==
  ASSUME NEW x \in Int, NEW y \in Int, x <= y
  PROVE  x \div DayLength <= y \div DayLength
<1>1. PICK d \in Int, u \in 0 .. DayLength - 1 : d = x \div DayLength /\ x = DayLength * d + u
  BY DayAndTime
<1>2. PICK e \in Int, v \in 0 .. DayLength - 1 : e = y \div DayLength /\ y = DayLength * e + v
  BY DayAndTime
<1>3. DayLength * (d - e) <= v - u
  BY <1>1, <1>2, DayAssumption
<1>4. ~ (d - e >= 1)
  <2> SUFFICES ASSUME d - e >= 1 PROVE FALSE
    OBVIOUS
  <2>1. DayLength * (d - e) >= DayLength
    BY DayAssumption
  <2> QED BY <1>3, <2>1, DayAssumption
<1> QED BY <1>1, <1>2, <1>4

(* The school's calendar does not go back.                                 *)
LEMMA LocalDayInOrder ==
  ASSUME NEW zone, IsZone(zone), MidnightKept(zone), NEW t \in Int, NEW u \in Int, t <= u
  PROVE  LocalDay(zone, t) <= LocalDay(zone, u)
<1> USE DEF LocalDay, Offset, IsZone
<1>1. CASE u < zone.change \/ zone.change <= t
  BY <1>1, DaysInOrder
<1>2. CASE t < zone.change /\ zone.change <= u
  <2>1. LocalDay(zone, t) <= LocalDay(zone, zone.change - 1)
    BY <1>2, DaysInOrder
  <2>2. LocalDay(zone, zone.change) <= LocalDay(zone, u)
    BY <1>2, DaysInOrder
  <2>3. LocalDay(zone, zone.change - 1) <= LocalDay(zone, zone.change)
    BY DEF MidnightKept
  <2>4. \A x \in Int : LocalDay(zone, x) \in Int
    BY DayAssumption
  <2> HIDE DEF LocalDay
  <2> QED BY <1>2, <2>1, <2>2, <2>3, <2>4
<1> QED BY <1>1, <1>2

(* Each day's candidate falls on that day, at the time typed, unless the   *)
(* clocks are put forward past it and it comes as much later.              *)
LEMMA CandidateShows ==
  ASSUME NEW zone, IsZone(zone), MidnightKept(zone), NEW plan, IsPlan(plan), NEW day \in Int
  PROVE  LET t == Candidate(zone, plan, day)
         IN /\ LocalDay(zone, t) = day
            /\ \/ LocalTime(zone, t) = plan.at
               \/ /\ NeverShows(zone, plan, day)
                  /\ LocalTime(zone, t) = plan.at + (zone.after - zone.before)
<1>1. PICK at \in 0 .. DayLength - 1 : at = plan.at
  BY DEF IsPlan
<1>2. PICK change \in Int, before \in Int, after \in Int :
        change = zone.change /\ before = zone.before /\ after = zone.after
  BY DEF IsZone
<1>3. PICK wall \in Int : wall = DayLength * day + at
  BY DayAssumption
<1>4. wall \div DayLength = day /\ wall % DayLength = at
  BY <1>3, WallTime
<1>5. day * DayLength + plan.at = wall
  BY <1>1, <1>3, DayAssumption
<1>6. PICK t \in Int : t = Candidate(zone, plan, day)
  BY CandidateType
<1>7. t = wall - (IF wall < change + (IF before > after THEN before ELSE after)
                  THEN before ELSE after)
  BY <1>2, <1>5, <1>6 DEF Candidate, ToUtc
<1>8. \A x \in Int : /\ x < change => Offset(zone, x) = before
                     /\ change <= x => Offset(zone, x) = after
  BY <1>2 DEF Offset
<1>9. CASE t + Offset(zone, t) = wall
  BY <1>1, <1>4, <1>6, <1>9 DEF LocalDay, LocalTime
<1>10. CASE t + Offset(zone, t) # wall
  <2>1. t = wall - before /\ change <= t /\ wall < change + after
    BY <1>7, <1>8, <1>10
  <2>2. PICK shift \in Int : shift = after - before
    OBVIOUS
  <2>3. t + Offset(zone, t) = wall + shift /\ shift # 0
    BY <1>8, <1>10, <2>1, <2>2
  <2>4. wall \in change + before .. change + after - 1
    BY <2>1
  <2>5. (wall + shift) \div DayLength = day
    BY <1>2, <1>4, <2>2, <2>4 DEF MidnightKept
  <2>6. (wall + shift) % DayLength = at + shift
    <3>1. PICK v \in 0 .. DayLength - 1 : v = (wall + shift) % DayLength
                                          /\ wall + shift = DayLength * day + v
      BY <2>5, DayAndTime
    <3>2. PICK n \in Int : n = DayLength * day
      BY DayAssumption
    <3>3. v = at + shift
      BY <1>3, <3>1, <3>2
    <3> QED BY <3>1, <3>3
  <2>7. LocalDay(zone, t) = day /\ LocalTime(zone, t) = at + shift
    BY <2>3, <2>5, <2>6 DEF LocalDay, LocalTime
  <2>8. ~ Shows(zone, plan, day, wall - before)
    BY <1>1, <2>1, <2>3, <2>7 DEF Shows
  <2>9. ~ Shows(zone, plan, day, wall - after)
    <3>1. PICK s \in Int : s = wall - after
      OBVIOUS
    <3>2. s + Offset(zone, s) = wall - shift
      BY <1>8, <2>1, <2>2, <3>1
    <3> SUFFICES ASSUME LocalDay(zone, s) = day, LocalTime(zone, s) = at PROVE FALSE
      BY <1>1, <3>1 DEF Shows
    <3>3. wall - shift = DayLength * day + at
      BY <3>2, DayAndTime DEF LocalDay, LocalTime
    <3> QED BY <1>3, <2>3, <3>3
  <2>10. NeverShows(zone, plan, day)
    <3>1. ASSUME NEW o \in {zone.before, zone.after}
          PROVE  ~ Shows(zone, plan, day, day * DayLength + plan.at - o)
      <4>1. o = before \/ o = after
        BY <1>2
      <4>2. day * DayLength + plan.at - o = wall - o
        BY <1>1, <1>5, <4>1, DayAssumption
      <4> QED BY <2>8, <2>9, <4>1, <4>2
    <3> QED BY <3>1, Zenon DEF NeverShows
  <2> QED BY <1>1, <1>2, <1>6, <2>2, <2>7, <2>10
<1> QED BY <1>9, <1>10

(* An instant that the plan asks for: the candidate of its own day.        *)
OnPlan(zone, plan, t) ==
  /\ t = Candidate(zone, plan, LocalDay(zone, t))
  /\ AskedFor(plan, LocalDay(zone, t))

LEMMA OnPlanAsPlanned ==
  ASSUME NEW zone, IsZone(zone), MidnightKept(zone), NEW plan, IsPlan(plan), NEW t \in Int,
         OnPlan(zone, plan, t)
  PROVE  AsPlanned(zone, plan, t)
<1>1. LocalDay(zone, t) \in Int
  BY DayAssumption DEF LocalDay, Offset, IsZone
<1> QED BY <1>1, CandidateShows DEF OnPlan, AsPlanned, Shows

(* The search looks at the days that the plan asks for.                    *)
LEMMA OnDayAskedFor ==
  ASSUME NEW plan, IsPlan(plan), plan.kind # "once", NEW day \in Int
  PROVE  OnDay(plan, day) <=> AskedFor(plan, day)
<1>1. day % 7 \in 0 .. 6
  OBVIOUS
<1>2. CASE plan.kind = "weekdays"
  BY <1>1, <1>2 DEF OnDay, WithinBounds, WantedDays, AskedFor, IsPlan
<1>3. CASE plan.kind = "weekly"
  BY <1>3 DEF OnDay, WithinBounds, WantedDays, AskedFor, IsPlan
<1>4. CASE plan.kind = "daily"
  BY <1>1, <1>4 DEF OnDay, WithinBounds, WantedDays, AskedFor, IsPlan
<1> QED BY <1>2, <1>3, <1>4 DEF IsPlan

(* next_occurrence of a repeating plan: the first day asked for whose      *)
(* candidate is later than `after`, within MAX_SEARCH_DAYS, if there is    *)
(* one.                                                                    *)
LEMMA SearchFindsFirst ==
  ASSUME NEW zone, IsZone(zone), NEW plan, IsPlan(plan), plan.kind # "once", NEW after \in Int
  PROVE  LET Hit(day) == AskedFor(plan, day) /\ Candidate(zone, plan, day) > after
         IN \/ /\ NextOccurrence(zone, plan, after) = None
               /\ \A day \in SearchDays(zone, after) : ~ Hit(day)
            \/ \E day \in SearchDays(zone, after) :
                 /\ NextOccurrence(zone, plan, after) = Candidate(zone, plan, day)
                 /\ Hit(day)
                 /\ \A e \in SearchDays(zone, after) : Hit(e) => day <= e
<1> DEFINE hits == {day \in SearchDays(zone, after) :
                      OnDay(plan, day) /\ IsLater(Candidate(zone, plan, day), after)}
           day0 == CHOOSE d \in hits : \A e \in hits : d <= e
<1>1. LocalDay(zone, after) \in Int
  BY DayAssumption DEF LocalDay, Offset, IsZone
<1>2. SearchDays(zone, after) \subseteq Int
      /\ \A d \in SearchDays(zone, after) : LocalDay(zone, after) <= d
  BY <1>1 DEF SearchDays
<1>3. \A d \in SearchDays(zone, after) :
        d \in hits <=> AskedFor(plan, d) /\ Candidate(zone, plan, d) > after
  BY <1>2, OnDayAskedFor DEF IsLater
<1>4. CASE hits = {}
  <2>1. NextOccurrence(zone, plan, after) = None
    BY <1>4 DEF NextOccurrence
  <2> HIDE DEF hits
  <2> QED BY <1>3, <1>4, <2>1
<1>5. CASE hits # {}
  <2>1. NextOccurrence(zone, plan, after) = Candidate(zone, plan, day0)
    BY <1>5 DEF NextOccurrence
  <2>2. hits \subseteq SearchDays(zone, after)
    OBVIOUS
  <2>3. day0 \in hits /\ \A e \in hits : day0 <= e
    <3> HIDE DEF hits
    <3> QED BY <1>1, <1>2, <1>5, <2>2, FirstDay
  <2> HIDE DEF hits, day0
  <2> QED BY <1>3, <2>1, <2>2, <2>3
<1> QED BY <1>4, <1>5

(* What next_occurrence gives is asked for by the plan.                    *)
LEMMA NextOccurrenceOnPlan ==
  ASSUME NEW zone, IsZone(zone), MidnightKept(zone), NEW plan, IsPlan(plan), NEW after \in Int,
         NextOccurrence(zone, plan, after) # None
  PROVE  OnPlan(zone, plan, NextOccurrence(zone, plan, after))
<1>1. CASE plan.kind = "once"
  <2>1. plan.date \in Int
    BY <1>1 DEF IsPlan
  <2>2. NextOccurrence(zone, plan, after) = Candidate(zone, plan, plan.date)
    BY <1>1 DEF NextOccurrence
  <2>3. LocalDay(zone, Candidate(zone, plan, plan.date)) = plan.date
    BY <2>1, CandidateShows
  <2> QED BY <1>1, <2>2, <2>3 DEF OnPlan, AskedFor
<1>2. CASE plan.kind # "once"
  <2>1. PICK day \in SearchDays(zone, after) :
          /\ NextOccurrence(zone, plan, after) = Candidate(zone, plan, day)
          /\ AskedFor(plan, day)
    BY <1>2, SearchFindsFirst
  <2>2. day \in Int
    BY DayAssumption DEF SearchDays, LocalDay, Offset, IsZone
  <2>3. LocalDay(zone, Candidate(zone, plan, day)) = day
    BY <2>2, CandidateShows
  <2> QED BY <2>1, <2>3 DEF OnPlan
<1> QED BY <1>1, <1>2

(* From an instant that a repeating plan asks for, next_occurrence goes to *)
(* the next day it asks for: no day in between is passed over.             *)
LEMMA NextDayOfPlan ==
  ASSUME NEW zone, IsZone(zone), MidnightKept(zone), NEW plan, IsPlan(plan), plan.kind # "once",
         NEW t \in Int, OnPlan(zone, plan, t)
  PROVE  LET day  == LocalDay(zone, t)
             next == NextOccurrence(zone, plan, t)
         IN IF next = None
            THEN DaysBetween(plan, day, day + MaxSearchDays) = {}
            ELSE /\ day < LocalDay(zone, next)
                 /\ DaysBetween(plan, day, LocalDay(zone, next)) = {}
<1>1. PICK day \in Int : day = LocalDay(zone, t)
  BY DayAssumption DEF LocalDay, Offset, IsZone
<1>2. MaxSearchDays \in Nat /\ SearchDays(zone, t) = day .. day + MaxSearchDays - 1
  BY <1>1, DayAssumption DEF SearchDays
<1>3. ASSUME NEW d \in Int, day < d PROVE Candidate(zone, plan, d) > t
  <2>1. PICK c \in Int : c = Candidate(zone, plan, d) /\ LocalDay(zone, c) = d
    BY CandidateType, CandidateShows
  <2>2. c <= t => d <= day
    BY <1>1, <2>1, LocalDayInOrder
  <2> QED BY <1>3, <2>1, <2>2
<1>4. Candidate(zone, plan, day) = t
  BY <1>1 DEF OnPlan
<1>5. CASE NextOccurrence(zone, plan, t) = None
  <2>1. \A d \in SearchDays(zone, t) : ~ (AskedFor(plan, d) /\ Candidate(zone, plan, d) > t)
    <3>1. \A d \in Int : Candidate(zone, plan, d) \in Int
      BY CandidateType
    <3> QED BY <1>2, <1>5, <3>1, SearchFindsFirst, NoneAssumption
  <2>2. \A d \in day + 1 .. (day + MaxSearchDays) - 1 : ~ AskedFor(plan, d)
    BY <1>2, <1>3, <2>1
  <2> QED BY <1>1, <1>5, <2>2 DEF DaysBetween
<1>6. CASE NextOccurrence(zone, plan, t) # None
  <2>1. PICK first \in SearchDays(zone, t) :
          /\ NextOccurrence(zone, plan, t) = Candidate(zone, plan, first)
          /\ AskedFor(plan, first) /\ Candidate(zone, plan, first) > t
          /\ \A e \in SearchDays(zone, t) :
               AskedFor(plan, e) /\ Candidate(zone, plan, e) > t => first <= e
    BY <1>6, SearchFindsFirst
  <2>2. first \in Int /\ day <= first /\ first <= day + MaxSearchDays - 1
    BY <1>2, <2>1
  <2>3. first # day
    BY <1>4, <2>1
  <2>4. LocalDay(zone, Candidate(zone, plan, first)) = first
    BY <2>2, CandidateShows
  <2>5. \A d \in day + 1 .. first - 1 : ~ AskedFor(plan, d)
    BY <1>2, <1>3, <2>1, <2>2
  <2> QED BY <1>1, <1>6, <2>1, <2>2, <2>3, <2>4, <2>5 DEF DaysBetween
<1> QED BY <1>5, <1>6

----------------------------------------------------------------------------
(* What the scheduler and the handlers store.                              *)

LEMMA PlanFacts ==
  ASSUME TypeOK, NEW plan \in Plans
  PROVE  IsZone(home) /\ IsPlan(plan) /\ clock \in Int
BY ZonesAssumption, PlansAssumption, TimeAssumption DEF TypeOK

LEMMA AskedNext ==
  ASSUME TypeOK, NEW plan \in Plans
  PROVE  NextRun(plan, clock) \in Int \cup {None}
BY PlanFacts, NextOccurrenceLater DEF NextRun

(* The scheduler moves a row forward, or switches it off.                  *)
LEMMA FollowingLater ==
  ASSUME TypeOK, NEW d \in Copy, d.row.next # None
  PROVE  Following(d) = None \/ (Following(d) \in Int /\ Following(d) > d.row.next)
<1>1. d.row.plan \in Plans /\ d.row.next \in Int
  BY DEF Copy, Schedule
<1>2. IsZone(home) /\ IsPlan(d.row.plan)
  BY <1>1, PlanFacts
<1> DEFINE next == NextOccurrence(home, d.row.plan, d.row.next)
<1>3. next = None \/ (next \in Int /\ next > d.row.next)
  BY <1>1, <1>2, NextOccurrenceLater
<1> HIDE DEF next
<1> QED BY <1>3 DEF Following, NextRun, next

LEMMA StoreNextType ==
  ASSUME TypeOK, NEW d \in Copy, d.row.next # None, StoreNext(d)
  PROVE  row' \in [Id -> Schedule \cup {None}] /\ stale' \subseteq Id
<1>1. CASE row[d.id] = None
  BY <1>1 DEF StoreNext, TypeOK
<1>2. CASE row[d.id] # None
  <2>1. d.id \in Id /\ row[d.id] \in Schedule
    BY <1>2 DEF Copy, TypeOK
  <2>2. Following(d) \in Int \cup {None}
    BY FollowingLater
  <2> DEFINE new == [row[d.id] EXCEPT !.next = Following(d), !.on = (Following(d) # None)]
  <2>3. new \in Schedule
    BY <2>1, <2>2 DEF Schedule
  <2>4. row' = [row EXCEPT ![d.id] = new]
    BY <1>2 DEF StoreNext
  <2>5. stale' \subseteq Id
    BY <1>2, <2>1 DEF StoreNext, TypeOK
  <2> HIDE DEF new
  <2> QED BY <2>1, <2>3, <2>4, <2>5 DEF TypeOK
<1> QED BY <1>1, <1>2

----------------------------------------------------------------------------
(* Types.                                                                  *)

LEMMA TypeInit == Init => TypeOK
BY TimeAssumption, LimitsAssumption
   DEF Init, TypeOK, Request, NoRequest, Id

LEMMA ThreadTypeStep ==
  ASSUME TypeOK, RoundOK, SchedulerStep \/ SchedulerFault
  PROVE  TypeOK'
<1>1. ASSUME ReadNow PROVE TypeOK'
  BY <1>1 DEF ReadNow, TypeOK, web, history
<1>2. ASSUME Select PROVE TypeOK'
  <2>1. due' \subseteq Copy
    BY <1>2 DEF Select, IsDue, TypeOK, Copy
  <2> QED BY <1>2, <2>1 DEF Select, TypeOK, web, history
<1>3. ASSUME Send PROVE TypeOK'
  <2>1. sending \in Copy /\ sending.row.next \in Int
    BY <1>3 DEF Send, RoundOK, Copies, TypeOK, Copy, Schedule
  <2>2. <<sending.id, sending.row.next>> \in Occurrence
    BY <2>1 DEF Copy, Occurrence
  <2> QED BY <1>3, <2>2 DEF Send, TypeOK, web
<1>4. ASSUME RoundEnds PROVE TypeOK'
  BY <1>4 DEF RoundEnds, TypeOK, web, history
<1>5. ASSUME RoundRaises PROVE TypeOK'
  BY <1>5 DEF RoundRaises, TypeOK, web, history
<1>6. ASSUME NEW d \in due, Advance(d) PROVE TypeOK'
  <2>1. d \in Copy /\ d.row.next # None
    BY DEF TypeOK, RoundOK, Copies
  <2>2. row' \in [Id -> Schedule \cup {None}] /\ stale' \subseteq Id
    BY <1>6, <2>1, StoreNextType DEF Advance
  <2>3. due' \subseteq Copy /\ sending' \in Copy \cup {None}
        /\ pc' \in {"off", "wait", "select", "round", "send"}
    BY <1>6, <2>1 DEF Advance, TypeOK
  <2> QED BY <1>6, <2>2, <2>3 DEF Advance, TypeOK, web
<1>7. ASSUME StoreRaises PROVE TypeOK'
  BY <1>7, LimitsAssumption DEF StoreRaises, TypeOK, web, history
<1>8. ASSUME SendRaises PROVE TypeOK'
  BY <1>8, LimitsAssumption DEF SendRaises, TypeOK, web, history
<1> QED
  BY <1>1, <1>2, <1>3, <1>4, <1>5, <1>6, <1>7, <1>8 DEF SchedulerStep, SchedulerFault

LEMMA AskType ==
  ASSUME TypeOK, NEW p \in Person, NEW request \in Request, Serving(p), Ask(p, request)
  PROVE  TypeOK'
BY LimitsAssumption DEF TypeOK, Serving, Ask, thread, history

LEMMA RearmType ==
  ASSUME TypeOK, NEW s \in Id, NEW new \in Schedule, Rearm(s, new)
  PROVE  rearmed' \subseteq Occurrence
BY DEF TypeOK, Rearm, Schedule, Occurrence

LEMMA WebTypeStep ==
  ASSUME TypeOK, WebStep
  PROVE  TypeOK'
<1>1. ASSUME NEW p \in Person, NEW plan \in Plans, NEW on \in BOOLEAN, AskCreate(p, plan, on)
      PROVE  TypeOK'
  <2> DEFINE new == [owner |-> p, plan |-> plan, on |-> on,
                     next |-> NextRun(plan, clock)]
  <2>1. new \in Schedule
    BY AskedNext DEF Schedule
  <2> HIDE DEF new
  <2>2. [op |-> "create", new |-> new] \in Request
    BY <2>1 DEF Request
  <2> QED BY <1>1, <2>2, AskType DEF AskCreate, new
<1>2. ASSUME NEW p \in Person, NEW plan \in Plans, NEW on \in BOOLEAN, NEW s \in Id,
             AskUpdate(p, s, plan, on)
      PROVE  TypeOK'
  <2> DEFINE new == [owner |-> row[s].owner, plan |-> plan, on |-> on,
                     next |-> NextRun(plan, clock)]
  <2>1. row[s] \in Schedule
    BY <1>2 DEF AskUpdate, MayEdit, TypeOK
  <2>2. new \in Schedule
    BY <2>1, AskedNext DEF Schedule
  <2> HIDE DEF new
  <2>3. [op |-> "update", id |-> s, seen |-> row[s], new |-> new] \in Request
    BY <2>1, <2>2 DEF Request
  <2> QED BY <1>2, <2>3, AskType DEF AskUpdate, new
<1>3. ASSUME NEW p \in Person, NEW on \in BOOLEAN, NEW s \in Id, AskToggle(p, s, on)
      PROVE  TypeOK'
  <2> DEFINE next == IF on THEN NextRun(row[s].plan, clock) ELSE None
             new == [row[s] EXCEPT !.on = on, !.next = next]
  <2>1. row[s] \in Schedule
    BY <1>3 DEF AskToggle, MayEdit, TypeOK
  <2>2. next \in Int \cup {None}
    BY <2>1, AskedNext DEF Schedule
  <2>3. new \in Schedule
    <3> HIDE DEF next
    <3> QED BY <2>1, <2>2 DEF Schedule
  <2> HIDE DEF new
  <2>4. [op |-> "toggle", id |-> s, seen |-> row[s], new |-> new] \in Request
    BY <2>1, <2>3 DEF Request
  <2> QED BY <1>3, <2>4, AskType DEF AskToggle, new
<1>4. ASSUME NEW p \in Person, NEW s \in Id, AskDelete(p, s) PROVE TypeOK'
  <2>1. [op |-> "delete", id |-> s] \in Request
    BY DEF Request
  <2> QED BY <1>4, <2>1, AskType DEF AskDelete
<1>5. ASSUME NEW p \in Person, Create(p) PROVE TypeOK'
  <2>1. req[p].new \in Schedule /\ nextId \in Id /\ nextId + 1 \in 1 .. MaxSchedules + 1
    BY <1>5, LimitsAssumption DEF Create, TypeOK, Request, NoRequest, Id
  <2> QED BY <1>5, <2>1 DEF Create, Answered, TypeOK, thread, Request
<1>6. ASSUME NEW p \in Person, Update(p) PROVE TypeOK'
  <2>1. req[p].new \in Schedule /\ req[p].id \in Id
    BY <1>6 DEF Update, TypeOK, Request, NoRequest
  <2>2. row' \in [Id -> Schedule \cup {None}] /\ stale' \subseteq Id
    BY <1>6, <2>1 DEF Update, TypeOK
  <2>3. rearmed' \subseteq Occurrence
    BY <1>6, <2>1, RearmType DEF Update, TypeOK
  <2> QED BY <1>6, <2>1, <2>2, <2>3 DEF Update, Answered, TypeOK, thread, Request
<1>7. ASSUME NEW p \in Person, Toggle(p) PROVE TypeOK'
  <2>1. req[p].new \in Schedule /\ req[p].id \in Id
    BY <1>7 DEF Toggle, TypeOK, Request, NoRequest
  <2>2. row' \in [Id -> Schedule \cup {None}]
    <3>1. CASE row[req[p].id] = None
      BY <1>7, <3>1 DEF Toggle, TypeOK
    <3>2. CASE row[req[p].id] # None
      <4> DEFINE old == row[req[p].id]
                 upd == [old EXCEPT !.on = req[p].new.on, !.next = req[p].new.next]
      <4>1. old \in Schedule
        BY <2>1, <3>2 DEF TypeOK
      <4>2. upd \in Schedule
        BY <2>1, <4>1 DEF Schedule
      <4>3. row' = [row EXCEPT ![req[p].id] = upd]
        BY <1>7, <3>2 DEF Toggle
      <4> HIDE DEF upd
      <4> QED BY <2>1, <4>2, <4>3 DEF TypeOK
    <3> QED BY <3>1, <3>2
  <2>3. rearmed' \subseteq Occurrence /\ stale' \subseteq Id
    BY <1>7, <2>1, RearmType DEF Toggle, TypeOK
  <2> QED BY <1>7, <2>1, <2>2, <2>3 DEF Toggle, Answered, TypeOK, thread, Request
<1>8. ASSUME NEW p \in Person, Delete(p) PROVE TypeOK'
  BY <1>8 DEF Delete, Answered, TypeOK, thread, Request
<1> QED
  BY <1>1, <1>2, <1>3, <1>4, <1>5, <1>6, <1>7, <1>8 DEF WebStep

LEMMA TypeStep ==
  ASSUME TypeOK, RoundOK, [Next]_vars
  PROVE  TypeOK'
<1>1. ASSUME Tick PROVE TypeOK'
  BY <1>1, TimeAssumption DEF Tick, TypeOK, thread, web, history
<1>2. ASSUME Start PROVE TypeOK'
  BY <1>2, LimitsAssumption DEF Start, TypeOK, web, history
<1>3. ASSUME Stop PROVE TypeOK'
  BY <1>3, LimitsAssumption DEF Stop, TypeOK, history, Request
<1>4. ASSUME UNCHANGED vars PROVE TypeOK'
  BY <1>4 DEF vars, TypeOK, thread, web, history
<1> QED
  BY <1>1, <1>2, <1>3, <1>4, ThreadTypeStep, WebTypeStep DEF Next

----------------------------------------------------------------------------
(* Ids.                                                                    *)

LEMMA RowDomain ==
  ASSUME TypeOK, NEW d \in Copy, StoreNext(d), NEW s \in Id, row'[s] # None
  PROVE  row[s] # None
BY DEF StoreNext, TypeOK

LEMMA IdsStep ==
  ASSUME TypeOK, IdsOK, RoundOK, [Next]_vars
  PROVE  IdsOK'
<1>0. nextId \in Int
  BY LimitsAssumption DEF TypeOK
<1>1. ASSUME ReadNow \/ RoundEnds \/ RoundRaises \/ StoreRaises \/ SendRaises \/ Tick \/ Start
      PROVE  IdsOK'
  BY <1>1 DEF ReadNow, RoundEnds, RoundRaises, StoreRaises, SendRaises, Tick, Start,
              IdsOK, Copies, web, thread, history
<1>2. ASSUME Select PROVE IdsOK'
  BY <1>2 DEF Select, IsDue, IdsOK, Copies, web, history
<1>3. ASSUME Send PROVE IdsOK'
  <2>1. sending.id < nextId
    BY <1>3 DEF Send, IdsOK, RoundOK, Copies
  <2> QED BY <1>3, <2>1 DEF Send, IdsOK, Copies, web
<1>4. ASSUME NEW d \in due, Advance(d) PROVE IdsOK'
  <2>1. d \in Copy /\ d \in Copies
    BY DEF TypeOK, Copies
  <2>2. \A s \in Id : row'[s] # None => row[s] # None
    BY <1>4, <2>1, RowDomain DEF Advance
  <2>3. Copies' \subseteq Copies
    BY <1>4 DEF Advance, Copies
  <2> QED BY <1>4, <2>2, <2>3 DEF Advance, IdsOK, web
<1>5. ASSUME NEW p \in Person, NEW request \in Request, Ask(p, request),
             request.op \in {"update", "toggle", "delete"} => request.id < nextId
      PROVE  IdsOK'
  BY <1>5 DEF Ask, IdsOK, Copies, TypeOK, thread, history
<1>6. ASSUME WebStep PROVE IdsOK'
  <2>1. ASSUME NEW p \in Person, NEW plan \in Plans, NEW on \in BOOLEAN, AskCreate(p, plan, on)
        PROVE  IdsOK'
    BY <2>1 DEF AskCreate, Ask, IdsOK, Copies, TypeOK, thread, history
  <2>2. ASSUME NEW p \in Person, NEW plan \in Plans, NEW on \in BOOLEAN, NEW s \in Id,
               AskUpdate(p, s, plan, on)
        PROVE  IdsOK'
    <3>1. s < nextId
      BY <2>2 DEF AskUpdate, MayEdit, IdsOK
    <3> QED BY <2>2, <3>1 DEF AskUpdate, Ask, IdsOK, Copies, TypeOK, thread, history
  <2>3. ASSUME NEW p \in Person, NEW on \in BOOLEAN, NEW s \in Id, AskToggle(p, s, on)
        PROVE  IdsOK'
    <3>1. s < nextId
      BY <2>3 DEF AskToggle, MayEdit, IdsOK
    <3> QED BY <2>3, <3>1 DEF AskToggle, Ask, IdsOK, Copies, TypeOK, thread, history
  <2>4. ASSUME NEW p \in Person, NEW s \in Id, AskDelete(p, s) PROVE IdsOK'
    <3>1. s < nextId
      BY <2>4 DEF AskDelete, MayEdit, IdsOK
    <3> QED BY <2>4, <3>1 DEF AskDelete, Ask, IdsOK, Copies, TypeOK, thread, history
  <2>5. ASSUME NEW p \in Person, Create(p) PROVE IdsOK'
    <3>1. /\ \A s \in Id : row'[s] # None => row[s] # None \/ s = nextId
          /\ req' = [req EXCEPT ![p] = NoRequest] /\ nextId' = nextId + 1
          /\ Copies' = Copies /\ sent' = sent
      BY <2>5 DEF Create, Answered, Copies, TypeOK, thread
    <3>2. /\ \A s \in Id : s \in Int
          /\ \A o \in sent : o[1] \in Int
          /\ \A d \in Copies : d.id \in Int
          /\ \A q \in Person : req[q].op \in {"update", "toggle", "delete"} => req[q].id \in Int
      BY LimitsAssumption DEF TypeOK, Id, Occurrence, Copies, Copy, Request, NoRequest
    <3>3. \A s \in Id : row'[s] # None => s < nextId'
      BY <1>0, <3>1, <3>2 DEF IdsOK
    <3>4. \A q \in Person : req'[q].op \in {"update", "toggle", "delete"} => req'[q].id < nextId'
      BY <1>0, <3>1, <3>2 DEF IdsOK, TypeOK, NoRequest
    <3>5. (\A o \in sent : o[1] < nextId') /\ (\A d \in Copies : d.id < nextId')
      BY <1>0, <3>1, <3>2 DEF IdsOK
    <3> QED BY <3>1, <3>3, <3>4, <3>5 DEF IdsOK
  <2>6. ASSUME NEW p \in Person, Update(p) \/ Toggle(p) \/ Delete(p) PROVE IdsOK'
    <3>1. \A s \in Id : row'[s] # None => row[s] # None
      BY <2>6 DEF Update, Toggle, Delete, TypeOK
    <3>2. /\ req' = [req EXCEPT ![p] = NoRequest] /\ nextId' = nextId
          /\ Copies' = Copies /\ sent' = sent
      BY <2>6 DEF Update, Toggle, Delete, Answered, Copies, thread
    <3> QED BY <3>1, <3>2 DEF IdsOK, NoRequest, TypeOK
  <2> QED BY <1>6, <2>1, <2>2, <2>3, <2>4, <2>5, <2>6 DEF WebStep
<1>7. ASSUME Stop PROVE IdsOK'
  BY <1>7 DEF Stop, IdsOK, Copies, NoRequest, history
<1>8. ASSUME UNCHANGED vars PROVE IdsOK'
  BY <1>8 DEF vars, IdsOK, Copies, web, thread, history
<1> QED
  BY <1>1, <1>2, <1>3, <1>4, <1>6, <1>7, <1>8 DEF Next, SchedulerStep, SchedulerFault

----------------------------------------------------------------------------
(* A round.                                                                *)

LEMMA RoundStep ==
  ASSUME TypeOK, RoundOK, [Next]_vars
  PROVE  RoundOK'
<1>0. clock \in Int
  BY TimeAssumption DEF TypeOK
<1>1. ASSUME ReadNow \/ RoundEnds \/ RoundRaises \/ StoreRaises \/ Start \/ Stop PROVE RoundOK'
  BY <1>1 DEF ReadNow, RoundEnds, RoundRaises, StoreRaises, Start, Stop, RoundOK, Copies
<1>2. ASSUME Select PROVE RoundOK'
  <2>1. due' = {[id |-> s, row |-> row[s]] : s \in {x \in Id : IsDue(x)}}
        /\ sending' = None /\ pc' = "round" /\ clock' = clock
    BY <1>2 DEF Select, RoundOK
  <2> QED BY <2>1 DEF RoundOK, Copies, IsDue
<1>3. ASSUME Send \/ SendRaises PROVE RoundOK'
  BY <1>3 DEF Send, SendRaises, RoundOK, Copies
<1>4. ASSUME NEW d \in due, Advance(d) PROVE RoundOK'
  <2>1. due' = due \ {d} /\ clock' = clock /\ pc = "round" /\ sending = None
    BY <1>4 DEF Advance, RoundOK
  <2>2. \/ sending' = d /\ pc' = "send"
        \/ sending' = sending /\ pc' = pc
    BY <1>4 DEF Advance
  <2>3. d # None
    BY NoRecordAssumption DEF TypeOK
  <2>4. Copies' \subseteq Copies
    BY <2>1, <2>2 DEF Copies
  <2> QED BY <2>1, <2>2, <2>3, <2>4 DEF RoundOK
<1>5. ASSUME WebStep PROVE RoundOK'
  <2>1. UNCHANGED <<thread, clock>>
    BY <1>5 DEF WebStep, AskCreate, AskUpdate, AskToggle, AskDelete, Ask,
                Create, Update, Toggle, Delete, Answered
  <2> QED BY <2>1 DEF RoundOK, Copies, thread
<1>6. ASSUME Tick PROVE RoundOK'
  <2>1. UNCHANGED thread /\ clock' = clock + 1
    BY <1>6 DEF Tick
  <2>2. \A d \in Copies : d.row.next \in Int
    BY DEF RoundOK, Copies, TypeOK, Copy, Schedule
  <2>3. \A d \in Copies : d.row.next <= clock + 1
    BY <1>0, <2>2 DEF RoundOK
  <2> QED BY <2>1, <2>3 DEF RoundOK, Copies, thread
<1>7. ASSUME UNCHANGED vars PROVE RoundOK'
  BY <1>7 DEF vars, RoundOK, Copies, thread
<1> QED
  BY <1>1, <1>2, <1>3, <1>4, <1>5, <1>6, <1>7 DEF Next, SchedulerStep, SchedulerFault

----------------------------------------------------------------------------
(* What has been announced.                                                *)

(* A later time is passed too, and nothing that is rearmed is forgotten.   *)
LEMMA PassedLater ==
  ASSUME TypeOK, NEW s, NEW t \in Int, NEW u \in Int, t < u, Passed(s, t)
  PROVE  Passed(s, u)
<1>1. /\ \A r \in rearmed : r[2] \in Int
      /\ \A o \in sent : o[2] \in Int
  BY DEF TypeOK, Occurrence
<1> QED BY <1>1 DEF Passed, Rearmed

LEMMA PassedKept ==
  ASSUME NEW s, NEW t, sent' = sent, rearmed \subseteq rearmed'
  PROVE  /\ Rearmed(s, t) => Rearmed(s, t)'
         /\ Passed(s, t) => Passed(s, t)'
BY DEF Passed, Rearmed

(* The rows' half of SentOK, for one row.                                  *)
RowSentOK(s) ==
  row[s] # None /\ row[s].on /\ row[s].next # None
    => /\ Passed(s, row[s].next)
       /\ sending # None /\ sending.id = s
            => sending.row.next < row[s].next \/ Rearmed(s, row[s].next)

(* A step that leaves the table alone and starts no announcement.          *)
LEMMA SentQuiet ==
  ASSUME SentOK, row' = row, sent' = sent, rearmed' = rearmed, clock' = clock,
         sending' = sending \/ sending' = None, Copies' \subseteq Copies
  PROVE  SentOK'
<1>1. \A s, t : Passed(s, t)' <=> Passed(s, t)
  BY DEF Passed, Rearmed
<1>2. \A s, t : Rearmed(s, t)' <=> Rearmed(s, t)
  BY DEF Rearmed
<1> QED BY <1>1, <1>2 DEF SentOK

(* A row that a person has written.                                        *)
LEMMA WrittenRow ==
  ASSUME TypeOK, RoundOK, SentOK, NEW s \in Id, NEW new \in Schedule,
         Rearm(s, new), UNCHANGED <<sent, sending>>,
         row'[s] # None, row'[s].on = new.on, row'[s].next = new.next
  PROVE  RowSentOK(s)'
<1> SUFFICES ASSUME new.on, new.next # None
             PROVE  /\ Passed(s, new.next)'
                    /\ sending # None => sending.row.next < new.next \/ Rearmed(s, new.next)'
  BY DEF RowSentOK
<1>1. new.next \in Int /\ clock \in Int
  BY TimeAssumption DEF Schedule, TypeOK
<1>2. CASE new.next <= clock
  <2>1. <<s, new.next>> \in rearmed'
    BY <1>2 DEF Rearm
  <2>2. Rearmed(s, new.next)'
    BY <1>1, <2>1 DEF Rearmed
  <2> QED BY <2>2 DEF Passed
<1>3. CASE ~ (new.next <= clock)
  <2>1. \A o \in sent : o[2] < new.next
    BY <1>1, <1>3 DEF SentOK, TypeOK, Occurrence
  <2>2. sending # None => sending.row.next \in Int /\ sending.row.next <= clock
    BY DEF RoundOK, Copies, TypeOK, Copy, Schedule
  <2>3. sending # None => sending.row.next < new.next
    BY <1>1, <1>3, <2>2
  <2> QED BY <2>1, <2>3 DEF Passed
<1> QED BY <1>2, <1>3

LEMMA SentAdvance ==
  ASSUME TypeOK, RoundOK, SentOK, NEW d \in due, Advance(d)
  PROVE  SentOK'
<1>1. /\ d \in Copy /\ d \in Copies /\ d.row.next \in Int
      /\ sending = None /\ (sending' = d \/ sending' = None)
      /\ sent' = sent /\ rearmed' = rearmed /\ clock' = clock
  BY DEF Advance, RoundOK, Copies, TypeOK, Copy, Schedule
<1>2. Copies' \subseteq Copies
  BY <1>1 DEF Advance, Copies
<1>3. \A s, t : Passed(s, t) => Passed(s, t)'
  BY <1>1, PassedKept
<1>4. ASSUME NEW s \in Id, s # d.id PROVE RowSentOK(s)'
  <2>1. row'[s] = row[s]
    BY <1>1, <1>4 DEF Advance, StoreNext, TypeOK
  <2> QED BY <1>1, <1>3, <1>4, <2>1 DEF SentOK, RowSentOK
<1>5. RowSentOK(d.id)'
  <2>1. CASE row[d.id] = None
    BY <2>1 DEF Advance, StoreNext, RowSentOK
  <2>2. CASE row[d.id] # None
    <3>1. PICK f : f = Following(d)
      OBVIOUS
    <3>2. row' = [row EXCEPT ![d.id] = [row[d.id] EXCEPT !.next = f, !.on = (f # None)]]
      BY <2>2, <3>1 DEF Advance, StoreNext
    <3>3. d.id \in Id /\ row[d.id] \in Schedule
      BY <1>1, <2>2 DEF TypeOK, Copy
    <3>4. row'[d.id].next = f /\ row'[d.id].on = (f # None)
      BY <3>2, <3>3 DEF TypeOK, Schedule
    <3>5. CASE f = None
      BY <3>4, <3>5 DEF RowSentOK
    <3>6. CASE f # None
      <4>1. f \in Int /\ d.row.next < f
        BY <1>1, <3>1, <3>6, FollowingLater, NoneAssumption
      <4>2. Passed(d.id, d.row.next)
        BY <1>1 DEF SentOK
      <4>3. Passed(d.id, f)
        BY <1>1, <4>1, <4>2, PassedLater
      <4>4. Passed(d.id, f)'
        BY <1>3, <4>3
      <4> QED BY <1>1, <3>4, <4>1, <4>4 DEF RowSentOK
    <3> QED BY <3>5, <3>6
  <2> QED BY <2>1, <2>2
<1>6. \A s \in Id : RowSentOK(s)'
  BY <1>4, <1>5
<1>7. \A e \in Copies' : Passed(e.id, e.row.next)'
  BY <1>2, <1>3 DEF SentOK
<1> QED BY <1>1, <1>6, <1>7 DEF SentOK, RowSentOK

LEMMA SentSend ==
  ASSUME TypeOK, RoundOK, SentOK, Send
  PROVE  SentOK'
<1> DEFINE o == <<sending.id, sending.row.next>>
<1>1. /\ sending # None /\ sending \in Copies /\ sending.row.next <= clock
      /\ sent' = sent \cup {o} /\ rearmed' = rearmed
      /\ row' = row /\ clock' = clock /\ sending' = None /\ due' = due
  BY DEF Send, RoundOK, Copies
<1>2. \A x \in sent' : x[2] <= clock'
  BY <1>1 DEF SentOK
<1>3. \A s, t : Rearmed(s, t) => Rearmed(s, t)'
  BY <1>1 DEF Rearmed
<1>4. \A s, t : Passed(s, t) /\ (sending.id = s => sending.row.next < t \/ Rearmed(s, t))
                => Passed(s, t)'
  BY <1>1, <1>3 DEF Passed
<1>5. \A s \in Id : RowSentOK(s)'
  BY <1>1, <1>4 DEF SentOK, RowSentOK
<1>6. \A d \in due : d.id # sending.id
  BY <1>1 DEF RoundOK, Copies
<1>7. \A d \in Copies' : Passed(d.id, d.row.next)'
  BY <1>1, <1>4, <1>6 DEF SentOK, Copies
<1> QED BY <1>2, <1>5, <1>7 DEF SentOK, RowSentOK

LEMMA SentWeb ==
  ASSUME TypeOK, IdsOK, RoundOK, SentOK, WebStep
  PROVE  SentOK'
<1>1. /\ UNCHANGED <<due, sending, sent, clock>>
      /\ rearmed \subseteq rearmed'
      /\ Copies' = Copies
  BY DEF WebStep, AskCreate, AskUpdate, AskToggle, AskDelete, Ask, Create, Update, Toggle,
         Delete, Answered, Rearm, thread, history, Copies
<1>2. \A s, t : (Passed(s, t) => Passed(s, t)') /\ (Rearmed(s, t) => Rearmed(s, t)')
  BY <1>1, PassedKept
<1>3. ASSUME NEW s \in Id, row'[s] = row[s] \/ row'[s] = None PROVE RowSentOK(s)'
  BY <1>1, <1>2, <1>3 DEF SentOK, RowSentOK
<1>4. \A s \in Id : RowSentOK(s)'
  <2>1. CASE row' = row
    BY <1>3, <2>1
  <2>2. ASSUME NEW p \in Person, Create(p), NEW s \in Id PROVE RowSentOK(s)'
    <3>1. CASE s = nextId
      <4>1. \A x \in sent : x[1] # s
        BY <3>1, LimitsAssumption DEF IdsOK, TypeOK, Occurrence, Id
      <4>2. sending # None => sending.id # s
        BY <3>1, LimitsAssumption DEF IdsOK, TypeOK, Copies, Copy, Id
      <4> QED BY <1>1, <4>1, <4>2 DEF RowSentOK, Passed
    <3>2. CASE s # nextId
      BY <1>3, <2>2, <3>2 DEF Create, TypeOK
    <3> QED BY <3>1, <3>2
  <2>3. ASSUME NEW p \in Person, Update(p), NEW s \in Id PROVE RowSentOK(s)'
    <3>1. req[p].new \in Schedule /\ req[p].id \in Id
      BY <2>3 DEF Update, TypeOK, Request, NoRequest
    <3>2. CASE s = req[p].id /\ row[s] # None
      <4>1. row'[s] = req[p].new /\ Rearm(s, req[p].new)
        BY <2>3, <3>2 DEF Update, TypeOK
      <4>2. req[p].new # None
        BY <3>1, NoRecordAssumption
      <4> QED BY <1>1, <3>1, <4>1, <4>2, WrittenRow
    <3>3. CASE ~ (s = req[p].id /\ row[s] # None)
      BY <1>3, <2>3, <3>3 DEF Update, TypeOK
    <3> QED BY <3>2, <3>3
  <2>4. ASSUME NEW p \in Person, Toggle(p), NEW s \in Id PROVE RowSentOK(s)'
    <3>1. req[p].new \in Schedule /\ req[p].id \in Id
      BY <2>4 DEF Toggle, TypeOK, Request, NoRequest
    <3>2. CASE s = req[p].id /\ row[s] # None
      <4>1. row[s] \in Schedule
        BY <3>2 DEF TypeOK
      <4>2. row'[s].on = req[p].new.on /\ row'[s].next = req[p].new.next
            /\ Rearm(s, req[p].new)
        BY <2>4, <3>1, <3>2, <4>1 DEF Toggle, TypeOK, Schedule
      <4>3. row'[s] # None \/ RowSentOK(s)'
        BY DEF RowSentOK
      <4> QED BY <1>1, <3>1, <4>2, <4>3, WrittenRow
    <3>3. CASE ~ (s = req[p].id /\ row[s] # None)
      BY <1>3, <2>4, <3>3 DEF Toggle, TypeOK
    <3> QED BY <3>2, <3>3
  <2>5. ASSUME NEW p \in Person, Delete(p), NEW s \in Id PROVE RowSentOK(s)'
    BY <1>3, <2>5 DEF Delete, TypeOK
  <2> QED
    BY <2>1, <2>2, <2>3, <2>4, <2>5
       DEF WebStep, AskCreate, AskUpdate, AskToggle, AskDelete, Ask
<1>5. (\A x \in sent' : x[2] <= clock') /\ (\A d \in Copies' : Passed(d.id, d.row.next)')
  BY <1>1, <1>2 DEF SentOK
<1> QED BY <1>4, <1>5 DEF SentOK, RowSentOK

LEMMA SentStep ==
  ASSUME TypeOK, IdsOK, RoundOK, SentOK, [Next]_vars
  PROVE  SentOK'
<1>1. ASSUME ReadNow \/ RoundEnds \/ RoundRaises \/ StoreRaises \/ SendRaises \/ Start \/ Stop
      PROVE  SentOK'
  BY <1>1, SentQuiet DEF ReadNow, RoundEnds, RoundRaises, StoreRaises, SendRaises, Start, Stop,
                         Copies, web, thread, history
<1>2. ASSUME Select PROVE SentOK'
  <2>1. /\ due' = {[id |-> s, row |-> row[s]] : s \in {x \in Id : IsDue(x)}}
        /\ sending' = None /\ row' = row /\ clock' = clock
        /\ sent' = sent /\ rearmed' = rearmed /\ sending = None
    BY <1>2 DEF Select, RoundOK, history
  <2>2. \A s, t : (Passed(s, t)' <=> Passed(s, t)) /\ (Rearmed(s, t)' <=> Rearmed(s, t))
    BY <2>1 DEF Passed, Rearmed
  <2> QED BY <2>1, <2>2 DEF SentOK, Copies, IsDue
<1>3. ASSUME NEW d \in due, Advance(d) PROVE SentOK'
  BY <1>3, SentAdvance
<1>4. ASSUME Tick PROVE SentOK'
  <2>1. /\ UNCHANGED <<row, sending, due, sent, rearmed>> /\ clock' = clock + 1
    BY <1>4 DEF Tick, thread, history
  <2>2. \A s, t : (Passed(s, t)' <=> Passed(s, t)) /\ (Rearmed(s, t)' <=> Rearmed(s, t))
    BY <2>1 DEF Passed, Rearmed
  <2>3. \A o \in sent : o[2] <= clock + 1
    BY TimeAssumption DEF SentOK, TypeOK, Occurrence
  <2> QED BY <2>1, <2>2, <2>3 DEF SentOK, Copies
<1>5. ASSUME UNCHANGED vars PROVE SentOK'
  BY <1>5, SentQuiet DEF vars, Copies, web, thread, history
<1> QED
  BY <1>1, <1>2, <1>3, <1>4, <1>5, SentSend, SentWeb DEF Next, SchedulerStep, SchedulerFault

----------------------------------------------------------------------------
(* At most once.                                                           *)

LEMMA OnceStep ==
  ASSUME TypeOK, RoundOK, SentOK, AtMostOnce, [Next]_vars
  PROVE  AtMostOnce'
<1>1. CASE Send
  <2> DEFINE o == <<sending.id, sending.row.next>>
  <2>1. /\ sending \in Copies /\ rearmed' = rearmed
        /\ repeated' = IF o \in sent THEN repeated \cup {o} ELSE repeated
    BY <1>1 DEF Send, RoundOK, Copies
  <2>2. sending.row.next \in Int
    BY <2>1, <1>1 DEF Send, RoundOK, TypeOK, Copies, Copy, Schedule
  <2>3. o \in sent => Rearmed(o[1], o[2])
    <3>1. Passed(o[1], o[2])
      BY <2>1 DEF SentOK
    <3>2. ~ (o[2] < o[2])
      BY <2>2
    <3> HIDE DEF o
    <3> QED BY <3>1, <3>2 DEF Passed
  <2>4. \A s, t : Rearmed(s, t)' <=> Rearmed(s, t)
    BY <2>1 DEF Rearmed
  <2> HIDE DEF o
  <2> QED BY <2>1, <2>3, <2>4 DEF AtMostOnce
<1>2. CASE ~ Send
  <2>1. repeated' = repeated /\ rearmed \subseteq rearmed'
    BY <1>2 DEF Next, vars, history, SchedulerStep, SchedulerFault, ReadNow, Select, RoundEnds,
                RoundRaises, Advance, StoreRaises, SendRaises, Tick, Start, Stop,
                WebStep, AskCreate, AskUpdate, AskToggle, AskDelete, Ask, Create, Update,
                Toggle, Delete, Answered, Rearm
  <2> QED BY <2>1 DEF AtMostOnce, Rearmed
<1> QED BY <1>1, <1>2

----------------------------------------------------------------------------
(* The theorems.                                                           *)

LEMMA OnceInit == Init => OnceInv
<1> SUFFICES ASSUME Init PROVE OnceInv
  OBVIOUS
<1>1. Copies = {} /\ sending = None /\ due = {} /\ sent = {} /\ repeated = {} /\ pc = "off"
  BY DEF Init, Copies
<1>2. \A s \in Id : row[s] = None
  BY DEF Init
<1>3. \A p \in Person : req[p].op = "none"
  BY DEF Init, NoRequest
<1> QED
  BY <1>1, <1>2, <1>3, TypeInit DEF OnceInv, IdsOK, RoundOK, SentOK, AtMostOnce

LEMMA OnceInvStep == OnceInv /\ [Next]_vars => OnceInv'
BY TypeStep, IdsStep, RoundStep, SentStep, OnceStep DEF OnceInv

(* The invariant behind AtMostOnce, in every behaviour.                    *)
THEOREM OnceInvariance == Spec => []OnceInv
BY OnceInit, OnceInvStep, PTL DEF Spec

(* Every variable keeps its type.                                          *)
THEOREM ScheduleTypes == Spec => []TypeOK
<1>1. OnceInv => TypeOK
  BY DEF OnceInv
<1> QED BY <1>1, OnceInvariance, PTL

(* "A slow queue can never cause the same schedule to fire twice"          *)
(* (app/main.py:626), nor can a late round, an error or a restart: only a  *)
(* handler that stores an occurrence which has come already can.           *)
THEOREM OccurrencesOnce == Spec => []AtMostOnce
<1>1. OnceInv => AtMostOnce
  BY DEF OnceInv
<1> QED BY <1>1, OnceInvariance, PTL

----------------------------------------------------------------------------
(* School time is kept.  What was worked out for a plan is asked for by    *)
(* it: in the table, unless the plan was edited meanwhile, and in what a   *)
(* handler is about to write.                                              *)

Planned(plan, next) == next = None \/ OnPlan(home, plan, next)

RowPlanned(s) == row[s] # None /\ s \notin stale => Planned(row[s].plan, row[s].next)

RequestPlanned(p) ==
  /\ req[p].op \in {"create", "update"} => Planned(req[p].new.plan, req[p].new.next)
  /\ req[p].op = "toggle" => Planned(req[p].seen.plan, req[p].new.next)

PlannedOK ==
  /\ \A s \in Id : RowPlanned(s)
  /\ \A p \in Person : RequestPlanned(p)

LEMMA AskedPlanned ==
  ASSUME TypeOK, \A zone \in Zones : MidnightKept(zone), NEW plan \in Plans, NEW after \in Int
  PROVE  Planned(plan, NextRun(plan, after))
<1>1. home \in Zones /\ IsZone(home) /\ IsPlan(plan)
  BY PlanFacts DEF TypeOK
<1>2. Planned(plan, NextOccurrence(home, plan, after))
  BY <1>1, NextOccurrenceOnPlan DEF Planned
<1>3. Planned(plan, None)
  BY DEF Planned
<1> QED BY <1>2, <1>3 DEF NextRun

LEMMA FollowingPlanned ==
  ASSUME TypeOK, \A zone \in Zones : MidnightKept(zone), NEW d \in Copy, d.row.next # None
  PROVE  Planned(d.row.plan, Following(d))
<1>1. d.row.plan \in Plans /\ d.row.next \in Int
  BY DEF Copy, Schedule
<1>2. Planned(d.row.plan, NextRun(d.row.plan, d.row.next))
  BY <1>1, AskedPlanned
<1> QED BY <1>2 DEF Following, Planned

(* The school does not move.                                               *)
LEMMA PlannedStays ==
  ASSUME home' = home, NEW plan, NEW next, Planned(plan, next)
  PROVE  Planned(plan, next)'
BY DEF Planned

LEMMA SameRowPlanned ==
  ASSUME home' = home, NEW s, RowPlanned(s), row'[s] = row[s], s \in stale => s \in stale'
  PROVE  RowPlanned(s)'
BY DEF RowPlanned, Planned

LEMMA SameRequestPlanned ==
  ASSUME home' = home, NEW p, RequestPlanned(p), req'[p] = req[p]
  PROVE  RequestPlanned(p)'
BY DEF RequestPlanned, Planned

LEMMA AnsweredPlanned ==
  ASSUME TypeOK, PlannedOK, NEW q \in Person, Answered(q), NEW p \in Person
  PROVE  RequestPlanned(p)'
<1>1. home' = home /\ req' = [req EXCEPT ![q] = NoRequest]
  BY DEF Answered
<1>2. CASE p = q
  BY <1>1, <1>2 DEF RequestPlanned, NoRequest, TypeOK
<1>3. CASE p # q
  <2>1. req'[p] = req[p]
    BY <1>1, <1>3 DEF TypeOK
  <2> QED BY <1>1, <2>1, SameRequestPlanned DEF PlannedOK
<1> QED BY <1>2, <1>3

LEMMA AskingPlanned ==
  ASSUME TypeOK, PlannedOK, NEW q \in Person, NEW request, Ask(q, request), NEW plan, NEW next,
         Planned(plan, next),
         request.op \in {"create", "update"} => request.new.plan = plan /\ request.new.next = next,
         request.op = "toggle" => request.seen.plan = plan /\ request.new.next = next
  PROVE  PlannedOK'
<1>1. UNCHANGED <<home, row, stale>> /\ req' = [req EXCEPT ![q] = request]
  BY DEF Ask, history
<1>2. \A s \in Id : RowPlanned(s)'
  BY <1>1, SameRowPlanned DEF PlannedOK
<1>3. ASSUME NEW p \in Person, p # q PROVE RequestPlanned(p)'
  <2>1. req'[p] = req[p]
    BY <1>1, <1>3 DEF TypeOK
  <2> QED BY <1>1, <2>1, SameRequestPlanned DEF PlannedOK
<1>4. RequestPlanned(q)'
  <2>1. req'[q] = request
    BY <1>1 DEF TypeOK
  <2>2. Planned(plan, next)'
    BY <1>1, PlannedStays
  <2> QED BY <2>1, <2>2 DEF RequestPlanned
<1> QED BY <1>2, <1>3, <1>4 DEF PlannedOK

LEMMA PlannedStep ==
  ASSUME TypeOK, RoundOK, PlannedOK, [Next]_vars, \A zone \in Zones : MidnightKept(zone)
  PROVE  PlannedOK'
<1>1. CASE UNCHANGED <<home, row, req, stale>>
  BY <1>1, SameRowPlanned, SameRequestPlanned DEF PlannedOK
<1>2. ASSUME NEW d \in due, Advance(d) PROVE PlannedOK'
  <2>1. d \in Copy /\ d.row.next # None /\ d.id \in Id
    BY DEF TypeOK, RoundOK, Copies, Copy
  <2>2. StoreNext(d) /\ home' = home /\ req' = req
    BY <1>2 DEF Advance, web
  <2>3. \A p \in Person : RequestPlanned(p)'
    BY <2>2, SameRequestPlanned DEF PlannedOK
  <2>4. ASSUME NEW s \in Id, s # d.id \/ row[d.id] = None PROVE RowPlanned(s)'
    <3>1. row'[s] = row[s] /\ (s \in stale => s \in stale')
      BY <2>1, <2>2, <2>4 DEF StoreNext, TypeOK
    <3> QED BY <2>2, <3>1, SameRowPlanned DEF PlannedOK
  <2>5. ASSUME row[d.id] # None PROVE RowPlanned(d.id)'
    <3>1. PICK f : f = Following(d)
      OBVIOUS
    <3>2. row' = [row EXCEPT ![d.id] = [row[d.id] EXCEPT !.next = f, !.on = (f # None)]]
      BY <2>2, <2>5, <3>1 DEF StoreNext
    <3>3. row[d.id] \in Schedule
      BY <2>1, <2>5 DEF TypeOK
    <3>4. row'[d.id].next = f /\ row'[d.id].plan = row[d.id].plan
      BY <2>1, <3>2, <3>3 DEF TypeOK, Schedule
    <3>5. d.id \notin stale' => row[d.id].plan = d.row.plan
      BY <2>2, <2>5 DEF StoreNext
    <3>6. PICK plan : plan = d.row.plan
      OBVIOUS
    <3>7. Planned(plan, f)'
      BY <2>1, <2>2, <3>1, <3>6, FollowingPlanned, PlannedStays
    <3> QED BY <3>4, <3>5, <3>6, <3>7 DEF RowPlanned
  <2> QED BY <2>1, <2>3, <2>4, <2>5 DEF PlannedOK
<1>3. ASSUME NEW p \in Person, NEW plan \in Plans, NEW on \in BOOLEAN, AskCreate(p, plan, on)
      PROVE  PlannedOK'
  <2>1. PICK next : next = NextRun(plan, clock)
    OBVIOUS
  <2>2. Planned(plan, next)
    BY <2>1, PlanFacts, AskedPlanned
  <2>3. Ask(p, [op |-> "create",
                new |-> [owner |-> p, plan |-> plan, on |-> on, next |-> next]])
    BY <1>3, <2>1 DEF AskCreate
  <2> QED BY <2>2, <2>3, AskingPlanned
<1>4. ASSUME NEW p \in Person, NEW plan \in Plans, NEW on \in BOOLEAN, NEW s \in Id,
             AskUpdate(p, s, plan, on)
      PROVE  PlannedOK'
  <2>1. PICK next : next = NextRun(plan, clock)
    OBVIOUS
  <2>2. Planned(plan, next)
    BY <2>1, PlanFacts, AskedPlanned
  <2>3. Ask(p, [op |-> "update", id |-> s, seen |-> row[s],
                new |-> [owner |-> row[s].owner, plan |-> plan, on |-> on, next |-> next]])
    BY <1>4, <2>1 DEF AskUpdate
  <2> QED BY <2>2, <2>3, AskingPlanned
<1>5. ASSUME NEW p \in Person, NEW on \in BOOLEAN, NEW s \in Id, AskToggle(p, s, on)
      PROVE  PlannedOK'
  <2>1. row[s] \in Schedule
    BY <1>5 DEF AskToggle, MayEdit, TypeOK
  <2>2. PICK old \in Schedule : old = row[s]
    BY <2>1
  <2>3. PICK next : next = IF on THEN NextRun(old.plan, clock) ELSE None
    OBVIOUS
  <2>4. Planned(old.plan, next)
    BY <2>2, <2>3, PlanFacts, AskedPlanned DEF Planned, Schedule
  <2>5. PICK new : new = [old EXCEPT !.on = on, !.next = next]
    OBVIOUS
  <2>6. new.next = next
    BY <2>5 DEF Schedule
  <2>7. Ask(p, [op |-> "toggle", id |-> s, seen |-> old, new |-> new])
    BY <1>5, <2>2, <2>3, <2>5 DEF AskToggle
  <2> QED BY <2>4, <2>6, <2>7, AskingPlanned
<1>6. ASSUME NEW p \in Person, NEW s \in Id, AskDelete(p, s) PROVE PlannedOK'
  BY <1>6, AskingPlanned DEF AskDelete, Planned
<1>7. ASSUME NEW p \in Person, Create(p) PROVE PlannedOK'
  <2>1. req[p].op = "create" /\ Answered(p) /\ home' = home /\ stale' = stale
        /\ nextId \in Id /\ row' = [row EXCEPT ![nextId] = req[p].new]
    BY <1>7 DEF Create, Answered, TypeOK, Id
  <2>2. PICK new : new = req[p].new /\ Planned(new.plan, new.next)
    BY <2>1 DEF PlannedOK, RequestPlanned
  <2>3. ASSUME NEW s \in Id PROVE RowPlanned(s)'
    <3>1. CASE s = nextId
      BY <2>1, <2>2, <3>1, PlannedStays DEF RowPlanned, TypeOK
    <3>2. CASE s # nextId
      <4>1. row'[s] = row[s]
        BY <2>1, <3>2 DEF TypeOK
      <4> QED BY <2>1, <4>1, SameRowPlanned DEF PlannedOK
    <3> QED BY <3>1, <3>2
  <2> QED BY <2>1, <2>3, AnsweredPlanned DEF PlannedOK
<1>8. ASSUME NEW p \in Person, Update(p) \/ Toggle(p) PROVE PlannedOK'
  <2>1. req[p].op \in {"update", "toggle"} /\ Answered(p) /\ home' = home
    BY <1>8 DEF Update, Toggle, Answered
  <2>2. PICK id \in Id, seen \in Schedule, new \in Schedule :
          id = req[p].id /\ seen = req[p].seen /\ new = req[p].new
    BY <2>1 DEF TypeOK, Request, NoRequest
  <2>3. ASSUME NEW s \in Id, s # id \/ row[id] = None PROVE RowPlanned(s)'
    <3>1. row'[s] = row[s] /\ (s \in stale => s \in stale')
      BY <1>8, <2>2, <2>3 DEF Update, Toggle, TypeOK
    <3> QED BY <2>1, <3>1, SameRowPlanned DEF PlannedOK
  <2>4. ASSUME row[id] # None, Update(p) PROVE RowPlanned(id)'
    <3>1. row'[id] = new
      BY <2>2, <2>4 DEF Update, TypeOK
    <3>2. Planned(new.plan, new.next)
      BY <2>2, <2>4 DEF Update, PlannedOK, RequestPlanned
    <3> QED BY <2>1, <3>1, <3>2, PlannedStays DEF RowPlanned
  <2>5. ASSUME row[id] # None, Toggle(p) PROVE RowPlanned(id)'
    <3>1. PICK old \in Schedule : old = row[id]
      BY <2>5 DEF TypeOK
    <3>2. row' = [row EXCEPT ![id] = [old EXCEPT !.on = new.on, !.next = new.next]]
      BY <2>2, <2>5, <3>1 DEF Toggle
    <3>3. row'[id].plan = old.plan /\ row'[id].next = new.next
      BY <3>2 DEF TypeOK, Schedule
    <3>4. id \notin stale' => old.plan = seen.plan
      BY <2>2, <2>5, <3>1 DEF Toggle
    <3>5. Planned(seen.plan, new.next)
      BY <2>2, <2>5 DEF Toggle, PlannedOK, RequestPlanned
    <3>6. Planned(seen.plan, new.next)'
      BY <2>1, <3>5, PlannedStays
    <3> QED BY <3>3, <3>4, <3>6 DEF RowPlanned
  <2> QED BY <1>8, <2>1, <2>3, <2>4, <2>5, AnsweredPlanned DEF PlannedOK
<1>9. ASSUME NEW p \in Person, Delete(p) PROVE PlannedOK'
  <2>1. Answered(p) /\ home' = home /\ stale' = stale
        /\ row' = [row EXCEPT ![req[p].id] = None]
    BY <1>9 DEF Delete, Answered
  <2>2. ASSUME NEW s \in Id PROVE RowPlanned(s)'
    <3>1. row'[s] = None \/ row'[s] = row[s]
      BY <2>1 DEF TypeOK
    <3>2. CASE row'[s] = None
      BY <3>2 DEF RowPlanned
    <3>3. CASE row'[s] = row[s]
      BY <2>1, <3>3, SameRowPlanned DEF PlannedOK
    <3> QED BY <3>1, <3>2, <3>3
  <2> QED BY <2>1, <2>2, AnsweredPlanned DEF PlannedOK
<1>10. CASE Stop
  <2>1. UNCHANGED <<home, row, stale>> /\ req' = [p \in Person |-> NoRequest]
    BY <1>10 DEF Stop, history
  <2>2. \A s \in Id : RowPlanned(s)'
    BY <2>1, SameRowPlanned DEF PlannedOK
  <2>3. \A p \in Person : RequestPlanned(p)'
    BY <2>1 DEF RequestPlanned, NoRequest
  <2> QED BY <2>2, <2>3 DEF PlannedOK
<1>11. CASE ReadNow \/ Select \/ Send \/ RoundEnds \/ RoundRaises \/ SchedulerFault \/ Tick \/ Start
            \/ UNCHANGED vars
  <2>1. UNCHANGED <<home, row, req, stale>>
    BY <1>11 DEF ReadNow, Select, Send, RoundEnds, RoundRaises, SchedulerFault, StoreRaises,
      SendRaises, Tick, Start, vars, web, history
  <2> QED BY <1>1, <2>1
<1> QED
  BY <1>2, <1>3, <1>4, <1>5, <1>6, <1>7, <1>8, <1>9, <1>10, <1>11
     DEF Next, SchedulerStep, WebStep

LEMMA PlannedInit == Init => PlannedOK
BY DEF Init, PlannedOK, RowPlanned, RequestPlanned, NoRequest

(* What is stored for a plan is a day and a time that it asks for.         *)
LEMMA PlannedKeepsTime ==
  ASSUME TypeOK, PlannedOK, \A zone \in Zones : MidnightKept(zone)
  PROVE  SchoolTimeKept
<1> SUFFICES ASSUME NEW s \in Id, row[s] # None, row[s].next # None, s \notin stale
             PROVE  AsPlanned(home, row[s].plan, row[s].next)
  BY DEF SchoolTimeKept
<1>1. row[s].plan \in Plans /\ row[s].next \in Int /\ home \in Zones
  BY DEF TypeOK, Schedule
<1>2. IsZone(home) /\ IsPlan(row[s].plan)
  BY <1>1, PlanFacts
<1>3. OnPlan(home, row[s].plan, row[s].next)
  BY DEF PlannedOK, RowPlanned, Planned
<1> QED BY <1>1, <1>2, <1>3, OnPlanAsPlanned

(* "3:10 PM every day stays 3:10 PM": on both sides of a clock change, for *)
(* every calendar and whoever edits what meanwhile, the next run stored is *)
(* a day and a time the plan asks for, unless the plan was edited while    *)
(* the next run of the old one was worked out (app/schedules.py:160).      *)
THEOREM TimeIsKept ==
  ASSUME \A zone \in Zones : MidnightKept(zone)
  PROVE  Spec => []SchoolTimeKept
<1>1. Init => OnceInv /\ PlannedOK
  BY OnceInit, PlannedInit
<1>2. (OnceInv /\ PlannedOK) /\ [Next]_vars => (OnceInv /\ PlannedOK)'
  BY OnceInvStep, PlannedStep DEF OnceInv
<1>3. OnceInv /\ PlannedOK => SchoolTimeKept
  BY PlannedKeepsTime DEF OnceInv
<1> QED BY <1>1, <1>2, <1>3, PTL DEF Spec

(* The scheduler moves a row of a repeating plan that nobody touched to    *)
(* the next day it asks for, never to the same day again, over no day in   *)
(* between, and switches it off only when the search found none.           *)
LEMMA NextDayStep ==
  ASSUME TypeOK, RoundOK, PlannedOK, [Next]_vars, \A zone \in Zones : MidnightKept(zone),
         NEW d \in due, pc = "round", due' = due \ {d}, row[d.id] = d.row, row'[d.id] # d.row,
         d.row.plan.kind # "once", d.id \notin stale, zoneLoaded
  PROVE  LET plan == d.row.plan
             day  == LocalDay(home, d.row.next)
             next == row'[d.id].next
         IN IF next = None
            THEN DaysBetween(plan, day, day + MaxSearchDays) = {}
            ELSE /\ day < LocalDay(home, next)
                 /\ DaysBetween(plan, day, LocalDay(home, next)) = {}
<1>1. Advance(d)
  <2>1. ASSUME NEW e \in due, Advance(e) PROVE Advance(d)
    <3>1. due' = due \ {e}
      BY <2>1 DEF Advance
    <3>2. e = d
      BY <3>1
    <3> QED BY <2>1, <3>2
  <2>2. ~ (row' = row) /\ ~ (due' = due)
    OBVIOUS
  <2> QED
    BY <2>1, <2>2
       DEF Next, vars, thread, web, history, SchedulerStep, SchedulerFault, ReadNow, Select, Send,
           RoundEnds, RoundRaises, StoreRaises, SendRaises, Tick, Start, Stop, WebStep,
           AskCreate, AskUpdate, AskToggle, AskDelete, Ask, Create, Update, Toggle, Delete,
           Answered
<1>2. /\ d \in Copy /\ d.id \in Id /\ d.row \in Schedule /\ d.row # None
      /\ d.row.next \in Int /\ d.row.plan \in Plans
  BY NoRecordAssumption DEF TypeOK, RoundOK, Copies, Copy, Schedule
<1>3. PICK plan \in Plans, t \in Int : plan = d.row.plan /\ t = d.row.next
  BY <1>2
<1>4. OnPlan(home, plan, t)
  BY <1>2, <1>3, NoneAssumption DEF PlannedOK, RowPlanned, Planned
<1>5. PICK next : next = NextOccurrence(home, plan, t)
  OBVIOUS
<1>6. row'[d.id].next = next
  <2>1. Following(d) = next
    BY <1>3, <1>5 DEF Following, NextRun
  <2>2. row' = [row EXCEPT ![d.id] = [row[d.id] EXCEPT !.next = next, !.on = (next # None)]]
    BY <1>1, <1>2, <2>1 DEF Advance, StoreNext
  <2> QED BY <1>2, <2>2 DEF TypeOK, Schedule
<1>7. IsZone(home) /\ IsPlan(plan) /\ MidnightKept(home)
  BY PlanFacts DEF TypeOK
<1>8. PICK day : day = LocalDay(home, t)
  OBVIOUS
<1>9. IF next = None
      THEN DaysBetween(plan, day, day + MaxSearchDays) = {}
      ELSE /\ day < LocalDay(home, next)
           /\ DaysBetween(plan, day, LocalDay(home, next)) = {}
  BY <1>3, <1>4, <1>5, <1>7, <1>8, NextDayOfPlan
<1> QED BY <1>3, <1>6, <1>8, <1>9

(* Each day the plan asks for gets its turn, over clock changes, terms and *)
(* weekends, unless the row's next run was worked out from an old plan or  *)
(* the process has no zone (app/schedules.py:190).                         *)
THEOREM EachDayHasItsTurn ==
  ASSUME \A zone \in Zones : MidnightKept(zone)
  PROVE  Spec => OneEachDay
<1> DEFINE A ==
       \A d \in due :
         (/\ pc = "round" /\ due' = due \ {d}
          /\ row[d.id] = d.row /\ row'[d.id] # d.row
          /\ d.row.plan.kind # "once" /\ d.id \notin stale /\ zoneLoaded)
         => LET plan == d.row.plan
                day  == LocalDay(home, d.row.next)
                next == row'[d.id].next
            IN IF next = None
               THEN DaysBetween(plan, day, day + MaxSearchDays) = {}
               ELSE /\ day < LocalDay(home, next)
                    /\ DaysBetween(plan, day, LocalDay(home, next)) = {}
<1>1. Init => OnceInv /\ PlannedOK
  BY OnceInit, PlannedInit
<1>2. (OnceInv /\ PlannedOK) /\ [Next]_vars => (OnceInv /\ PlannedOK)'
  BY OnceInvStep, PlannedStep DEF OnceInv
<1>3. OnceInv /\ PlannedOK /\ [Next]_vars => [A]_vars
  <2> SUFFICES ASSUME OnceInv, PlannedOK, [Next]_vars PROVE A
    OBVIOUS
  <2>1. TypeOK /\ RoundOK
    BY DEF OnceInv
  <2> QED BY <2>1, NextDayStep
<1> QED BY <1>1, <1>2, <1>3, PTL DEF Spec, OneEachDay
=============================================================================
