----------------------------- MODULE Schedules -----------------------------
(***************************************************************************)
(* Announcements on a timetable: the schedules table of app/db.py, the     *)
(* scheduler thread of app/main.py that announces what is due, and the web *)
(* handlers that create, edit, pause, resume and delete schedules.         *)
(*                                                                         *)
(* Every database statement is one step, and so is every reading of the    *)
(* clock that is followed by one.  The scheduler's wait between two rounds *)
(* may take any time.  A handler takes two steps: it reads the schedule    *)
(* and the clock, and it writes what it worked out from them.              *)
(***************************************************************************)
EXTENDS Calendar

CONSTANTS
  MaxSchedules,  \* Bound: how many schedules are ever created.
  Person,        \* Accounts.
  Admin,         \* The administrators.
  Plans,         \* What people type.
  Zones,         \* The zones the school may be in.
  ZoneMayFail,   \* Whether the zone may be missing from the machine.
  FirstInstant,  \* When the story begins.
  LastInstant,   \* Bound: when it ends.
  MaxEdits,      \* Bound: how many requests people make.
  MaxFaults      \* Bound: how often the process ends or a statement raises.

ASSUME PlansAssumption == \A plan \in Plans : IsPlan(plan)
ASSUME ZonesAssumption == \A zone \in Zones : IsZone(zone)
ASSUME PeopleAssumption == Admin \subseteq Person /\ None \notin Person
ASSUME TimeAssumption == /\ FirstInstant \in Int /\ LastInstant \in Int
                         /\ FirstInstant <= LastInstant
ASSUME LimitsAssumption == /\ MaxSchedules \in Nat /\ MaxEdits \in Nat
                           /\ MaxFaults \in Nat /\ ZoneMayFail \in BOOLEAN

Id == 1 .. MaxSchedules

Schedule == [owner : Person, plan : Plans, on : BOOLEAN, next : Int \cup {None}]

VARIABLES
  clock,       \* the UTC time
  home,        \* the zone the school is in
  row,         \* [Id -> Schedule \cup {None}], the schedules table
  nextId,      \* the next AUTOINCREMENT value
  pc,          \* where the scheduler thread is; "off" when there is no process
  zoneLoaded,  \* Services.zone is not None
  now,         \* run_due_schedules: now
  due,         \* run_due_schedules: the copies of rows still to be looked at
  sending,     \* run_due_schedules: the copy being queued
  req,         \* [Person -> what a handler of theirs is about to write]
  edits,       \* how many requests were made
  faults,      \* how often something failed
  sent,        \* history: {<<id, instant>>} the occurrences announced
  repeated,    \* history: those announced more than once
  rearmed,     \* history: those stored by a person when they had come already
  stale        \* history: rows whose next run was worked out from an old plan

thread  == <<pc, zoneLoaded, now, due, sending>>
web     == <<req, edits>>
history == <<sent, repeated, rearmed, stale>>
vars == <<clock, home, row, nextId, thread, web, faults, history>>

NoRequest == [op |-> "none"]

Copy == [id : Id, row : Schedule]

ASSUME NoRecordAssumption == None \notin Schedule \cup Copy

Request ==
  {NoRequest}
    \cup [op : {"create"}, new : Schedule]
    \cup [op : {"update", "toggle"}, id : Id, seen : Schedule, new : Schedule]
    \cup [op : {"delete"}, id : Id]

Occurrence == Id \X Int

TypeOK ==
  /\ clock \in FirstInstant .. LastInstant
  /\ home \in Zones
  /\ row \in [Id -> Schedule \cup {None}]
  /\ nextId \in 1 .. MaxSchedules + 1
  /\ pc \in {"off", "wait", "select", "round", "send"}
  /\ zoneLoaded \in BOOLEAN
  /\ now \in (FirstInstant .. LastInstant) \cup {None}
  /\ due \subseteq Copy
  /\ sending \in Copy \cup {None}
  /\ req \in [Person -> Request]
  /\ edits \in 0 .. MaxEdits /\ faults \in 0 .. MaxFaults
  /\ sent \subseteq Occurrence /\ repeated \subseteq Occurrence
  /\ rearmed \subseteq Occurrence
  /\ stale \subseteq Id

Init ==
  /\ clock = FirstInstant /\ home \in Zones
  /\ row = [s \in Id |-> None] /\ nextId = 1
  /\ pc = "off" /\ zoneLoaded = TRUE
  /\ now = None /\ due = {} /\ sending = None
  /\ req = [p \in Person |-> NoRequest]
  /\ edits = 0 /\ faults = 0
  /\ sent = {} /\ repeated = {} /\ rearmed = {} /\ stale = {}

----------------------------------------------------------------------------
(* The scheduler thread.                                                   *)

IsDue(s) ==
  row[s] # None /\ row[s].on /\ row[s].next # None /\ row[s].next <= clock

\* now = utcnow()
ReadNow ==
  /\ pc = "wait"
  /\ now' = clock /\ pc' = "select"
  /\ UNCHANGED <<clock, home, row, nextId, zoneLoaded, due, sending, web, faults, history>>

\* due_schedules(now_iso()), which reads the clock again.
Select ==
  /\ pc = "select"
  /\ due' = {[id |-> s, row |-> row[s]] : s \in {x \in Id : IsDue(x)}}
  /\ pc' = "round"
  /\ UNCHANGED <<clock, home, row, nextId, zoneLoaded, now, sending, web, faults, history>>

(* ORDER BY next_run_at, ties in any order.                                *)
IsFirst(d) == d \in due /\ \A e \in due : d.row.next <= e.row.next

(* compute_next_run: without a zone it raises, or finds nothing.           *)
Computable(plan, after) == zoneLoaded \/ ~RaisesWithoutZone(plan, after)

NextRun(plan, after) == IF zoneLoaded THEN NextOccurrence(home, plan, after) ELSE None

(* A one-off is settled here, not by its date.                             *)
Settles(d) == d.row.plan.kind = "once" \/ Computable(d.row.plan, d.row.next)

Following(d) ==
  IF d.row.plan.kind = "once" THEN None ELSE NextRun(d.row.plan, d.row.next)

\* Mutant of StoreNext: enabled=following and 1, which is no flag where nothing follows.
StoreNextAsFlag(d) ==
  IF row[d.id] = None THEN UNCHANGED <<row, stale>>
  ELSE /\ row' = [row EXCEPT ![d.id].next = Following(d),
                             ![d.id].on = IF Following(d) = None THEN None ELSE TRUE]
       /\ stale' = IF row[d.id].plan = d.row.plan THEN stale \ {d.id}
                   ELSE stale \cup {d.id}

(* UPDATE ... WHERE id = ?, from the copy: nothing else of the row is      *)
(* looked at, and nothing happens to a row that has been deleted.          *)
StoreNext(d) ==
  IF row[d.id] = None THEN UNCHANGED <<row, stale>>
  ELSE /\ row' = [row EXCEPT ![d.id].next = Following(d),
                             ![d.id].on = (Following(d) # None)]
       /\ stale' = IF row[d.id].plan = d.row.plan THEN stale \ {d.id}
                   ELSE stale \cup {d.id}

\* Mutant of Advance: only what is announced moves on.
AdvanceWhenFired(d) ==
  /\ pc = "round" /\ IsFirst(d) /\ Settles(d)
  /\ due' = due \ {d}
  /\ IF Fires(d.row.next, now)
     THEN StoreNext(d) /\ sending' = d /\ pc' = "send"
     ELSE UNCHANGED <<row, stale, sending, pc>>
  /\ UNCHANGED <<clock, home, nextId, zoneLoaded, now, web, faults, sent, repeated, rearmed>>

\* Mutant of Advance: the next run of what is announced is left for later.
AdvanceWhenSkipped(d) ==
  /\ pc = "round" /\ IsFirst(d) /\ Settles(d)
  /\ due' = due \ {d}
  /\ IF Fires(d.row.next, now)
     THEN sending' = d /\ pc' = "send" /\ UNCHANGED <<row, stale>>
     ELSE StoreNext(d) /\ UNCHANGED <<sending, pc>>
  /\ UNCHANGED <<clock, home, nextId, zoneLoaded, now, web, faults, sent, repeated, rearmed>>

(* Advance first, then announce what is neither too late nor too early.    *)
Advance(d) ==
  /\ pc = "round" /\ IsFirst(d) /\ Settles(d)
  /\ StoreNext(d)
  /\ due' = due \ {d}
  /\ IF Fires(d.row.next, now)
     THEN sending' = d /\ pc' = "send"
     ELSE UNCHANGED <<sending, pc>>
  /\ UNCHANGED <<clock, home, nextId, zoneLoaded, now, web, faults, sent, repeated, rearmed>>

(* Putting the announcement in the queue.                                  *)
Send ==
  LET o == <<sending.id, sending.row.next>>
  IN /\ pc = "send"
     /\ repeated' = IF o \in sent THEN repeated \cup {o} ELSE repeated
     /\ sent' = sent \cup {o}
     /\ sending' = None /\ pc' = "round"
     /\ UNCHANGED <<clock, home, row, nextId, zoneLoaded, now, due, web, faults, rearmed, stale>>

RoundEnds ==
  /\ pc = "round" /\ due = {}
  /\ pc' = "wait" /\ now' = None
  /\ UNCHANGED <<clock, home, row, nextId, zoneLoaded, due, sending, web, faults, history>>

(* An exception in the loop over the rows ends the round.                  *)
RoundRaises ==
  /\ pc = "round"
  /\ \E d \in due : IsFirst(d) /\ ~Settles(d)
  /\ due' = {} /\ pc' = "wait" /\ now' = None
  /\ UNCHANGED <<clock, home, row, nextId, zoneLoaded, sending, web, faults, history>>

SchedulerStep ==
  \/ ReadNow \/ Select \/ Send \/ RoundEnds \/ RoundRaises
  \/ \E d \in due : Advance(d)

(* A database error while the due rows are read or a next run is stored,   *)
StoreRaises ==
  /\ pc = "select" \/ (pc = "round" /\ due # {})
  /\ faults < MaxFaults
  /\ faults' = faults + 1
  /\ due' = {} /\ pc' = "wait" /\ now' = None
  /\ UNCHANGED <<clock, home, row, nextId, zoneLoaded, sending, web, history>>

(* and one while the announcement is queued, which only this row loses.    *)
SendRaises ==
  /\ pc = "send" /\ faults < MaxFaults
  /\ faults' = faults + 1
  /\ sending' = None /\ pc' = "round"
  /\ UNCHANGED <<clock, home, row, nextId, zoneLoaded, now, due, web, history>>

SchedulerFault == StoreRaises \/ SendRaises

----------------------------------------------------------------------------
(* The web handlers.                                                       *)

Serving(p) == pc # "off" /\ req[p] = NoRequest /\ edits < MaxEdits

Ask(p, request) ==
  /\ req' = [req EXCEPT ![p] = request]
  /\ edits' = edits + 1
  /\ UNCHANGED <<clock, home, row, nextId, thread, faults, history>>

MayEdit(p, s) == row[s] # None /\ (p \in Admin \/ row[s].owner = p)

(* A schedule that would never run is refused.                             *)
AskCreate(p, plan, on) ==
  /\ Serving(p) /\ nextId <= MaxSchedules
  /\ Computable(plan, clock) /\ NextRun(plan, clock) # None
  /\ Ask(p, [op |-> "create",
             new |-> [owner |-> p, plan |-> plan, on |-> on,
                      next |-> NextRun(plan, clock)]])

(* Whoever edits it, it stays its author's.                                *)
AskUpdate(p, s, plan, on) ==
  /\ Serving(p) /\ MayEdit(p, s) /\ Computable(plan, clock)
  /\ on => NextRun(plan, clock) # None
  /\ Ask(p, [op |-> "update", id |-> s, seen |-> row[s],
             new |-> [owner |-> row[s].owner, plan |-> plan, on |-> on,
                      next |-> NextRun(plan, clock)]])

AskToggle(p, s, on) ==
  /\ Serving(p) /\ MayEdit(p, s) /\ (on => Computable(row[s].plan, clock))
  /\ Ask(p, [op |-> "toggle", id |-> s, seen |-> row[s],
             new |-> [row[s] EXCEPT
                        !.on = on,
                        !.next = IF on THEN NextRun(row[s].plan, clock) ELSE None]])

AskDelete(p, s) ==
  /\ Serving(p) /\ MayEdit(p, s)
  /\ Ask(p, [op |-> "delete", id |-> s])

Answered(p) ==
  /\ req' = [req EXCEPT ![p] = NoRequest]
  /\ UNCHANGED <<clock, home, thread, edits, faults, sent, repeated>>

Create(p) ==
  /\ req[p].op = "create" /\ nextId <= MaxSchedules
  /\ row' = [row EXCEPT ![nextId] = req[p].new]
  /\ nextId' = nextId + 1
  /\ Answered(p)
  /\ UNCHANGED <<rearmed, stale>>

(* An occurrence that a person stores when it has come already.            *)
Rearm(s, new) ==
  rearmed' = IF new.on /\ new.next # None /\ new.next <= clock
             THEN rearmed \cup {<<s, new.next>>} ELSE rearmed

(* Both UPDATEs leave a row alone that was deleted in the meantime.        *)
Update(p) ==
  /\ req[p].op = "update"
  /\ IF row[req[p].id] = None THEN UNCHANGED <<row, rearmed, stale>>
     ELSE /\ row' = [row EXCEPT ![req[p].id] = req[p].new]
          /\ Rearm(req[p].id, req[p].new)
          /\ stale' = stale \ {req[p].id}
  /\ Answered(p)
  /\ UNCHANGED nextId

Toggle(p) ==
  /\ req[p].op = "toggle"
  /\ IF row[req[p].id] = None THEN UNCHANGED <<row, rearmed, stale>>
     ELSE /\ row' = [row EXCEPT ![req[p].id].on = req[p].new.on,
                                ![req[p].id].next = req[p].new.next]
          /\ Rearm(req[p].id, req[p].new)
          /\ stale' = IF row[req[p].id].plan = req[p].seen.plan
                      THEN stale \ {req[p].id} ELSE stale \cup {req[p].id}
  /\ Answered(p)
  /\ UNCHANGED nextId

Delete(p) ==
  /\ req[p].op = "delete"
  /\ row' = [row EXCEPT ![req[p].id] = None]
  /\ Answered(p)
  /\ UNCHANGED <<nextId, rearmed, stale>>

WebStep ==
  \E p \in Person :
    \/ \E plan \in Plans, on \in BOOLEAN :
         AskCreate(p, plan, on) \/ \E s \in Id : AskUpdate(p, s, plan, on)
    \/ \E s \in Id : (\E on \in BOOLEAN : AskToggle(p, s, on)) \/ AskDelete(p, s)
    \/ Create(p) \/ Update(p) \/ Toggle(p) \/ Delete(p)

----------------------------------------------------------------------------
(* Time and the process.                                                   *)

Tick ==
  /\ clock < LastInstant
  /\ clock' = clock + 1
  /\ UNCHANGED <<home, row, nextId, thread, web, faults, history>>

(* The zone is loaded once, when the process starts.                       *)
Start ==
  /\ pc = "off"
  /\ zoneLoaded' \in IF ZoneMayFail THEN BOOLEAN ELSE {TRUE}
  /\ pc' = "wait"
  /\ UNCHANGED <<clock, home, row, nextId, now, due, sending, web, faults, history>>

(* Shut down or killed, wherever the scheduler thread is.                  *)
Stop ==
  /\ pc # "off" /\ faults < MaxFaults
  /\ faults' = faults + 1
  /\ pc' = "off" /\ now' = None /\ due' = {} /\ sending' = None
  /\ req' = [p \in Person |-> NoRequest]
  /\ UNCHANGED <<clock, home, row, nextId, zoneLoaded, edits, history>>

Next == SchedulerStep \/ SchedulerFault \/ WebStep \/ Tick \/ Start \/ Stop

Spec == Init /\ [][Next]_vars

(* The thread wakes up again after every wait, and a process that is down  *)
(* is started again.                                                       *)
FairSpec == Spec /\ WF_vars(SchedulerStep) /\ WF_vars(Start)

----------------------------------------------------------------------------
(* "3:10 PM every day stays 3:10 PM": the next run of a schedule is a time *)
(* and a day its plan asks for, read off the school's own clocks, on both  *)
(* sides of a clock change, unless the plan was edited while somebody      *)
(* worked out the next run of the old one (app/schedules.py:160).          *)
SchoolTimeKept ==
  \A s \in Id : row[s] # None /\ row[s].next # None /\ s \notin stale
    => AsPlanned(home, row[s].plan, row[s].next)

(* No occurrence is announced twice, through slow queues, crashes, errors  *)
(* and late rounds, unless a handler stored it, or an earlier one, when it *)
(* had come already (app/main.py:625).                                     *)
Rearmed(s, t) == \E r \in rearmed : r[1] = s /\ r[2] <= t

AtMostOnce == \A o \in repeated : Rearmed(o[1], o[2])

(* Why AtMostOnce holds.  Passed(s, t): the next run t of s is later than  *)
(* everything announced so far, or a handler stored it too late.           *)
Passed(s, t) == Rearmed(s, t) \/ \A o \in sent : o[1] = s => o[2] < t

Copies == due \cup ({sending} \ {None})

(* Ids are handed out in order, and nothing is known of one before that.   *)
IdsOK ==
  /\ \A s \in Id : row[s] # None => s < nextId
  /\ \A o \in sent : o[1] < nextId
  /\ \A p \in Person : req[p].op \in {"update", "toggle", "delete"} => req[p].id < nextId
  /\ \A d \in Copies : d.id < nextId

(* A round looks at each row once, when its time has come; the row being   *)
(* announced has moved on.                                                 *)
RoundOK ==
  /\ \A d, e \in Copies : d.id = e.id => d = e
  /\ \A d \in Copies : d.row.next # None /\ d.row.next <= clock
  /\ sending # None => sending \notin due
  /\ pc = "send" <=> sending # None
  /\ pc # "round" /\ pc # "send" => due = {}

(* What is announced was due, and what is still to be is later.            *)
SentOK ==
  /\ \A o \in sent : o[2] <= clock
  /\ \A s \in Id : row[s] # None /\ row[s].on /\ row[s].next # None
       => /\ Passed(s, row[s].next)
          /\ sending # None /\ sending.id = s
               => sending.row.next < row[s].next \/ Rearmed(s, row[s].next)
  /\ \A d \in Copies : Passed(d.id, d.row.next)

OnceInv == TypeOK /\ IdsOK /\ RoundOK /\ SentOK /\ AtMostOnce

(* Each day the plan asks for gets its turn: the scheduler moves from one  *)
(* day to the next one that is asked for, never to the same day again, and *)
(* gives up only when there is none left (app/schedules.py:190), unless    *)
(* the next run it starts from was worked out from an old plan, or there   *)
(* is no zone to tell the school's days by.                                *)
OneEachDay ==
  [][\A d \in due :
       (/\ pc = "round" /\ due' = due \ {d}
        /\ row[d.id] = d.row /\ row'[d.id] # d.row
        /\ d.row.plan.kind # "once" /\ d.id \notin stale /\ zoneLoaded)
       => LET plan == d.row.plan
              day  == LocalDay(home, d.row.next)
              next == row'[d.id].next
          IN IF next = None
             THEN DaysBetween(plan, day, day + MaxSearchDays) = {}
             ELSE /\ day < LocalDay(home, next)
                  /\ DaysBetween(plan, day, LocalDay(home, next)) = {}]_vars

(* A schedule whose time has come does not stay so: it is announced or     *)
(* skipped, and catches up with the clock (app/main.py:640), as long as    *)
(* the school's zone can be loaded.                                        *)
OverdueCatchesUp == \A s \in Id : IsDue(s) ~> ~IsDue(s) \/ ~zoneLoaded

(* "Scheduled announcements will use UTC" when the zone cannot be loaded   *)
(* (app/main.py:287): a schedule whose time has come does not stay so on a *)
(* machine without time zones either.                                      *)
UtcIsUsed == \A s \in Id : IsDue(s) ~> ~IsDue(s)

(* "A paused schedule keeps its settings and stops firing"                 *)
(* (DEPLOYMENT.md:400): what the scheduler stores for a row it looked at   *)
(* does not switch on again what was switched off since.                   *)
PausedStaysPaused ==
  [][\A s \in Id : (row[s] # None /\ ~row[s].on /\ row'[s] # None /\ due' # due)
                     => ~row'[s].on]_vars
=============================================================================
