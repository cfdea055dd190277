------------------------------- MODULE Limits -------------------------------
(***************************************************************************)
(* What one person may do in a while: the lockout after wrong passwords    *)
(* (app/accounts.py) and the number of announcements in a sliding window   *)
(* (app/ratelimit.py, and the handlers of app/main.py that ask it).  Both  *)
(* count in the database, decide on the count, and write in a statement of *)
(* its own, from handlers that run in several threads.                     *)
(*                                                                         *)
(* The clock ticks twice a second, because timestamps are stored in whole  *)
(* seconds and compared with a clock that is finer.                        *)
(***************************************************************************)
EXTENDS Naturals, FiniteSets

CONSTANTS
  None,
  Person,
  Admin,        \* The administrators: no limit applies to them.
  Guessed,      \* The people whose password somebody gets wrong.
  Thread,       \* The threads that serve requests.
  Limit,        \* rate_limit_count; 0 would be no limit.
  Window,       \* rate_limit_window_seconds.
  MaxFailures,  \* login_max_failures.
  Lockout,      \* login_lockout_seconds.
  LastTick,     \* Bound: where the clock stops.
  MaxSent,      \* Bound: announcements of one person in the table.
  MaxWrong      \* Bound: wrong passwords for one account.

ASSUME PeopleAssumption == Admin \subseteq Person /\ Guessed \subseteq Person /\ None \notin Person
ASSUME ThreadAssumption == IsFiniteSet(Thread)
ASSUME SettingsAssumption ==
  /\ Limit \in Nat \ {0} /\ Window \in Nat \ {0}
  /\ MaxFailures \in Nat \ {0} /\ Lockout \in Nat \ {0}
ASSUME LimitBounds == LastTick \in Nat /\ MaxSent \in Nat /\ MaxWrong \in Nat

VARIABLES
  now,         \* the clock, in ticks
  failed,      \* [Person -> failed_logins]
  lockedUntil, \* [Person -> locked_until, 0 for none]
  sent,        \* [Person -> [Row -> created_at of that announcement, or None]]
  job,         \* [Thread -> the handler it runs]
  wrong,       \* history: wrong passwords since the counter was last cleared
  mixed,       \* history: counters that were written while another held a copy
  told         \* history: [Person -> when they were told they can send again]

vars == <<now, failed, lockedUntil, sent, job, wrong, mixed, told>>
lock == <<failed, lockedUntil, wrong, mixed>>
rate == <<sent, told>>

Second == 2
WholeSecond(tick) == Second * (tick \div Second)

Row == 1 .. MaxSent     \* of the announcements of one person

NoJob == [at |-> "idle", who |-> None, failed |-> 0]
Job == [at : {"idle", "wrong", "welcome", "insert"}, who : Person \cup {None},
        failed : 0 .. MaxWrong]

TypeOK ==
  /\ now \in 0 .. LastTick
  /\ failed \in [Person -> 0 .. MaxWrong]
  /\ lockedUntil \in [Person -> 0 .. LastTick + Second * Lockout]
  /\ sent \in [Person -> [Row -> 0 .. LastTick \cup {None}]]
  /\ job \in [Thread -> Job]
  /\ wrong \in [Person -> 0 .. MaxWrong]
  /\ mixed \in SUBSET Person
  /\ told \in [Person -> 0 .. LastTick + Second * Window \cup {None}]

Init ==
  /\ now = 0
  /\ failed = [p \in Person |-> 0] /\ lockedUntil = [p \in Person |-> 0]
  /\ sent = [p \in Person |-> [r \in Row |-> None]]
  /\ job = [t \in Thread |-> NoJob]
  /\ wrong = [p \in Person |-> 0] /\ mixed = {}
  /\ told = [p \in Person |-> None]

Tick == now < LastTick /\ now' = now + 1 /\ UNCHANGED <<lock, rate, job>>

Begin(t, work) == job[t] = NoJob /\ job' = [job EXCEPT ![t] = work]
Done(t) == job' = [job EXCEPT ![t] = NoJob]

----------------------------------------------------------------------------
(* Signing in.                                                             *)

Locked(p) == lockedUntil[p] > now

(* Threads that hold a copy of the counter of p.                           *)
Counting(p) == {t \in Thread : job[t].at = "wrong" /\ job[t].who = p}

GuessWrong(t, p) ==
  /\ p \in Guessed /\ ~Locked(p)
  /\ failed[p] < MaxWrong /\ wrong[p] + Cardinality(Counting(p)) < MaxWrong
  /\ Begin(t, [at |-> "wrong", who |-> p, failed |-> failed[p]])
  /\ UNCHANGED <<now, lock, rate>>

Failures(t) == job[t].failed + 1

\* Mutant of RegisterFailure: the account is locked, and the attempts that led
\* to it are forgotten.
RegisterAndForget(t) ==
  LET p == job[t].who
  IN /\ job[t].at = "wrong"
     /\ failed' = [failed EXCEPT ![p] = IF Failures(t) < MaxFailures THEN Failures(t) ELSE 0]
     /\ lockedUntil' = [lockedUntil EXCEPT
          ![p] = IF Failures(t) >= MaxFailures THEN WholeSecond(now + Second * Lockout) ELSE 0]
     /\ wrong' = [wrong EXCEPT ![p] = @ + 1]
     /\ mixed' = IF Counting(p) = {t} THEN mixed ELSE mixed \cup {p}
     /\ Done(t)
     /\ UNCHANGED <<now, rate>>

\* Mutant of RegisterFailure: every further failure locks for longer.
RegisterForLonger(t) ==
  LET p == job[t].who
  IN /\ job[t].at = "wrong"
     /\ failed' = [failed EXCEPT ![p] = Failures(t)]
     /\ lockedUntil' = [lockedUntil EXCEPT ![p] =
          IF Failures(t) >= MaxFailures THEN WholeSecond(now + Second * Lockout * Failures(t)) ELSE 0]
     /\ wrong' = [wrong EXCEPT ![p] = @ + 1]
     /\ mixed' = IF Counting(p) = {t} THEN mixed ELSE mixed \cup {p}
     /\ Done(t)
     /\ UNCHANGED <<now, rate>>

(* The count that was read, plus one.  Below the limit the lock is cleared,*)
(* whoever has set it since.                                               *)
RegisterFailure(t) ==
  LET p == job[t].who
  IN /\ job[t].at = "wrong"
     /\ failed' = [failed EXCEPT ![p] = Failures(t)]
     /\ lockedUntil' = [lockedUntil EXCEPT
          ![p] = IF Failures(t) >= MaxFailures THEN WholeSecond(now + Second * Lockout) ELSE 0]
     /\ wrong' = [wrong EXCEPT ![p] = @ + 1]
     /\ mixed' = IF Counting(p) = {t} THEN mixed ELSE mixed \cup {p}
     /\ Done(t)
     /\ UNCHANGED <<now, rate>>

GuessRight(t, p) ==
  /\ p \in Guessed /\ ~Locked(p)
  /\ Begin(t, [at |-> "welcome", who |-> p, failed |-> 0])
  /\ UNCHANGED <<now, lock, rate>>

ClearFailures(p) ==
  /\ failed' = [failed EXCEPT ![p] = 0] /\ lockedUntil' = [lockedUntil EXCEPT ![p] = 0]
  /\ wrong' = [wrong EXCEPT ![p] = 0]
  /\ mixed' = IF Counting(p) = {} THEN mixed \ {p} ELSE mixed \cup {p}

Welcome(t) ==
  /\ job[t].at = "welcome"
  /\ ClearFailures(job[t].who)
  /\ Done(t)
  /\ UNCHANGED <<now, rate>>

(* An administrator unlocks the account; a password that is set, by        *)
(* anybody, does the same.                                                 *)
Unlock(p) ==
  /\ p \in Guessed /\ failed[p] > 0
  /\ ClearFailures(p)
  /\ UNCHANGED <<now, job, rate>>

----------------------------------------------------------------------------
(* Sending an announcement.  Sounds ask the same question, and neither     *)
(* they nor drills nor the timetable's announcements count.                *)

(* created_at >= cutoff, both in whole seconds.                            *)
InWindow(stamp) == stamp + Second * Window >= WholeSecond(now)

Rows(p) == {r \in Row : sent[p][r] # None}
Recent(p) == {r \in Rows(p) : InWindow(sent[p][r])}
Used(p) == Cardinality(Recent(p))

\* Mutant of Allowed: the limit itself is let through.
AllowedAtLimit(p) == p \in Admin \/ Used(p) <= Limit

Allowed(p) == p \in Admin \/ Used(p) < Limit

Sending(p) == {t \in Thread : job[t].at = "insert" /\ job[t].who = p}

CheckRate(t, p) ==
  /\ Allowed(p)
  /\ Cardinality(Rows(p)) + Cardinality(Sending(p)) < MaxSent
  /\ Begin(t, [at |-> "insert", who |-> p, failed |-> 0])
  /\ UNCHANGED <<now, lock, rate>>

\* Mutant of RetryAfter: one second less than it takes.
RetryAfterSecondLess(oldest) ==
  LET rest == oldest + Second * Window
  IN IF rest < now + 2 * Second THEN 0 ELSE (rest - now) \div Second - 1

(* Whole seconds until the oldest announcement in the window is as old as  *)
(* the window, at least one.                                               *)
RetryAfter(oldest) ==
  LET rest == oldest + Second * Window
  IN IF rest < now + Second THEN 1 ELSE (rest - now) \div Second

(* Remembered only where the promise is about one announcement: nobody can *)
(* say when a person who overshot the limit is below it again.             *)
RefuseRate(t, p) ==
  /\ job[t] = NoJob /\ ~Allowed(p)
  /\ \E first \in Recent(p) :
       /\ \A r \in Recent(p) : sent[p][first] <= sent[p][r]
       /\ told' = [told EXCEPT ![p] = IF Used(p) = Limit
                                      THEN now + Second * RetryAfter(sent[p][first]) ELSE None]
  /\ UNCHANGED <<now, lock, job, sent>>

\* Which row it gets tells nobody anything: the first that is free.
Enqueue(t) ==
  LET p == job[t].who
  IN /\ job[t].at = "insert"
     /\ \E r \in Row \ Rows(p) :
          /\ 1 .. r - 1 \subseteq Rows(p)
          /\ sent' = [sent EXCEPT ![p][r] = WholeSecond(now)]
     /\ told' = [told EXCEPT ![p] = None]
     /\ Done(t)
     /\ UNCHANGED <<now, lock>>

(* The log is cleared, up to a time: what is still queued stays, and an    *)
(* urgent announcement leaves the queue before older ones.                 *)
Purge(p, gone) ==
  /\ sent' = [sent EXCEPT ![p] = [r \in Row |-> IF r \in gone THEN None ELSE sent[p][r]]]
  /\ UNCHANGED <<now, lock, job, told>>

(* A statement raises, or the process dies.                                *)
Abort(t) == job[t] # NoJob /\ Done(t) /\ UNCHANGED <<now, lock, rate>>

----------------------------------------------------------------------------
Next ==
  \/ Tick
  \/ \E t \in Thread :
       \/ \E p \in Person : GuessWrong(t, p) \/ GuessRight(t, p)
                            \/ CheckRate(t, p) \/ RefuseRate(t, p)
       \/ RegisterFailure(t) \/ Welcome(t) \/ Enqueue(t) \/ Abort(t)
  \/ \E p \in Person : Unlock(p) \/ \E gone \in SUBSET Rows(p) \ {{}} : Purge(p, gone)

Spec == Init /\ [][Next]_vars

----------------------------------------------------------------------------
(* failed_logins is the number of wrong passwords since it was cleared,    *)
(* and from login_max_failures on the account has a lock, unless the       *)
(* counter was written while another sign-in held a copy of it             *)
(* (accounts.py, _register_failure).                                       *)
CountIsExact ==
  \A p \in Person \ mixed :
    /\ failed[p] = wrong[p]
    /\ (lockedUntil[p] # 0) <=> (wrong[p] >= MaxFailures)

(* Nobody but an administrator has more than the limit in the window, or   *)
(* on the way into it, however many requests come at once: each thread can *)
(* bring one over it (ratelimit.py, check; main.py, api_submit).           *)
RateKept ==
  \A p \in Person \ Admin :
    Used(p) + Cardinality(Sending(p)) <= Limit - 1 + Cardinality(Thread)

(* "You can send another in ..." (ratelimit.py): whoever waits that long,  *)
(* and the two seconds that the whole seconds of the cutoff and of the     *)
(* answer can be short, is below the limit.                                *)
WaitIsEnough ==
  \A p \in Person :
    told[p] # None /\ now >= told[p] + 2 * Second => Used(p) < Limit
=============================================================================
