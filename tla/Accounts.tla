------------------------------ MODULE Accounts ------------------------------
(***************************************************************************)
(* Accounts, sign-in and sessions: app/accounts.py, the session check of   *)
(* app/auth.py, the handlers of app/main.py that use them, and the same    *)
(* operations from the command line (scripts/manage_users.py).             *)
(*                                                                         *)
(* Handlers run in threads of a pool and every statement commits by        *)
(* itself, so a handler is as many steps as it has statements that another *)
(* thread can come between.  A password is the number of the change that   *)
(* set it: no two changes set the same one.  Time is left out: a session   *)
(* gets too old at any moment.  Wrong passwords, and the lock they put on  *)
(* an account, are the subject of Limits.                                  *)
(***************************************************************************)
EXTENDS Naturals, FiniteSets

CONSTANTS
  None,
  Account,      \* The accounts there can be; a row of role "none" is not there.
  Founder,      \* The account that ensure_bootstrap_admin creates.
  Thread,       \* The threads that serve requests or run a command.
  Changes,      \* The changes <<role, active>> that people ask for.
  Forced,       \* Whether new accounts have to change their password.
  MaxSessions,  \* Bound: sessions open at a time.
  MaxPasswords  \* Bound: passwords that are set after the first.

ASSUME FounderAssumption == Founder \in Account /\ None \notin Account /\ IsFiniteSet(Account)
ASSUME InputAssumption ==
  /\ Forced \subseteq BOOLEAN
  /\ Changes \subseteq ({"staff", "admin"} \cup {None}) \X (BOOLEAN \cup {None})
  /\ <<None, None>> \notin Changes
ASSUME AccountBounds == MaxSessions \in Nat \ {0} /\ MaxPasswords \in Nat

VARIABLES
  users,    \* [Account -> the row of the account]
  sessions, \* [1 .. MaxSessions -> the session with that cookie, or None]
  job,      \* [Thread -> what the handler it runs has still to do]
  newest,   \* the last password that was set
  good,     \* history: the oldest password that was not taken away since
  torn,     \* history: accounts whose sessions were to be ended, and were not
  crossed   \* history: two changes that take an administrator away overlapped

vars == <<users, sessions, job, newest, good, torn, crossed>>
revoked == <<good, torn>>

Cookie == 1 .. MaxSessions
Role == {"staff", "admin"}

Row == [role : Role \cup {"none"}, active : BOOLEAN, mustChange : BOOLEAN,
        bootstrap : BOOLEAN, pw : 0 .. MaxPasswords]

(* Work that is asked for by a request, and where a handler can be.        *)
Work == {"create", "update", "reset", "change", "setup"}
Own == {"update", "change", "setup"}    \* work that looks at who asked
Place == {"idle", "open", "role", "check", "active", "claim", "end"}
           \cup Work

(* Handlers that are going to open a session.                              *)
Opening == {"open", "setup", "claim"}

\* by: the account that signed in, where it still matters; on: the account
\* that is worked on; late: sessions of by were ended since its row was read.
Job == [at : Place, by : Account \cup {None}, on : Account \cup {None},
        pw : 0 .. MaxPasswords,
        role : Role \cup {None}, active : BOOLEAN \cup {None}, late : BOOLEAN]

Session == [user : Account, pw : 0 .. MaxPasswords, late : BOOLEAN]

NoRow == [role |-> "none", active |-> FALSE, mustChange |-> FALSE, bootstrap |-> FALSE,
          pw |-> 0]
NoJob == [at |-> "idle", by |-> None, on |-> None, pw |-> 0,
          role |-> None, active |-> None, late |-> FALSE]

TypeOK ==
  /\ users \in [Account -> Row]
  /\ sessions \in [Cookie -> Session \cup {None}]
  /\ job \in [Thread -> Job]
  /\ newest \in 0 .. MaxPasswords
  /\ good \in [Account -> 0 .. MaxPasswords]
  /\ torn \in SUBSET Account
  /\ crossed \in BOOLEAN

(* The start with an empty database: ensure_bootstrap_admin has run.       *)
Bootstrap == [NoRow EXCEPT !.role = "admin", !.active = TRUE,
                           !.mustChange = TRUE, !.bootstrap = TRUE]
NewSystem == [u \in Account |-> IF u = Founder THEN Bootstrap ELSE NoRow]

(* A system in use: an account for everybody, two administrators or more.  *)
InUse(admins) ==
  [u \in Account |-> [NoRow EXCEPT !.role = IF u \in admins THEN "admin" ELSE "staff",
                                   !.active = TRUE]]

Init ==
  /\ \/ users = NewSystem
     \/ \E admins \in SUBSET Account : Cardinality(admins) > 1 /\ users = InUse(admins)
  /\ sessions = [c \in Cookie |-> None]
  /\ job = [t \in Thread |-> NoJob]
  /\ newest = 0
  /\ good = [u \in Account |-> 0] /\ torn = {}
  /\ crossed = FALSE

----------------------------------------------------------------------------
Exists(u) == users[u].role # "none"
ActiveAdmin(u) == users[u].role = "admin" /\ users[u].active
ActiveAdmins == {u \in Account : ActiveAdmin(u)}

Done(t) == job' = [job EXCEPT ![t] = NoJob]

----------------------------------------------------------------------------
(* Signing in: authenticate reads the row and decides on what it read; an  *)
(* account that is turned off, or not there, is refused.  Then the session *)
(* is stored.                                                              *)
Authenticate(t, u) ==
  /\ job[t].at = "idle"
  /\ Exists(u) /\ users[u].active
  /\ job' = [job EXCEPT ![t] = [NoJob EXCEPT !.at = "open", !.by = u, !.on = u,
                                             !.pw = users[u].pw]]
  /\ UNCHANGED <<users, sessions, newest, revoked, crossed>>

\* Which cookie it gets tells nobody anything: the first that is free.
StartSession(t) ==
  /\ job[t].at = "open"
  /\ \E c \in Cookie :
       /\ sessions[c] = None /\ \A d \in 1 .. c - 1 : sessions[d] # None
       /\ sessions' = [sessions EXCEPT
            ![c] = [user |-> job[t].on, pw |-> job[t].pw, late |-> job[t].late]]
  /\ Done(t)
  /\ UNCHANGED <<users, newest, revoked, crossed>>

----------------------------------------------------------------------------
(* Requests of somebody who has signed in.                                 *)

\* Signing out, and load_session on a session that has expired, was idle for
\* too long, or whose account is turned off.
EndSession(c) ==
  /\ sessions[c] # None
  /\ sessions' = [sessions EXCEPT ![c] = None]
  /\ UNCHANGED <<users, job, newest, revoked, crossed>>

(* What require_user, require_admin and the test of is_bootstrap let the   *)
(* owner of a row ask for.                                                 *)
Permitted(row) ==
  IF ~row.active THEN {}
  ELSE {"change"}
    \cup (IF row.bootstrap THEN {"setup"} ELSE {})
    \cup (IF row.role = "admin" /\ ~row.mustChange
          THEN {"create", "update", "reset"} ELSE {})

(* The row of the account is read once, with the session.                  *)
Request(t, c, work) ==
  /\ job[t].at = "idle"
  /\ sessions[c] # None
  /\ work \in Permitted(users[sessions[c].user])
  /\ job' = [job EXCEPT ![t] =
       [NoJob EXCEPT !.at = work,
                     !.by = IF work \in Own THEN sessions[c].user ELSE None,
                     !.late = work \in Opening /\ sessions[c].late]]
  /\ UNCHANGED <<users, sessions, newest, revoked, crossed>>

(* The command line asks nobody.                                           *)
Command(t, work) ==
  /\ job[t].at = "idle" /\ work \in {"create", "update", "reset"}
  /\ job' = [job EXCEPT ![t] = [NoJob EXCEPT !.at = work]]
  /\ UNCHANGED <<users, sessions, newest, revoked, crossed>>

----------------------------------------------------------------------------
(* Work on accounts.                                                       *)

\* Only the command line can ask for a password that must be changed.
Create(t, u, role, mustChange) ==
  /\ job[t].at = "create" /\ ~Exists(u) /\ mustChange \in Forced
  /\ users' = [users EXCEPT ![u] = [NoRow EXCEPT !.role = role, !.active = TRUE,
                                                 !.mustChange = mustChange, !.pw = newest]]
  /\ Done(t)
  /\ UNCHANGED <<sessions, newest, revoked, crossed>>

\* Mutant of IsLastActiveAdmin: accounts that are turned off are counted.
IsLastAdminOfAll(u) ==
  ActiveAdmin(u) /\ Cardinality({v \in Account : users[v].role = "admin"}) <= 1

IsLastActiveAdmin(u) == ActiveAdmin(u) /\ Cardinality(ActiveAdmins) <= 1

(* Whether what a thread is about to write takes an administrator away.    *)
Demotes(j) == \/ j.at = "role" /\ j.role = "staff"
              \/ j.at = "active" /\ j.active = FALSE
Overlaps(t) == \E o \in Thread \ {t} : Demotes(job[o])

(* api_update_user: first the role, then whether the account is active.    *)
(* The command line changes one of them.  Who asked matters to turning off. *)
CheckRole(t, u, role, active) ==
  /\ job[t].at = "update" /\ Exists(u)
  /\ <<role, active>> \in Changes
  /\ LET asked == [NoJob EXCEPT !.on = u, !.role = role, !.active = active,
                                !.by = IF active = FALSE THEN job[t].by ELSE None]
     IN IF role = None
        THEN job' = [job EXCEPT ![t] = [asked EXCEPT !.at = "check"]]
        ELSE IF role = "staff" /\ IsLastActiveAdmin(u)
             THEN Done(t)
             ELSE job' = [job EXCEPT ![t] = [asked EXCEPT !.at = "role"]]
  /\ crossed' = (crossed \/ (Demotes(job'[t]) /\ Overlaps(t)))
  /\ UNCHANGED <<users, sessions, newest, revoked>>

\* Mutant of SetRole: a request that names no role sets it all the same.
SetRoleOfAll(t) ==
  /\ job[t].at \in {"role", "check"}
  /\ users' = [users EXCEPT ![job[t].on].role = job[t].role]
  /\ IF job[t].active = None THEN Done(t)
     ELSE job' = [job EXCEPT ![t] = [@ EXCEPT !.at = "check", !.role = None]]
  /\ UNCHANGED <<sessions, newest, revoked, crossed>>

SetRole(t) ==
  /\ job[t].at = "role"
  /\ users' = [users EXCEPT ![job[t].on].role = job[t].role]
  /\ IF job[t].active = None THEN Done(t)
     ELSE job' = [job EXCEPT ![t] = [@ EXCEPT !.at = "check", !.role = None]]
  /\ UNCHANGED <<sessions, newest, revoked, crossed>>

(* Nobody turns off the account they are using.  What was done to the role *)
(* stays done when the rest is refused.                                    *)
CheckActive(t) ==
  /\ job[t].at = "check"
  /\ LET u == job[t].on
     IN IF ~job[t].active /\ (u = job[t].by \/ IsLastActiveAdmin(u))
        THEN Done(t)
        ELSE job' = [job EXCEPT ![t] = [@ EXCEPT !.at = "active", !.by = None]]
  /\ crossed' = (crossed \/ (Demotes(job'[t]) /\ Overlaps(t)))
  /\ UNCHANGED <<users, sessions, newest, revoked>>

SetActive(t) ==
  /\ job[t].at = "active"
  /\ users' = [users EXCEPT ![job[t].on].active = job[t].active]
  /\ IF job[t].active THEN Done(t)
     ELSE job' = [job EXCEPT ![t] = [NoJob EXCEPT !.at = "end", !.on = job[t].on]]
  /\ UNCHANGED <<sessions, newest, revoked, crossed>>

WritePassword(u, row) ==
  /\ newest < MaxPasswords /\ newest' = newest + 1
  /\ users' = [users EXCEPT ![u] = [row EXCEPT !.pw = newest + 1, !.mustChange = FALSE]]

OldTakenAway(u) == good' = [good EXCEPT ![u] = newest + 1] /\ UNCHANGED torn

\* Mutant of Reset: the password is new, and whoever is signed in stays.
ResetAlone(t, u) ==
  /\ job[t].at = "reset" /\ Exists(u)
  /\ WritePassword(u, users[u])
  /\ OldTakenAway(u)
  /\ Done(t)
  /\ UNCHANGED <<sessions, crossed>>

Reset(t, u) ==
  /\ job[t].at = "reset" /\ Exists(u)
  /\ WritePassword(u, users[u])
  /\ OldTakenAway(u)
  /\ job' = [job EXCEPT ![t] = [@ EXCEPT !.at = "end", !.on = u]]
  /\ UNCHANGED <<sessions, crossed>>

(* Whoever changes their password stays signed in everywhere.  The current *)
(* password was right when the row was read: a request with a wrong one is *)
(* refused, changing nothing.                                              *)
ChangePassword(t) ==
  LET u == job[t].by
  IN /\ job[t].at = "change"
     /\ WritePassword(u, users[u])
     /\ Done(t)
     /\ UNCHANGED <<sessions, revoked, crossed>>

CompleteSetup(t) ==
  LET u == job[t].by
  IN /\ job[t].at = "setup"
     /\ WritePassword(u, [users[u] EXCEPT !.bootstrap = FALSE])
     /\ OldTakenAway(u)
     /\ job' = [job EXCEPT ![t] = [@ EXCEPT !.at = "claim", !.on = u, !.pw = newest']]
     /\ UNCHANGED <<sessions, crossed>>

\* Sign-ins and requests that began before the sessions of u were ended.
MarkLate(t, u, next) ==
  [o \in Thread |-> IF o = t THEN next
                    ELSE [job[o] EXCEPT !.late = @ \/ (job[o].by = u /\ job[o].at \in Opening)]]

(* end_sessions_for_user.  After a claim the handler signs its own user in *)
(* again.                                                                  *)
EndSessions(t) ==
  LET u == job[t].on
  IN /\ job[t].at \in {"end", "claim"}
     /\ sessions' = [c \in Cookie |-> IF sessions[c] # None /\ sessions[c].user = u
                                      THEN None ELSE sessions[c]]
     /\ job' = MarkLate(t, u, IF job[t].at = "claim"
                              THEN [job[t] EXCEPT !.at = "open",
                                                  !.late = @ \/ job[t].pw # users[u].pw
                                                              \/ ~users[u].active]
                              ELSE NoJob)
     /\ torn' = torn \ {u}
     /\ UNCHANGED <<users, newest, good, crossed>>

(* What was asked for is not possible: a password that is too short, an    *)
(* account that is not there, a name that is taken.                        *)
Refuse(t) ==
  /\ job[t].at \in Work
  /\ Done(t)
  /\ UNCHANGED <<users, sessions, newest, revoked, crossed>>

(* A statement raises, or the process dies, and the rest is not done.      *)
Abort(t) ==
  /\ job[t].at \notin Work \cup {"idle"}
  /\ Done(t)
  /\ torn' = IF job[t].at \in {"end", "claim"} THEN torn \cup {job[t].on} ELSE torn
  /\ UNCHANGED <<users, sessions, newest, good, crossed>>

----------------------------------------------------------------------------
Handle(t) ==
  \/ \E u \in Account : Authenticate(t, u)
  \/ StartSession(t)
  \/ \E c \in Cookie, work \in Work : Request(t, c, work)
  \/ \E work \in Work : Command(t, work)
  \/ \E u \in Account, role \in Role, must \in BOOLEAN : Create(t, u, role, must)
  \/ \E u \in Account, role \in Role \cup {None}, active \in BOOLEAN \cup {None} :
       CheckRole(t, u, role, active)
  \/ SetRole(t) \/ CheckActive(t) \/ SetActive(t)
  \/ \E u \in Account : Reset(t, u)
  \/ ChangePassword(t) \/ CompleteSetup(t) \/ EndSessions(t)
  \/ Refuse(t) \/ Abort(t)

Next == \/ \E t \in Thread : Handle(t)
        \/ \E c \in Cookie : EndSession(c)

Spec == Init /\ [][Next]_vars

----------------------------------------------------------------------------
(* "This is the only administrator. Make someone else an administrator     *)
(* first" (accounts.py): there is always an administrator who can sign in, *)
(* unless two changes that take one away overlapped, each counting the     *)
(* administrator that the other was about to take.                         *)
AnAdminRemains == crossed \/ ActiveAdmins # {}

(* "The last administrator cannot be turned off or demoted"                *)
(* (DEPLOYMENT.md:450), whatever two administrators do at the same time.   *)
LastAdminStays == ActiveAdmins # {}

Ending(u) == \E t \in Thread : job[t].at \in {"end", "claim"} /\ job[t].on = u

(* Whoever is turned off, or given a new password by somebody else, is     *)
(* signed out everywhere and stays out: a session that is left was opened  *)
(* by a sign-in that was under way, or the handler did not come to the end *)
(* of its work (set_active, reset_password, complete_setup).               *)
RevokedStaysOut ==
  \A c \in Cookie : sessions[c] # None =>
    LET s == sessions[c]
    IN s.late \/ s.user \in torn \/ Ending(s.user)
         \/ (users[s.user].active /\ s.pw >= good[s.user])
=============================================================================
