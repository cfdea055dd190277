--------------------------- MODULE AccountsProofs ---------------------------
(***************************************************************************)
(* Proofs about Accounts, for every number of accounts, threads, sessions  *)
(* and passwords and every change people may ask for: the type invariant,  *)
(* that an administrator remains, and that whoever is turned out is out.   *)
(***************************************************************************)
EXTENDS Accounts, FiniteSetTheorems, TLAPS

(* What a handler needs for what it does next.                             *)
JobOK ==
  \A t \in Thread :
    /\ job[t].at \in {"change", "setup", "claim", "open"} => job[t].by \in Account
    /\ job[t].at \in {"role", "check", "active", "end", "claim", "open"} => job[t].on \in Account
    /\ job[t].at = "role" => job[t].role \in Role
    /\ job[t].at \in {"check", "active"} => job[t].active \in BOOLEAN
    /\ job[t].at \in {"claim", "open"} => job[t].on = job[t].by

(* Until two of them cross, a change that takes an administrator away is   *)
(* the only one, and leaves another.                                       *)
AdminOK ==
  ~crossed =>
    /\ ActiveAdmins # {}
    /\ \A t \in Thread : Demotes(job[t]) =>
         /\ ActiveAdmins \ {job[t].on} # {}
         /\ \A o \in Thread : Demotes(job[o]) => o = t

(* No password is newer than the newest, or older than what was taken away.*)
PasswordOK == \A u \in Account : good[u] <= users[u].pw /\ users[u].pw <= newest

(* What lets a session of u with a password stay open.                     *)
Stands(u, pw, late) ==
  late \/ u \in torn \/ Ending(u) \/ (users[u].active /\ pw >= good[u])

(* Sessions that are about to be opened stand as well as those that are.   *)
OpeningOK ==
  \A t \in Thread : job[t].at = "open" => Stands(job[t].on, job[t].pw, job[t].late)

(* The inductive invariant.                                                *)
IInv == TypeOK /\ JobOK /\ AdminOK /\ PasswordOK /\ OpeningOK /\ RevokedStaysOut

----------------------------------------------------------------------------
(* The constants of the model have their types.                            *)
LEMMA NoJobType == NoJob \in Job
BY AccountBounds DEF NoJob, Job, Place

LEMMA NoRowType == NoRow \in Row
BY AccountBounds DEF NoRow, Row

(* A thread that is done has a job of the right type.                      *)
LEMMA DoneType ==
  ASSUME job \in [Thread -> Job], NEW t \in Thread, Done(t)
  PROVE  job' \in [Thread -> Job]
BY NoJobType DEF Done

(* So has a thread whose job becomes another.                              *)
LEMMA NewJobType ==
  ASSUME job \in [Thread -> Job], NEW t \in Thread, NEW j \in Job,
         job' = [job EXCEPT ![t] = j]
  PROVE  job' \in [Thread -> Job]
OBVIOUS

(* A password that is set is one more than the newest.                     *)
LEMMA WritePasswordType ==
  ASSUME TypeOK, NEW u \in Account, NEW row \in Row, WritePassword(u, row)
  PROVE  /\ users' \in [Account -> Row] /\ newest' \in 0 .. MaxPasswords
         /\ newest' = newest + 1
<1>1. newest + 1 \in 0 .. MaxPasswords
  BY AccountBounds DEF WritePassword, TypeOK
<1>2. [row EXCEPT !.pw = newest + 1, !.mustChange = FALSE] \in Row
  BY <1>1 DEF Row
<1> QED
  BY <1>1, <1>2 DEF WritePassword, TypeOK

(* How EndSessions changes the jobs: those that are late from now on, and  *)
(* the handler itself, which signs its user in again after a claim.        *)
LEMMA EndSessionsJobs ==
  ASSUME TypeOK, JobOK, NEW t \in Thread, EndSessions(t)
  PROVE  \E late \in [Thread -> BOOLEAN], next \in Job :
           job' = [o \in Thread |-> IF o = t THEN next ELSE [job[o] EXCEPT !.late = late[o]]]
<1> DEFINE u == job[t].on
           flag == [o \in Thread |->
                      job[o].late \/ (job[o].by = u /\ job[o].at \in Opening)]
           out == job[t].late \/ job[t].pw # users[u].pw \/ ~users[u].active
           next == IF job[t].at = "claim"
                   THEN [job[t] EXCEPT !.at = "open", !.late = out] ELSE NoJob
<1>1. \A o \in Thread : (job[o].late \/ (job[o].by = u /\ job[o].at \in Opening)) \in BOOLEAN
  OBVIOUS
<1>2. flag \in [Thread -> BOOLEAN]
  BY <1>1, Zenon
<1>3. out \in BOOLEAN
  OBVIOUS
<1>4. next \in Job
  <2> HIDE DEF out
  <2> QED
    BY <1>3, NoJobType DEF TypeOK, Job, Place
<1>5. job' = [o \in Thread |-> IF o = t THEN next ELSE [job[o] EXCEPT !.late = flag[o]]]
  BY Zenon DEF EndSessions, MarkLate
<1> QED
  BY <1>2, <1>4, <1>5, Zenon

(* Every step preserves TypeOK.                                            *)
LEMMA TypeStep == TypeOK /\ JobOK /\ [Next]_vars => TypeOK'
<1> SUFFICES ASSUME TypeOK, JobOK, [Next]_vars PROVE TypeOK'
  OBVIOUS
<1>1. CASE UNCHANGED vars
  BY <1>1 DEF TypeOK, vars, revoked
<1>2. ASSUME NEW t \in Thread, Handle(t) PROVE TypeOK'
  <2>1. ASSUME NEW u \in Account, Authenticate(t, u) PROVE TypeOK'
    <3>1. [NoJob EXCEPT !.at = "open", !.by = u, !.on = u, !.pw = users[u].pw] \in Job
      BY NoJobType DEF TypeOK, Row, Job, Place
    <3> QED
      BY <2>1, <3>1, NewJobType DEF Authenticate, TypeOK, revoked
  <2>2. CASE StartSession(t)
    <3>1. [user |-> job[t].on, pw |-> job[t].pw, late |-> job[t].late] \in Session
      BY <2>2 DEF StartSession, TypeOK, JobOK, Job, Session
    <3> QED
      BY <2>2, <3>1, DoneType DEF StartSession, TypeOK, revoked
  <2>3. ASSUME NEW c \in Cookie, NEW work \in Work, Request(t, c, work) PROVE TypeOK'
    <3> DEFINE by == IF work \in Own THEN sessions[c].user ELSE None
    <3>1. (work \in Opening /\ sessions[c].late) \in BOOLEAN
      OBVIOUS
    <3>2. PICK late \in BOOLEAN :
            job' = [job EXCEPT ![t] = [NoJob EXCEPT !.at = work, !.by = by, !.late = late]]
      BY <2>3, <3>1, Zenon DEF Request
    <3>3. by \in Account \cup {None}
      BY <2>3 DEF Request, TypeOK, Session
    <3>4. [NoJob EXCEPT !.at = work, !.by = by, !.late = late] \in Job
      BY <3>3, NoJobType DEF Job, Work, Place
    <3> QED
      BY <2>3, <3>2, <3>4, NewJobType DEF Request, TypeOK, revoked
  <2>4. ASSUME NEW work \in Work, Command(t, work) PROVE TypeOK'
    <3>1. [NoJob EXCEPT !.at = work] \in Job
      BY NoJobType DEF Job, Work, Place
    <3> QED
      BY <2>4, <3>1, NewJobType DEF Command, TypeOK, revoked
  <2>5. ASSUME NEW u \in Account, NEW role \in Role, NEW must \in BOOLEAN,
               Create(t, u, role, must)
        PROVE TypeOK'
    <3>1. [NoRow EXCEPT !.role = role, !.active = TRUE, !.mustChange = must, !.pw = newest] \in Row
      BY NoRowType DEF TypeOK, Row, Role
    <3> QED
      BY <2>5, <3>1, DoneType DEF Create, TypeOK, revoked
  <2>6. ASSUME NEW u \in Account, NEW role \in Role \cup {None},
               NEW active \in BOOLEAN \cup {None},
               CheckRole(t, u, role, active)
        PROVE TypeOK'
    <3> DEFINE asked == [NoJob EXCEPT !.on = u, !.role = role, !.active = active,
                                      !.by = IF active = FALSE THEN job[t].by ELSE None]
    <3>1. asked \in Job
      BY NoJobType DEF TypeOK, Job
    <3>2. [asked EXCEPT !.at = "check"] \in Job /\ [asked EXCEPT !.at = "role"] \in Job
      <4> HIDE DEF asked
      <4> QED
        BY <3>1 DEF Job, Place
    <3>3. \/ Done(t)
          \/ job' = [job EXCEPT ![t] = [asked EXCEPT !.at = "check"]]
          \/ job' = [job EXCEPT ![t] = [asked EXCEPT !.at = "role"]]
      BY <2>6 DEF CheckRole
    <3>4. job' \in [Thread -> Job]
      BY <3>2, <3>3, DoneType, NewJobType DEF TypeOK
    <3>5. crossed' \in BOOLEAN
      BY <2>6 DEF CheckRole
    <3> QED
      BY <2>6, <3>4, <3>5 DEF CheckRole, TypeOK, revoked
  <2>7. CASE SetRole(t)
    <3>1. [users[job[t].on] EXCEPT !.role = job[t].role] \in Row
      BY <2>7 DEF SetRole, TypeOK, JobOK, Row
    <3>2. [job[t] EXCEPT !.at = "check", !.role = None] \in Job
      BY DEF TypeOK, Job, Place
    <3>3. job' \in [Thread -> Job]
      BY <2>7, <3>2, DoneType, NewJobType DEF SetRole, TypeOK
    <3> QED
      BY <2>7, <3>1, <3>3 DEF SetRole, TypeOK, revoked
  <2>8. CASE CheckActive(t)
    <3>1. [job[t] EXCEPT !.at = "active", !.by = None] \in Job
      BY DEF TypeOK, Job, Place
    <3>2. job' \in [Thread -> Job]
      BY <2>8, <3>1, DoneType, NewJobType DEF CheckActive, TypeOK
    <3>3. crossed' \in BOOLEAN
      BY <2>8 DEF CheckActive
    <3> QED
      BY <2>8, <3>2, <3>3 DEF CheckActive, TypeOK, revoked
  <2>9. CASE SetActive(t)
    <3>1. [users[job[t].on] EXCEPT !.active = job[t].active] \in Row
      BY <2>9 DEF SetActive, TypeOK, JobOK, Row
    <3>2. [NoJob EXCEPT !.at = "end", !.on = job[t].on] \in Job
      BY NoJobType DEF TypeOK, Job, Place
    <3>3. job' \in [Thread -> Job]
      BY <2>9, <3>2, DoneType, NewJobType DEF SetActive, TypeOK
    <3> QED
      BY <2>9, <3>1, <3>3 DEF SetActive, TypeOK, revoked
  <2>10. ASSUME NEW u \in Account, Reset(t, u) PROVE TypeOK'
    <3>1. [job[t] EXCEPT !.at = "end", !.on = u] \in Job
      BY DEF TypeOK, Job, Place
    <3>2. users[u] \in Row
      BY DEF TypeOK
    <3> QED
      BY <2>10, <3>1, <3>2, NewJobType, WritePasswordType DEF Reset, OldTakenAway, TypeOK
  <2>11. CASE ChangePassword(t)
    <3>1. job[t].by \in Account /\ users[job[t].by] \in Row
      BY <2>11 DEF ChangePassword, TypeOK, JobOK
    <3> QED
      BY <2>11, <3>1, DoneType, WritePasswordType DEF ChangePassword, TypeOK, revoked
  <2>12. CASE CompleteSetup(t)
    <3>1. job[t].by \in Account /\ users[job[t].by] \in Row
      BY <2>12 DEF CompleteSetup, TypeOK, JobOK
    <3>2. [users[job[t].by] EXCEPT !.bootstrap = FALSE] \in Row
      BY <3>1 DEF Row
    <3>3. newest' \in 0 .. MaxPasswords /\ newest' = newest + 1 /\ users' \in [Account -> Row]
      BY <2>12, <3>1, <3>2, WritePasswordType DEF CompleteSetup
    <3>4. [job[t] EXCEPT !.at = "claim", !.on = job[t].by, !.pw = newest'] \in Job
      BY <3>1, <3>3 DEF TypeOK, Job, Place
    <3> QED
      BY <2>12, <3>1, <3>3, <3>4, NewJobType DEF CompleteSetup, OldTakenAway, TypeOK
  <2>13. CASE EndSessions(t)
    <3> DEFINE on == job[t].on
    <3>1. PICK late \in [Thread -> BOOLEAN], next \in Job :
            job' = [o \in Thread |-> IF o = t THEN next ELSE [job[o] EXCEPT !.late = late[o]]]
      BY <2>13, EndSessionsJobs
    <3>2. \A o \in Thread : [job[o] EXCEPT !.late = late[o]] \in Job
      BY <3>1 DEF TypeOK, Job
    <3>3. job' \in [Thread -> Job]
      BY <3>1, <3>2
    <3> QED
      BY <2>13, <3>3 DEF EndSessions, TypeOK
  <2>14. CASE Refuse(t)
    BY <2>14, DoneType DEF Refuse, TypeOK, revoked
  <2>15. CASE Abort(t)
    BY <2>15, DoneType DEF Abort, TypeOK, JobOK
  <2> QED
    BY <1>2, <2>1, <2>2, <2>3, <2>4, <2>5, <2>6, <2>7, <2>8, <2>9, <2>10, <2>11, <2>12,
      <2>13, <2>14, <2>15 DEF Handle
<1>3. ASSUME NEW c \in Cookie, EndSession(c) PROVE TypeOK'
  BY <1>3, NoJobType DEF EndSession, revoked, TypeOK
<1> QED
  BY <1>1, <1>2, <1>3 DEF Next

(* Every step preserves JobOK.                                             *)
LEMMA JobStep == TypeOK /\ JobOK /\ [Next]_vars => JobOK'
<1> SUFFICES ASSUME TypeOK, JobOK, [Next]_vars PROVE JobOK'
  OBVIOUS
<1> USE DEF TypeOK, JobOK, Job, Row, Session, Role, Work, Own, Opening, Place
<1>1. CASE UNCHANGED vars
  BY <1>1 DEF vars, revoked
<1>2. ASSUME NEW t \in Thread, Handle(t) PROVE JobOK'
  <2>1. ASSUME NEW u \in Account, Authenticate(t, u) PROVE JobOK'
    BY <2>1 DEF Authenticate, NoJob, revoked
  <2>2. CASE StartSession(t)
    BY <2>2 DEF StartSession, Done, revoked, NoJob
  <2>3. ASSUME NEW c \in Cookie, NEW work \in Work, Request(t, c, work) PROVE JobOK'
    BY <2>3 DEF Request, NoJob, revoked
  <2>4. ASSUME NEW work \in Work, Command(t, work) PROVE JobOK'
    BY <2>4 DEF Command, NoJob, revoked
  <2>5. ASSUME NEW u \in Account, NEW role \in Role, NEW must \in BOOLEAN,
               Create(t, u, role, must)
        PROVE JobOK'
    BY <2>5 DEF Create, Done, NoRow, revoked, NoJob
  <2>6. ASSUME NEW u \in Account, NEW role \in Role \cup {None},
               NEW active \in BOOLEAN \cup {None},
               CheckRole(t, u, role, active)
        PROVE JobOK'
    <3> DEFINE asked == [NoJob EXCEPT !.on = u, !.role = role, !.active = active,
                                      !.by = IF active = FALSE THEN job[t].by ELSE None]
    <3>1. CASE Done(t)
      BY <3>1 DEF Done, NoJob
    <3>2. CASE role # None /\ job' = [job EXCEPT ![t] = [asked EXCEPT !.at = "role"]]
      BY <3>2 DEF NoJob
    <3>3. CASE role = None /\ job' = [job EXCEPT ![t] = [asked EXCEPT !.at = "check"]]
      <4>1. active \in BOOLEAN
        BY <2>6, <3>3, InputAssumption DEF CheckRole
      <4> QED
        BY <3>3, <4>1 DEF NoJob
    <3> QED
      BY <2>6, <3>1, <3>2, <3>3, Zenon DEF CheckRole
  <2>7. CASE SetRole(t)
    <3>1. CASE Done(t)
      BY <3>1 DEF Done, NoJob
    <3>2. CASE /\ job[t].active # None
               /\ job' = [job EXCEPT ![t] = [@ EXCEPT !.at = "check", !.role = None]]
      BY <2>7, <3>2 DEF SetRole
    <3> QED
      BY <2>7, <3>1, <3>2, Zenon DEF SetRole
  <2>8. CASE CheckActive(t)
    <3>1. CASE Done(t)
      BY <3>1 DEF Done, NoJob
    <3>2. CASE job' = [job EXCEPT ![t] = [@ EXCEPT !.at = "active", !.by = None]]
      BY <2>8, <3>2 DEF CheckActive
    <3> QED
      BY <2>8, <3>1, <3>2, Zenon DEF CheckActive
  <2>9. CASE SetActive(t)
    <3>1. CASE Done(t)
      BY <3>1 DEF Done, NoJob
    <3>2. CASE job' = [job EXCEPT ![t] = [NoJob EXCEPT !.at = "end", !.on = job[t].on]]
      BY <2>9, <3>2 DEF SetActive, NoJob
    <3> QED
      BY <2>9, <3>1, <3>2, Zenon DEF SetActive
  <2>10. ASSUME NEW u \in Account, Reset(t, u) PROVE JobOK'
    BY <2>10 DEF Reset, WritePassword, OldTakenAway
  <2>11. CASE ChangePassword(t)
    BY <2>11 DEF ChangePassword, Done, WritePassword, revoked, NoJob
  <2>12. CASE CompleteSetup(t)
    BY <2>12 DEF CompleteSetup, WritePassword, OldTakenAway
  <2>13. CASE EndSessions(t)
    BY <2>13 DEF EndSessions, NoJob, MarkLate
  <2>14. CASE Refuse(t)
    BY <2>14 DEF Refuse, Done, revoked, NoJob
  <2>15. CASE Abort(t)
    BY <2>15 DEF Abort, Done, NoJob
  <2> QED
    BY <1>2, <2>1, <2>2, <2>3, <2>4, <2>5, <2>6, <2>7, <2>8, <2>9, <2>10, <2>11, <2>12,
      <2>13, <2>14, <2>15 DEF Handle
<1>3. ASSUME NEW c \in Cookie, EndSession(c) PROVE JobOK'
  BY <1>3 DEF EndSession, revoked
<1> QED
  BY <1>1, <1>2, <1>3 DEF Next

(* Every step preserves PasswordOK.                                        *)
LEMMA PasswordStep == TypeOK /\ JobOK /\ PasswordOK /\ [Next]_vars => PasswordOK'
<1> SUFFICES ASSUME TypeOK, JobOK, PasswordOK, [Next]_vars PROVE PasswordOK'
  OBVIOUS
<1> USE DEF TypeOK, JobOK, PasswordOK, Row
<1>1. CASE UNCHANGED vars
  BY <1>1 DEF vars, revoked
<1>2. ASSUME NEW t \in Thread, Handle(t) PROVE PasswordOK'
  <2>1. ASSUME NEW u \in Account, Authenticate(t, u) PROVE PasswordOK'
    BY <2>1 DEF Authenticate, NoJob, revoked
  <2>2. CASE StartSession(t)
    BY <2>2 DEF StartSession, Done, revoked, NoJob
  <2>3. ASSUME NEW c \in Cookie, NEW work \in Work, Request(t, c, work) PROVE PasswordOK'
    BY <2>3 DEF Request, NoJob, revoked
  <2>4. ASSUME NEW work \in Work, Command(t, work) PROVE PasswordOK'
    BY <2>4 DEF Command, NoJob, revoked
  <2>5. ASSUME NEW u \in Account, NEW role \in Role, NEW must \in BOOLEAN,
               Create(t, u, role, must)
        PROVE PasswordOK'
    BY <2>5 DEF Create, Done, NoRow, revoked, NoJob
  <2>6. ASSUME NEW u \in Account, NEW role \in Role \cup {None},
               NEW active \in BOOLEAN \cup {None},
               CheckRole(t, u, role, active)
        PROVE PasswordOK'
    BY <2>6 DEF CheckRole, Done, NoJob, revoked
  <2>7. CASE SetRole(t)
    BY <2>7 DEF SetRole, Done, revoked, NoJob
  <2>8. CASE CheckActive(t)
    BY <2>8 DEF CheckActive, Done, revoked, NoJob
  <2>9. CASE SetActive(t)
    BY <2>9 DEF SetActive, Done, NoJob, revoked
  <2>10. ASSUME NEW u \in Account, Reset(t, u) PROVE PasswordOK'
    BY <2>10 DEF Reset, WritePassword, OldTakenAway
  <2>11. CASE ChangePassword(t)
    BY <2>11 DEF ChangePassword, Done, WritePassword, revoked, NoJob
  <2>12. CASE CompleteSetup(t)
    BY <2>12 DEF CompleteSetup, WritePassword, OldTakenAway
  <2>13. CASE EndSessions(t)
    BY <2>13 DEF EndSessions, NoJob, MarkLate
  <2>14. CASE Refuse(t)
    BY <2>14 DEF Refuse, Done, revoked, NoJob
  <2>15. CASE Abort(t)
    BY <2>15 DEF Abort, Done, NoJob
  <2> QED
    BY <1>2, <2>1, <2>2, <2>3, <2>4, <2>5, <2>6, <2>7, <2>8, <2>9, <2>10, <2>11, <2>12,
      <2>13, <2>14, <2>15 DEF Handle
<1>3. ASSUME NEW c \in Cookie, EndSession(c) PROVE PasswordOK'
  BY <1>3 DEF EndSession, revoked
<1> QED
  BY <1>1, <1>2, <1>3 DEF Next

(* Whoever is not the last administrator leaves one.                       *)
LEMMA OtherAdmin ==
  ASSUME ActiveAdmins # {}, NEW u \in Account, ~IsLastActiveAdmin(u)
  PROVE  ActiveAdmins \ {u} # {}
<1>1. CASE u \notin ActiveAdmins
  BY <1>1
<1>2. CASE u \in ActiveAdmins
  <2>1. ActiveAdmins # {u}
    <3>1. Cardinality({u}) = 1
      BY FS_Singleton
    <3> QED
      BY <1>2, <3>1 DEF IsLastActiveAdmin, ActiveAdmins
  <2> QED
    BY <1>2, <2>1
<1> QED
  BY <1>1, <1>2

(* A step that takes no administrator away and begins no change that does  *)
(* preserves AdminOK.                                                      *)
LEMMA AdminKept ==
  ASSUME AdminOK, crossed' = crossed, ActiveAdmins \subseteq ActiveAdmins',
         \A o \in Thread : Demotes(job'[o]) => Demotes(job[o]) /\ job'[o].on = job[o].on
  PROVE  AdminOK'
BY DEF AdminOK

(* A step that may begin to take u away finds another administrator, or a  *)
(* change that it crosses.                                                 *)
LEMMA BeginsToDemote ==
  ASSUME TypeOK, AdminOK, NEW t \in Thread, NEW u \in Account, job'[t].on = u,
         \A o \in Thread \ {t} : job'[o] = job[o],
         ActiveAdmins' = ActiveAdmins,
         crossed' = (crossed \/ (Demotes(job'[t]) /\ Overlaps(t))),
         Demotes(job'[t]) => ~IsLastActiveAdmin(u)
  PROVE  AdminOK'
<1> SUFFICES ASSUME ~crossed' PROVE AdminOK'
  BY DEF AdminOK
<1>1. ~crossed /\ ActiveAdmins # {}
  BY DEF AdminOK
<1>2. CASE ~Demotes(job'[t])
  BY <1>1, <1>2 DEF AdminOK
<1>3. CASE Demotes(job'[t])
  <2>1. \A o \in Thread \ {t} : ~Demotes(job'[o])
    BY <1>3 DEF Overlaps
  <2>2. ActiveAdmins' \ {u} # {}
    BY <1>1, <1>3, OtherAdmin
  <2> QED
    BY <1>1, <2>1, <2>2 DEF AdminOK
<1> QED
  BY <1>2, <1>3

(* A step that writes what was asked for u leaves another administrator.   *)
LEMMA EndsToDemote ==
  ASSUME AdminOK, NEW t \in Thread, crossed' = crossed,
         ~Demotes(job'[t]), \A o \in Thread \ {t} : job'[o] = job[o],
         ActiveAdmins \ {job[t].on} \subseteq ActiveAdmins',
         Demotes(job[t]) \/ ActiveAdmins \subseteq ActiveAdmins'
  PROVE  AdminOK'
<1> SUFFICES ASSUME ~crossed PROVE AdminOK'
  BY DEF AdminOK
<1>1. CASE ActiveAdmins \subseteq ActiveAdmins'
  <2>1. \A o \in Thread : Demotes(job'[o]) => Demotes(job[o]) /\ job'[o].on = job[o].on
    OBVIOUS
  <2> QED
    BY <1>1, <2>1, AdminKept
<1>2. CASE Demotes(job[t])
  <2>1. ActiveAdmins' # {} /\ \A o \in Thread : ~Demotes(job'[o])
    BY <1>2 DEF AdminOK
  <2> QED
    BY <2>1 DEF AdminOK
<1> QED
  BY <1>1, <1>2

(* Every step preserves AdminOK.                                           *)
LEMMA AdminStep == TypeOK /\ JobOK /\ AdminOK /\ [Next]_vars => AdminOK'
<1> SUFFICES ASSUME TypeOK, JobOK, AdminOK, [Next]_vars PROVE AdminOK'
  OBVIOUS
<1> USE DEF TypeOK, JobOK, Job, Row
<1>1. CASE UNCHANGED vars
  BY <1>1, AdminKept DEF vars, ActiveAdmins, ActiveAdmin
<1>2. ASSUME NEW t \in Thread, Handle(t) PROVE AdminOK'
  <2>1. ASSUME NEW u \in Account, Authenticate(t, u) PROVE AdminOK'
    <3>1. \A o \in Thread : Demotes(job'[o]) => Demotes(job[o]) /\ job'[o].on = job[o].on
      BY <2>1 DEF Authenticate, NoJob, Demotes
    <3>2. crossed' = crossed /\ ActiveAdmins \subseteq ActiveAdmins'
      BY <2>1 DEF Authenticate, NoJob, ActiveAdmins, ActiveAdmin
    <3> QED
      BY <3>1, <3>2, AdminKept
  <2>2. CASE StartSession(t)
    <3>1. \A o \in Thread : Demotes(job'[o]) => Demotes(job[o]) /\ job'[o].on = job[o].on
      BY <2>2 DEF StartSession, Done, NoJob, Demotes
    <3>2. crossed' = crossed /\ ActiveAdmins \subseteq ActiveAdmins'
      BY <2>2 DEF StartSession, Done, NoJob, ActiveAdmins, ActiveAdmin
    <3> QED
      BY <3>1, <3>2, AdminKept
  <2>3. ASSUME NEW c \in Cookie, NEW work \in Work, Request(t, c, work) PROVE AdminOK'
    <3>1. \A o \in Thread : Demotes(job'[o]) => Demotes(job[o]) /\ job'[o].on = job[o].on
      BY <2>3 DEF Request, NoJob, Work, Demotes
    <3>2. crossed' = crossed /\ ActiveAdmins \subseteq ActiveAdmins'
      BY <2>3 DEF Request, NoJob, Work, ActiveAdmins, ActiveAdmin
    <3> QED
      BY <3>1, <3>2, AdminKept
  <2>4. ASSUME NEW work \in Work, Command(t, work) PROVE AdminOK'
    <3>1. \A o \in Thread : Demotes(job'[o]) => Demotes(job[o]) /\ job'[o].on = job[o].on
      BY <2>4 DEF Command, NoJob, Work, Demotes
    <3>2. crossed' = crossed /\ ActiveAdmins \subseteq ActiveAdmins'
      BY <2>4 DEF Command, NoJob, Work, ActiveAdmins, ActiveAdmin
    <3> QED
      BY <3>1, <3>2, AdminKept
  <2>5. ASSUME NEW u \in Account, NEW role \in Role, NEW must \in BOOLEAN,
               Create(t, u, role, must)
        PROVE AdminOK'
    <3>1. \A o \in Thread : Demotes(job'[o]) => Demotes(job[o]) /\ job'[o].on = job[o].on
      BY <2>5 DEF Create, Done, NoJob, Exists, Demotes
    <3>2. crossed' = crossed /\ ActiveAdmins \subseteq ActiveAdmins'
      BY <2>5 DEF Create, Done, NoJob, Exists, ActiveAdmins, ActiveAdmin
    <3> QED
      BY <3>1, <3>2, AdminKept
  <2>6. ASSUME NEW u \in Account, NEW role \in Role \cup {None},
               NEW active \in BOOLEAN \cup {None},
               CheckRole(t, u, role, active)
        PROVE AdminOK'
    <3> DEFINE asked == [NoJob EXCEPT !.on = u, !.role = role, !.active = active,
                                      !.by = IF active = FALSE THEN job[t].by ELSE None]
    <3>1. ActiveAdmins' = ActiveAdmins /\ crossed' = (crossed \/ (Demotes(job'[t]) /\ Overlaps(t)))
      BY <2>6 DEF CheckRole, ActiveAdmins, ActiveAdmin
    <3>2. CASE Done(t) \/ job' = [job EXCEPT ![t] = [asked EXCEPT !.at = "check"]]
      <4>1. job'[t].at \in {"idle", "check"} /\ \A o \in Thread \ {t} : job'[o] = job[o]
        <5>1. CASE Done(t)
          BY <5>1 DEF Done, NoJob
        <5>2. CASE job' = [job EXCEPT ![t] = [asked EXCEPT !.at = "check"]]
          BY <5>2 DEF NoJob
        <5> QED
          BY <3>2, <5>1, <5>2
      <4>2. ~Demotes(job'[t])
        BY <4>1 DEF Demotes
      <4> QED
        BY <3>1, <4>1, <4>2, AdminKept
    <3>3. CASE /\ ~(role = "staff" /\ IsLastActiveAdmin(u))
               /\ job' = [job EXCEPT ![t] = [asked EXCEPT !.at = "role"]]
      <4>1. job'[t].on = u /\ (Demotes(job'[t]) => role = "staff")
        BY <3>3 DEF NoJob, Demotes
      <4>2. \A o \in Thread \ {t} : job'[o] = job[o]
        BY <3>3
      <4> QED
        BY <3>1, <3>3, <4>1, <4>2, BeginsToDemote
    <3> QED
      BY <2>6, <3>2, <3>3, Zenon DEF CheckRole
  <2>7. CASE SetRole(t)
    <3>1. crossed' = crossed /\ job[t].on \in Account /\ job[t].role \in Role
      BY <2>7 DEF SetRole
    <3>2. ~Demotes(job'[t]) /\ \A o \in Thread \ {t} : job'[o] = job[o]
      <4>1. job'[t].at \in {"idle", "check", "end"} /\ \A o \in Thread \ {t} : job'[o] = job[o]
        <5>1. CASE Done(t)
          BY <5>1 DEF Done, NoJob
        <5>2. CASE ~Done(t)
          BY <2>7, <5>2 DEF SetRole, NoJob
        <5> QED
          BY <5>1, <5>2
      <4> QED
        BY <4>1 DEF Demotes
    <3>3. ActiveAdmins \ {job[t].on} \subseteq ActiveAdmins'
      BY <2>7 DEF SetRole, ActiveAdmins, ActiveAdmin
    <3>4. Demotes(job[t]) \/ ActiveAdmins \subseteq ActiveAdmins'
      BY <2>7, <3>1 DEF SetRole, ActiveAdmins, ActiveAdmin, Demotes, Role
    <3> QED
      BY <3>1, <3>2, <3>3, <3>4, EndsToDemote
  <2>8. CASE CheckActive(t)
    <3>1. ActiveAdmins' = ActiveAdmins /\ crossed' = (crossed \/ (Demotes(job'[t]) /\ Overlaps(t)))
      BY <2>8 DEF CheckActive, ActiveAdmins, ActiveAdmin
    <3>2. job[t].on \in Account /\ job[t].active \in BOOLEAN
      BY <2>8 DEF CheckActive
    <3>3. CASE Done(t)
      <4>1. \A o \in Thread : Demotes(job'[o]) => Demotes(job[o]) /\ job'[o].on = job[o].on
        BY <3>3 DEF Done, NoJob, Demotes
      <4>2. ~Demotes(job'[t])
        BY <3>3 DEF Done, NoJob, Demotes
      <4> QED
        BY <3>1, <4>1, <4>2, AdminKept
    <3>4. CASE /\ ~(~job[t].active /\ (job[t].on = job[t].by \/ IsLastActiveAdmin(job[t].on)))
               /\ job' = [job EXCEPT ![t] = [@ EXCEPT !.at = "active", !.by = None]]
      <4>1. job'[t].on = job[t].on /\ (Demotes(job'[t]) => ~job[t].active)
        BY <3>2, <3>4 DEF Demotes
      <4>2. \A o \in Thread \ {t} : job'[o] = job[o]
        BY <3>4
      <4>3. Demotes(job'[t]) => ~IsLastActiveAdmin(job[t].on)
        BY <3>4, <4>1
      <4> QED
        BY <3>1, <3>2, <4>1, <4>2, <4>3, BeginsToDemote
    <3> QED
      BY <2>8, <3>3, <3>4, Zenon DEF CheckActive
  <2>9. CASE SetActive(t)
    <3>1. crossed' = crossed /\ job[t].on \in Account /\ job[t].active \in BOOLEAN
      BY <2>9 DEF SetActive
    <3>2. ~Demotes(job'[t]) /\ \A o \in Thread \ {t} : job'[o] = job[o]
      <4>1. job'[t].at \in {"idle", "check", "end"} /\ \A o \in Thread \ {t} : job'[o] = job[o]
        <5>1. CASE Done(t)
          BY <5>1 DEF Done, NoJob
        <5>2. CASE ~Done(t)
          BY <2>9, <5>2 DEF SetActive, NoJob
        <5> QED
          BY <5>1, <5>2
      <4> QED
        BY <4>1 DEF Demotes
    <3>3. ActiveAdmins \ {job[t].on} \subseteq ActiveAdmins'
      BY <2>9 DEF SetActive, ActiveAdmins, ActiveAdmin
    <3>4. Demotes(job[t]) \/ ActiveAdmins \subseteq ActiveAdmins'
      BY <2>9, <3>1 DEF SetActive, ActiveAdmins, ActiveAdmin, Demotes
    <3> QED
      BY <3>1, <3>2, <3>3, <3>4, EndsToDemote
  <2>10. ASSUME NEW u \in Account, Reset(t, u) PROVE AdminOK'
    <3>1. \A o \in Thread : Demotes(job'[o]) => Demotes(job[o]) /\ job'[o].on = job[o].on
      BY <2>10 DEF Reset, WritePassword, Demotes
    <3>2. crossed' = crossed /\ ActiveAdmins \subseteq ActiveAdmins'
      BY <2>10 DEF Reset, WritePassword, ActiveAdmins, ActiveAdmin
    <3> QED
      BY <3>1, <3>2, AdminKept
  <2>11. CASE ChangePassword(t)
    <3>1. \A o \in Thread : Demotes(job'[o]) => Demotes(job[o]) /\ job'[o].on = job[o].on
      BY <2>11 DEF ChangePassword, Done, NoJob, WritePassword, Demotes
    <3>2. crossed' = crossed /\ ActiveAdmins \subseteq ActiveAdmins'
      BY <2>11 DEF ChangePassword, Done, NoJob, WritePassword, ActiveAdmins, ActiveAdmin
    <3> QED
      BY <3>1, <3>2, AdminKept
  <2>12. CASE CompleteSetup(t)
    <3>1. \A o \in Thread : Demotes(job'[o]) => Demotes(job[o]) /\ job'[o].on = job[o].on
      BY <2>12 DEF CompleteSetup, WritePassword, Demotes
    <3>2. crossed' = crossed /\ ActiveAdmins \subseteq ActiveAdmins'
      BY <2>12 DEF CompleteSetup, WritePassword, ActiveAdmins, ActiveAdmin
    <3> QED
      BY <3>1, <3>2, AdminKept
  <2>13. CASE EndSessions(t)
    <3>1. \A o \in Thread : Demotes(job'[o]) => Demotes(job[o]) /\ job'[o].on = job[o].on
      BY <2>13 DEF EndSessions, MarkLate, NoJob, Demotes
    <3>2. crossed' = crossed /\ ActiveAdmins \subseteq ActiveAdmins'
      BY <2>13 DEF EndSessions, MarkLate, NoJob, ActiveAdmins, ActiveAdmin
    <3> QED
      BY <3>1, <3>2, AdminKept
  <2>14. CASE Refuse(t)
    <3>1. \A o \in Thread : Demotes(job'[o]) => Demotes(job[o]) /\ job'[o].on = job[o].on
      BY <2>14 DEF Refuse, Done, NoJob, Demotes
    <3>2. crossed' = crossed /\ ActiveAdmins \subseteq ActiveAdmins'
      BY <2>14 DEF Refuse, Done, NoJob, ActiveAdmins, ActiveAdmin
    <3> QED
      BY <3>1, <3>2, AdminKept
  <2>15. CASE Abort(t)
    <3>1. \A o \in Thread : Demotes(job'[o]) => Demotes(job[o]) /\ job'[o].on = job[o].on
      BY <2>15 DEF Abort, Done, NoJob, Demotes
    <3>2. crossed' = crossed /\ ActiveAdmins \subseteq ActiveAdmins'
      BY <2>15 DEF Abort, Done, NoJob, ActiveAdmins, ActiveAdmin
    <3> QED
      BY <3>1, <3>2, AdminKept
  <2> QED
    BY <1>2, <2>1, <2>2, <2>3, <2>4, <2>5, <2>6, <2>7, <2>8, <2>9, <2>10, <2>11, <2>12,
      <2>13, <2>14, <2>15 DEF Handle
<1>3. ASSUME NEW c \in Cookie, EndSession(c) PROVE AdminOK'
  <2>1. \A o \in Thread : Demotes(job'[o]) => Demotes(job[o]) /\ job'[o].on = job[o].on
  BY <1>3 DEF EndSession, Demotes
  <2>2. crossed' = crossed /\ ActiveAdmins \subseteq ActiveAdmins'
  BY <1>3 DEF EndSession, ActiveAdmins, ActiveAdmin
  <2> QED
  BY <2>1, <2>2, AdminKept
<1> QED
  BY <1>1, <1>2, <1>3 DEF Next

(* What stands goes on standing, whatever a handler does but ending        *)
(* sessions.                                                               *)
LEMMA StandsStill ==
  ASSUME TypeOK, JobOK, PasswordOK, NEW t \in Thread, Handle(t), ~EndSessions(t),
         NEW u \in Account, NEW pw \in 0 .. MaxPasswords, NEW late \in BOOLEAN,
         Stands(u, pw, late)
  PROVE  Stands(u, pw, late)'
<1> USE DEF TypeOK, JobOK, Job, Row, Stands, Ending, NoJob
<1>1. ASSUME NEW v \in Account, Authenticate(t, v)
     PROVE  Stands(u, pw, late)'
  BY <1>1 DEF Authenticate, revoked
<1>2. CASE StartSession(t)
  BY <1>2 DEF StartSession, Done, revoked
<1>3. ASSUME NEW c \in Cookie, NEW work \in Work, Request(t, c, work)
     PROVE  Stands(u, pw, late)'
  BY <1>3 DEF Request, revoked
<1>4. ASSUME NEW work \in Work, Command(t, work)
     PROVE  Stands(u, pw, late)'
  BY <1>4 DEF Command, revoked
<1>5. ASSUME NEW v \in Account, NEW role \in Role, NEW must \in BOOLEAN,
             Create(t, v, role, must)
     PROVE  Stands(u, pw, late)'
  BY <1>5 DEF Create, Done, Exists, revoked
<1>6. ASSUME NEW v \in Account, NEW role \in Role \cup {None},
             NEW active \in BOOLEAN \cup {None},
             CheckRole(t, v, role, active)
     PROVE  Stands(u, pw, late)'
  BY <1>6 DEF CheckRole, Done, revoked
<1>7. CASE SetRole(t)
  BY <1>7 DEF SetRole, Done, revoked
<1>8. CASE CheckActive(t)
  BY <1>8 DEF CheckActive, Done, revoked
<1>9. CASE SetActive(t)
  <2>1. job[t].on \in Account /\ job[t].active \in BOOLEAN /\ job[t].at = "active"
    BY <1>9 DEF SetActive
  <2>2. CASE job[t].active
    BY <1>9, <2>1, <2>2 DEF SetActive, Done, revoked
  <2>3. CASE ~job[t].active
    <3>1. job' = [job EXCEPT ![t] = [NoJob EXCEPT !.at = "end", !.on = job[t].on]]
      BY <1>9, <2>3 DEF SetActive
    <3>2. (u = job[t].on => Ending(u)') /\ (Ending(u) => Ending(u)')
      BY <2>1, <3>1
    <3>3. users'[u] = users[u] \/ u = job[t].on
      BY <1>9, <2>1 DEF SetActive
    <3> HIDE DEF Ending
    <3>4. torn' = torn /\ good' = good
      BY <1>9 DEF SetActive, revoked
    <3> QED
      BY <3>2, <3>3, <3>4
  <2> QED
    BY <2>1, <2>2, <2>3
<1>10. ASSUME NEW v \in Account, Reset(t, v)
     PROVE  Stands(u, pw, late)'
  BY <1>10 DEF Reset, WritePassword, OldTakenAway, revoked
<1>11. CASE ChangePassword(t)
  BY <1>11 DEF ChangePassword, Done, WritePassword, revoked
<1>12. CASE CompleteSetup(t)
  BY <1>12 DEF CompleteSetup, WritePassword, OldTakenAway, revoked
<1>13. CASE Refuse(t)
  BY <1>13 DEF Refuse, Work, Done, revoked
<1>14. CASE Abort(t)
  BY <1>14 DEF Abort, Done, revoked
<1> HIDE DEF TypeOK, JobOK, Job, Row, Stands, Ending, NoJob
<1> QED
  BY <1>1, <1>2, <1>3, <1>4, <1>5, <1>6, <1>7, <1>8, <1>9, <1>10, <1>11, <1>12, <1>13, <1>14
     DEF Handle

(* But for the end of a claim, a handler is about to open a session only    *)
(* after its user has signed in.                                           *)
LEMMA OpensAfterSignIn ==
  ASSUME TypeOK, NEW t \in Thread, Handle(t), ~EndSessions(t),
         NEW o \in Thread, job'[o].at = "open", job'[o] # job[o]
  PROVE  \E v \in Account : Authenticate(t, v) /\ o = t
<1> SUFFICES ASSUME \A v \in Account : ~Authenticate(t, v)
             PROVE  \E j : j.at # "open" /\ job' = [job EXCEPT ![t] = j]
  <2>1. ASSUME NEW v \in Account, Authenticate(t, v) PROVE o = t
    BY <2>1 DEF Authenticate, TypeOK
  <2>2. ASSUME NEW j, j.at # "open", job' = [job EXCEPT ![t] = j] PROVE FALSE
    BY <2>2 DEF TypeOK
  <2> QED
    BY <2>1, <2>2
<1>0. NoJob.at # "open"
  BY DEF NoJob
<1>1. CASE StartSession(t)
  BY <1>0, <1>1, Zenon DEF StartSession, Done
<1>2. ASSUME NEW c \in Cookie, NEW work \in Work, Request(t, c, work)
      PROVE  \E j : j.at # "open" /\ job' = [job EXCEPT ![t] = j]
  <2> DEFINE j == [NoJob EXCEPT !.at = work,
                                !.by = IF work \in Own THEN sessions[c].user ELSE None,
                                !.late = work \in Opening /\ sessions[c].late]
  <2>1. j.at # "open"
    BY DEF NoJob, Work
  <2> QED
    BY <1>2, <2>1, Zenon DEF Request
<1>3. ASSUME NEW work \in Work, Command(t, work)
      PROVE  \E j : j.at # "open" /\ job' = [job EXCEPT ![t] = j]
  <2>1. [NoJob EXCEPT !.at = work].at # "open"
    BY DEF NoJob, Work
  <2> QED
    BY <1>3, <2>1, Zenon DEF Command
<1>4. ASSUME NEW v \in Account, NEW role \in Role, NEW must \in BOOLEAN,
             Create(t, v, role, must)
      PROVE  \E j : j.at # "open" /\ job' = [job EXCEPT ![t] = j]
  BY <1>0, <1>4, Zenon DEF Create, Done
<1>5. ASSUME NEW v \in Account, NEW role \in Role \cup {None},
             NEW active \in BOOLEAN \cup {None}, CheckRole(t, v, role, active)
      PROVE  \E j : j.at # "open" /\ job' = [job EXCEPT ![t] = j]
  <2> DEFINE asked == [NoJob EXCEPT !.on = v, !.role = role, !.active = active,
                                    !.by = IF active = FALSE THEN job[t].by ELSE None]
  <2>1. [asked EXCEPT !.at = "check"].at # "open" /\ [asked EXCEPT !.at = "role"].at # "open"
    BY DEF NoJob
  <2> HIDE DEF asked
  <2>2. \/ Done(t)
        \/ job' = [job EXCEPT ![t] = [asked EXCEPT !.at = "check"]]
        \/ job' = [job EXCEPT ![t] = [asked EXCEPT !.at = "role"]]
    BY <1>5 DEF CheckRole, asked
  <2> QED
    BY <1>0, <2>1, <2>2, Zenon DEF Done
<1>6. CASE SetRole(t)
  <2>1. [job[t] EXCEPT !.at = "check", !.role = None].at # "open"
    BY DEF TypeOK, Job, NoJob
  <2> QED
    BY <1>6, <1>0, <2>1, Zenon DEF SetRole, Done
<1>7. CASE CheckActive(t)
  <2>1. [job[t] EXCEPT !.at = "active", !.by = None].at # "open"
    BY DEF TypeOK, Job, NoJob
  <2> QED
    BY <1>7, <1>0, <2>1, Zenon DEF CheckActive, Done
<1>8. CASE SetActive(t)
  <2>1. [NoJob EXCEPT !.at = "end", !.on = job[t].on].at # "open"
    BY DEF TypeOK, Job, NoJob
  <2> QED
    BY <1>8, <1>0, <2>1, Zenon DEF SetActive, Done
<1>9. ASSUME NEW v \in Account, Reset(t, v)
      PROVE  \E j : j.at # "open" /\ job' = [job EXCEPT ![t] = j]
  <2>1. [job[t] EXCEPT !.at = "end", !.on = v].at # "open"
    BY DEF TypeOK, Job, NoJob
  <2> QED
    BY <1>9, <1>0, <2>1, Zenon DEF Reset
<1>10. CASE ChangePassword(t)
  BY <1>0, <1>10, Zenon DEF ChangePassword, Done
<1>11. CASE CompleteSetup(t)
  <2>1. [job[t] EXCEPT !.at = "claim", !.on = job[t].by, !.pw = newest'].at # "open"
    BY DEF TypeOK, Job, NoJob
  <2> QED
    BY <1>11, <1>0, <2>1, Zenon DEF CompleteSetup
<1>12. CASE Refuse(t)
  BY <1>0, <1>12, Zenon DEF Refuse, Done
<1>13. CASE Abort(t)
  BY <1>0, <1>13, Zenon DEF Abort, Done
<1> QED
  BY <1>1, <1>2, <1>3, <1>4, <1>5, <1>6, <1>7, <1>8, <1>9, <1>10, <1>11, <1>12, <1>13 DEF Handle

(* Ending the sessions of one account lets those of the others stand.      *)
LEMMA OthersStand ==
  ASSUME TypeOK, JobOK, NEW t \in Thread, EndSessions(t),
         NEW u \in Account \ {job[t].on}, NEW pw \in 0 .. MaxPasswords, NEW late \in BOOLEAN,
         Stands(u, pw, late)
  PROVE  Stands(u, pw, late)'
<1>1. Ending(u) => Ending(u)'
  <2> SUFFICES ASSUME NEW o \in Thread, job[o].at \in {"end", "claim"}, job[o].on = u
               PROVE  job'[o].at = job[o].at /\ job'[o].on = u
    BY DEF Ending
  <2> QED
    BY DEF EndSessions, MarkLate, TypeOK, Job
<1>2. users' = users /\ good' = good /\ torn' = torn \ {job[t].on}
  BY DEF EndSessions
<1> QED
  BY <1>1, <1>2 DEF Stands

(* Every step preserves OpeningOK.                                         *)
LEMMA OpeningStep ==
  TypeOK /\ JobOK /\ PasswordOK /\ OpeningOK /\ [Next]_vars /\ TypeOK' /\ JobOK'
    => OpeningOK'
<1> SUFFICES ASSUME TypeOK, JobOK, PasswordOK, OpeningOK, [Next]_vars,
                    NEW o \in Thread, job'[o].at = "open",
                    NEW u \in Account, NEW pw \in 0 .. MaxPasswords, NEW late \in BOOLEAN,
                    job'[o].on = u, job'[o].pw = pw, job'[o].late = late
             PROVE  Stands(u, pw, late)'
  BY DEF OpeningOK, TypeOK, JobOK, Job
<1>0. ASSUME job[o].at = "open", job[o].on = u, job[o].pw = pw, job[o].late = late
      PROVE  Stands(u, pw, late)
  BY <1>0 DEF OpeningOK
<1>1. CASE UNCHANGED vars
  BY <1>0, <1>1 DEF vars, revoked, Stands, Ending
<1>2. ASSUME NEW c \in Cookie, EndSession(c) PROVE Stands(u, pw, late)'
  BY <1>0, <1>2 DEF EndSession, revoked, Stands, Ending
<1>3. ASSUME NEW t \in Thread, Handle(t), ~EndSessions(t) PROVE Stands(u, pw, late)'
  <2>1. CASE job'[o] = job[o]
    BY <1>0, <1>3, <2>1, StandsStill
  <2>2. ASSUME NEW v \in Account, Authenticate(t, v), o = t PROVE Stands(u, pw, late)'
    <3>1. u = v /\ pw = users[v].pw /\ users[v].active
      BY <2>2 DEF Authenticate, TypeOK
    <3>2. users' = users /\ good' = good
      BY <2>2 DEF Authenticate, revoked
    <3> QED
      BY <3>1, <3>2 DEF Stands, PasswordOK, TypeOK, Row
  <2>3. job'[o] = job[o] \/ \E v \in Account : Authenticate(t, v) /\ o = t
    BY <1>3, OpensAfterSignIn
  <2> QED
    BY <2>1, <2>2, <2>3
<1>4. ASSUME NEW t \in Thread, EndSessions(t) PROVE Stands(u, pw, late)'
  <2>1. users' = users /\ good' = good
    BY <1>4 DEF EndSessions
  <2>2. CASE o = t
    <3>1. job[t].at = "claim" /\ job[t].pw = pw /\ job[t].on = u
      BY <1>4, <2>2 DEF EndSessions, MarkLate, NoJob, TypeOK, Job
    <3>2. late \/ (pw = users[u].pw /\ users[u].active)
      BY <1>4, <2>2, <3>1 DEF EndSessions, MarkLate, TypeOK, Job
    <3> QED
      BY <2>1, <3>2 DEF Stands, PasswordOK, TypeOK, Row
  <2>3. CASE o # t
    <3>1. /\ job[o].at = "open" /\ job[o].on = u /\ job[o].pw = pw
          /\ late = (job[o].late \/ job[o].by = job[t].on)
      BY <1>4, <2>3 DEF EndSessions, MarkLate, TypeOK, Job, Opening
    <3>2. CASE late
      BY <3>2 DEF Stands
    <3>3. CASE ~late
      <4>1. u # job[t].on /\ job[o].late = late
        BY <3>1, <3>3 DEF JobOK, TypeOK, Job
      <4> QED
        BY <1>0, <1>4, <3>1, <4>1, OthersStand
    <3> QED
      BY <3>2, <3>3
  <2> QED
    BY <2>2, <2>3
<1> QED
  BY <1>1, <1>2, <1>3, <1>4 DEF Next

(* Every step preserves RevokedStaysOut.                                   *)
LEMMA RevokedStep ==
  TypeOK /\ JobOK /\ PasswordOK /\ OpeningOK /\ RevokedStaysOut /\ [Next]_vars /\ TypeOK'
    => RevokedStaysOut'
<1> SUFFICES ASSUME TypeOK, JobOK, PasswordOK, OpeningOK, RevokedStaysOut, [Next]_vars,
                    NEW c \in Cookie, sessions'[c] # None,
                    NEW u \in Account, NEW pw \in 0 .. MaxPasswords, NEW late \in BOOLEAN,
                    sessions'[c] = [user |-> u, pw |-> pw, late |-> late]
             PROVE  Stands(u, pw, late)'
  BY DEF RevokedStaysOut, Stands, TypeOK, Session
<1>0. ASSUME sessions'[c] = sessions[c] PROVE Stands(u, pw, late)
  BY <1>0 DEF RevokedStaysOut, Stands
<1>1. CASE UNCHANGED vars
  BY <1>0, <1>1 DEF vars, revoked, Stands, Ending
<1>2. ASSUME NEW d \in Cookie, EndSession(d) PROVE Stands(u, pw, late)'
  <2>1. sessions'[c] = sessions[c]
    BY <1>2 DEF EndSession, TypeOK
  <2> QED
    BY <1>0, <1>2, <2>1 DEF EndSession, revoked, Stands, Ending
<1>3. ASSUME NEW t \in Thread, Handle(t), ~EndSessions(t) PROVE Stands(u, pw, late)'
  <2>1. CASE sessions'[c] = sessions[c]
    BY <1>0, <1>3, <2>1, StandsStill
  <2>2. CASE /\ job[t].at = "open"
             /\ sessions'[c] = [user |-> job[t].on, pw |-> job[t].pw, late |-> job[t].late]
    <3>1. job[t].on = u /\ job[t].pw = pw /\ job[t].late = late
      BY <2>2
    <3>2. Stands(u, pw, late)
      BY <2>2, <3>1 DEF OpeningOK
    <3> QED
      BY <1>3, <3>2, StandsStill
  <2>3. \/ sessions'[c] = sessions[c]
        \/ /\ job[t].at = "open"
           /\ sessions'[c] = [user |-> job[t].on, pw |-> job[t].pw, late |-> job[t].late]
    <3>1. sessions' = sessions \/ StartSession(t)
      BY <1>3 DEF Handle, Authenticate, Request, Command, Create, CheckRole, SetRole,
        CheckActive, SetActive, Reset, ChangePassword, CompleteSetup, Refuse, Abort
    <3> QED
      BY <3>1 DEF StartSession, TypeOK
  <2> QED
    BY <2>1, <2>2, <2>3
<1>4. ASSUME NEW t \in Thread, EndSessions(t) PROVE Stands(u, pw, late)'
  <2>1. sessions'[c] = sessions[c] /\ u # job[t].on
    BY <1>4 DEF EndSessions, TypeOK
  <2> QED
    BY <1>0, <1>4, <2>1, OthersStand
<1> QED
  BY <1>1, <1>2, <1>3, <1>4 DEF Next

----------------------------------------------------------------------------
(* The accounts at the beginning: there is an administrator.               *)
LEMMA InitRows ==
  Init => /\ users \in [Account -> Row] /\ \A u \in Account : users[u].pw = 0
          /\ ActiveAdmins # {}
<1> DEFINE First == /\ users \in [Account -> Row] /\ \A u \in Account : users[u].pw = 0
                    /\ ActiveAdmins # {}
<1>1. ASSUME users = NewSystem PROVE First
  <2>1. Bootstrap \in Row /\ Bootstrap.pw = 0 /\ NoRow.pw = 0
    BY NoRowType DEF Bootstrap, NoRow, Row, Role
  <2>2. users \in [Account -> Row] /\ \A u \in Account : users[u].pw = 0
    BY <1>1, <2>1, NoRowType DEF NewSystem
  <2>3. Founder \in ActiveAdmins
    BY <1>1, FounderAssumption DEF NewSystem, Bootstrap, NoRow, ActiveAdmins, ActiveAdmin
  <2> QED
    BY <2>2, <2>3
<1>2. ASSUME NEW admins \in SUBSET Account, Cardinality(admins) > 1, users = InUse(admins)
      PROVE  First
  <2>1. PICK a \in Account : a \in admins
    <3>1. Cardinality({}) = 0
      BY FS_EmptySet
    <3>2. admins # {}
      BY <1>2, <3>1
    <3> QED
      BY <3>2
  <2>2. a \in ActiveAdmins
    BY <1>2, <2>1 DEF InUse, NoRow, ActiveAdmins, ActiveAdmin
  <2>3. ASSUME NEW role \in Role
        PROVE  /\ [NoRow EXCEPT !.role = role, !.active = TRUE] \in Row
               /\ [NoRow EXCEPT !.role = role, !.active = TRUE].pw = 0
    BY NoRowType DEF NoRow, Row
  <2>4. \A u \in Account : (IF u \in admins THEN "admin" ELSE "staff") \in Role
    BY DEF Role
  <2>5. users \in [Account -> Row] /\ \A u \in Account : users[u].pw = 0
    BY <1>2, <2>3, <2>4 DEF InUse
  <2> QED
    BY <2>2, <2>5
<1> QED
  BY <1>1, <1>2 DEF Init

(* The system in its initial states.                                       *)
LEMMA IInvInit == Init => IInv
<1> SUFFICES ASSUME Init PROVE IInv
  OBVIOUS
<1>1. sessions = [c \in Cookie |-> None] /\ job = [t \in Thread |-> NoJob]
      /\ newest = 0 /\ good = [u \in Account |-> 0] /\ torn = {} /\ crossed = FALSE
  BY DEF Init
<1>2. 0 \in 0 .. MaxPasswords
  BY AccountBounds
<1>3. TypeOK
  <2>1. job \in [Thread -> Job]
    BY <1>1, NoJobType
  <2>2. sessions \in [Cookie -> Session \cup {None}]
    BY <1>1
  <2> QED
    BY <1>1, <1>2, <2>1, <2>2, InitRows DEF TypeOK
<1>4. \A t \in Thread : job[t].at = "idle"
  BY <1>1 DEF NoJob
<1>5. JobOK /\ OpeningOK
  BY <1>4 DEF JobOK, OpeningOK
<1>6. AdminOK
  BY <1>4, InitRows DEF AdminOK, Demotes
<1>7. PasswordOK /\ RevokedStaysOut
  BY <1>1, InitRows DEF PasswordOK, RevokedStaysOut
<1> QED
  BY <1>3, <1>5, <1>6, <1>7 DEF IInv

(* Every step preserves the inductive invariant.                           *)
LEMMA IInvStep == IInv /\ [Next]_vars => IInv'
BY TypeStep, JobStep, AdminStep, PasswordStep, OpeningStep, RevokedStep DEF IInv

(* The inductive invariant holds in every state that can be reached.       *)
THEOREM AccountsInvariance == Spec => []IInv
<1>1. Init => IInv
  BY IInvInit
<1>2. IInv /\ [Next]_vars => IInv'
  BY IInvStep
<1> QED
  BY <1>1, <1>2, PTL DEF Spec

(* The rows, the sessions and the handlers' work have their types, whatever *)
(* is asked for and whoever asks.                                          *)
THEOREM AccountTypes == Spec => []TypeOK
<1>1. IInv => TypeOK
  BY DEF IInv
<1> QED
  BY <1>1, AccountsInvariance, PTL

(* There is always an administrator who can sign in, unless two changes    *)
(* that take one away overlapped: is_last_active_admin is enough for one   *)
(* request at a time.                                                      *)
THEOREM AdministratorRemains == Spec => []AnAdminRemains
<1>1. IInv => AnAdminRemains
  BY DEF IInv, AdminOK, AnAdminRemains
<1> QED
  BY <1>1, AccountsInvariance, PTL

(* Whoever was turned off, or given a new password, is signed out          *)
(* everywhere, but for sign-ins that were under way and handlers that did  *)
(* not come to the end of their work.                                      *)
THEOREM RevokedIsOut == Spec => []RevokedStaysOut
<1>1. IInv => RevokedStaysOut
  BY DEF IInv
<1> QED
  BY <1>1, AccountsInvariance, PTL
=============================================================================
