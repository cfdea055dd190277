--------------------------- MODULE StartupProofs ---------------------------
(***************************************************************************)
(* Proofs about Startup, for every number of processes and starts, every   *)
(* mode and limit of the address and every set of databases found: the     *)
(* type invariant, what is true of a database that claims a version, the   *)
(* one player thread, the file with the issued password and the address.   *)
(***************************************************************************)
EXTENDS Startup, TLAPS

(* Every statement before the one a process is at has had its effect.      *)
BehindOK ==
  \A p \in Process : pc[p] = "migrate" =>
    \A s \in Statement :
      (s[1] < next[p][1] \/ (s[1] = next[p][1] /\ s[2] < next[p][2])) => s \in done

(* A process with a player thread holds the lock, or has given up waiting. *)
PlayerOK == \A p \in playing : pc[p] \in {"serving", "join"} \/ p \in late

(* What the address thread has queued, and queued too late.                *)
AddressOK ==
  \A p \in Process :
    /\ said[p] <= Limit /\ after[p] <= 1
    /\ loop[p] = "speak" => said[p] < Limit
    /\ ~stopped[p] \/ loop[p] = "speak" => after[p] = 0

(* Where a process may still leave the file of a claimed account.          *)
FileOK ==
  \A p \in Process :
    /\ setup[p] # "idle" => pc[p] = "serving"
    /\ pc[p] = "write" => account = "issued"
    /\ pc[p] \in {"player", "serving"} /\ setup[p] # "clear" /\ p \notin left =>
         ~(file /\ account = "claimed")

----------------------------------------------------------------------------
(* A migration has a number of statements.                                 *)
LEMMA MigrationLength == \A v \in Versions : Len(Migrations[v]) \in Nat
BY DEF Migrations, Versions

(* A statement is named by its version and its place.                      *)
LEMMA StatementType == \A s \in Statement : s[1] \in 2 .. 8 /\ s[2] \in 1 .. 6
BY DEF Statement, Versions

(* All statements of a migration have had their effect where it is stamped. *)
LEMMA BehindNext ==
  ASSUME TypeOK, BehindOK, NEW p \in Process, pc[p] = "migrate",
         next[p][1] \in Versions, next[p] \notin Statement
  PROVE  \A s \in Statement : s[1] <= next[p][1] => s \in done
<1> SUFFICES ASSUME NEW s \in Statement, s[1] <= next[p][1] PROVE s \in done
  OBVIOUS
<1>1. next[p] \in (2 .. 9) \X (1 .. 7)
  BY DEF TypeOK
<1>2. CASE s[1] < next[p][1]
  BY <1>2 DEF BehindOK
<1>3. CASE s[1] = next[p][1]
  <2>1. s[2] \in 1 .. 6 /\ s[2] <= Len(Migrations[next[p][1]])
    BY <1>3 DEF Statement
  <2>2. next[p][2] = 7 \/ ~(next[p][2] <= Len(Migrations[next[p][1]]))
    BY <1>1 DEF Statement
  <2>3. s[2] < next[p][2]
    BY <1>1, <2>1, <2>2, MigrationLength
  <2> QED
    BY <1>3, <2>3 DEF BehindOK
<1> QED
  BY <1>1, <1>2, <1>3, StatementType

(* The address is spoken at least once before the limit is reached.        *)
LEMMA LimitType == Limit \in Nat /\ Limit >= 1
BY CountsAssumption DEF Limit

(* TypeOK holds at first.                                                  *)
LEMMA TypeInit == Init => TypeOK
<1> SUFFICES ASSUME Init PROVE TypeOK
  OBVIOUS
<1>1. PICK v \in Shipped :
        /\ version = IF v = 0 THEN 1 ELSE v
        /\ done = Upto(v)
        /\ presets = IF v = 8 THEN Seeds ELSE 0
        /\ account \in (IF v < 2 THEN {"none"} ELSE IF v = 2 THEN {"none", "claimed"}
                        ELSE {"issued", "claimed"})
        /\ file = (account = "issued")
  BY DEF Init
<1>2. v \in 0 .. 8
  BY ShippedAssumption
<1>3. version \in 1 .. 8 /\ done \in SUBSET Statement
  BY <1>1, <1>2 DEF Upto
<1>4. presets \in 0 .. Seeds /\ account \in {"none", "issued", "claimed"} /\ file \in BOOLEAN
  BY <1>1, <1>2, CountsAssumption
<1>5. pc \in [Process -> Holding \cup {"off", "lock", "exit"}] /\ lock \in Process \cup {None}
      /\ \A p \in Process : pc[p] \in Holding <=> lock = p
  BY ProcessAssumption DEF Init, Holding
<1> QED
  BY <1>3, <1>4, <1>5, CountsAssumption DEF Init, TypeOK

(* Every step preserves TypeOK.                                             *)
LEMMA TypeStep == TypeOK /\ [Next]_vars => TypeOK'
<1> SUFFICES ASSUME TypeOK, [Next]_vars PROVE TypeOK'
  OBVIOUS
<1>1. CASE UNCHANGED vars
  BY <1>1 DEF TypeOK, vars, database, address, login
<1>2. ASSUME NEW p \in Process, Open(p) PROVE TypeOK'
  <2>1. CASE Start(p)
    BY <2>1, ProcessAssumption, CountsAssumption DEF Start, login, Step, database, address, TypeOK,
      Holding
  <2>2. CASE Acquire(p)
    BY <2>2, ProcessAssumption DEF Acquire, login, Step, database, address, TypeOK, Holding
  <2>3. CASE AlreadyRunning(p)
    BY <2>3, ProcessAssumption DEF AlreadyRunning, login, Step, database, address, TypeOK, Holding
  <2>4. CASE Baseline(p)
    BY <2>4, ProcessAssumption DEF Baseline, login, Step, database, address, TypeOK, Holding
  <2>5. CASE Migrate(p)
    BY <2>5, StatementType DEF Migrate, login, address, TypeOK, Holding
  <2>6. CASE MigrateFails(p)
    BY <2>6, ProcessAssumption DEF MigrateFails, login, Step, Forget, database, TypeOK, Holding
  <2>7. CASE Stamp(p)
    BY <2>7 DEF Stamp, login, address, TypeOK, Holding, Versions
  <2>8. CASE Migrated(p)
    BY <2>8, ProcessAssumption DEF Migrated, login, Step, address, TypeOK, Holding
  <2>9. CASE SeedIfEmpty(p)
    BY <2>9, ProcessAssumption DEF SeedIfEmpty, login, Step, database, address, TypeOK, Holding
  <2>10. CASE AddPreset(p)
    BY <2>10, ProcessAssumption, CountsAssumption DEF AddPreset, login, address, TypeOK, Holding
  <2>11. CASE BootstrapAdmin(p)
    BY <2>11, ProcessAssumption DEF BootstrapAdmin, EnsureBootstrapAdmin, RemoveFirstLogin, login, Step, address, TypeOK, Holding
  <2>12. CASE WriteFirstLogin(p)
    BY <2>12, ProcessAssumption DEF WriteFirstLogin, login, Step, database, address, TypeOK,
      Holding
  <2>13. CASE StartServing(p)
    BY <2>13, ProcessAssumption DEF StartServing, login, Step, database, TypeOK, Holding
  <2> QED
    BY <1>2, <2>1, <2>2, <2>3, <2>4, <2>5, <2>6, <2>7, <2>8, <2>9, <2>10, <2>11, <2>12,
      <2>13 DEF Open
<1>3. ASSUME NEW p \in Process, Serve(p) PROVE TypeOK'
  <2>1. CASE CheckAddress(p)
    BY <2>1, ProcessAssumption DEF CheckAddress, login, database, TypeOK, Holding
  <2>2. CASE QueueAddress(p)
    BY <2>2, LimitType DEF QueueAddress, login, database, TypeOK, Holding
  <2>3. CASE SpeakFails(p)
    BY <2>3, ProcessAssumption DEF SpeakFails, login, database, TypeOK, Holding
  <2>4. CASE WaitAddress(p)
    BY <2>4, ProcessAssumption DEF WaitAddress, login, database, TypeOK, Holding
  <2>5. CASE SpeakAddress(p)
    BY <2>5, ProcessAssumption, CountsAssumption DEF SpeakAddress, login, address, TypeOK, Holding
  <2>6. CASE CancelAddress(p)
    BY <2>6, ProcessAssumption, CountsAssumption DEF CancelAddress, login, address, TypeOK, Holding
  <2>7. CASE DeletePreset(p)
    BY <2>7, ProcessAssumption, CountsAssumption DEF DeletePreset, login, address, TypeOK, Holding
  <2>8. CASE SignIn(p)
    BY <2>8, ProcessAssumption DEF SignIn, login, database, TypeOK, Holding
  <2>9. CASE Claim(p)
    BY <2>9, ProcessAssumption DEF Claim, login, address, TypeOK, Holding
  <2>10. CASE ClearFirstLogin(p)
    BY <2>10, ProcessAssumption DEF ClearFirstLogin, RemoveFirstLogin, login, database, address, TypeOK, Holding
  <2>11. CASE ClaimBreaksOff(p)
    BY <2>11, ProcessAssumption DEF ClaimBreaksOff, login, database, address, TypeOK, Holding
  <2>12. CASE StopAddress(p)
    BY <2>12, ProcessAssumption DEF StopAddress, login, database, TypeOK, Holding
  <2> QED
    BY <1>3, <2>1, <2>2, <2>3, <2>4, <2>5, <2>6, <2>7,
      <2>8, <2>9, <2>10, <2>11, <2>12 DEF Serve
<1>4. ASSUME NEW p \in Process, Close(p) PROVE TypeOK'
  <2>1. CASE ShutDown(p)
    BY <2>1, ProcessAssumption DEF ShutDown, login, Step, database, TypeOK, Holding
  <2>2. CASE PlayerEnds(p)
    BY <2>2, ProcessAssumption DEF PlayerEnds, login, database, address, TypeOK, Holding
  <2>3. CASE Join(p)
    BY <2>3, ProcessAssumption DEF Join, login, Step, database, address, TypeOK, Holding
  <2>4. CASE Release(p)
    BY <2>4, ProcessAssumption DEF Release, login, Step, database, address, TypeOK, Holding
  <2>5. CASE Exit(p)
    BY <2>5, ProcessAssumption DEF Exit, login, Step, Forget, database, TypeOK, Holding
  <2>6. CASE Kill(p)
    BY <2>6, ProcessAssumption DEF Kill, login, Forget, database, TypeOK, Holding
  <2> QED
    BY <1>4, <2>1, <2>2, <2>3, <2>4, <2>5, <2>6 DEF Close
<1> QED
  BY <1>1, <1>2, <1>3, <1>4 DEF Next

(* Every step preserves BehindOK: a migration is stamped after its last      *)
(* statement, and a start begins after the version it has read.             *)
LEMMA BehindStep == TypeOK /\ StampedIsDone /\ BehindOK /\ [Next]_vars => BehindOK'
<1> SUFFICES ASSUME TypeOK, StampedIsDone, BehindOK, [Next]_vars PROVE BehindOK'
  OBVIOUS
<1>1. CASE UNCHANGED vars
  BY <1>1 DEF TypeOK, BehindOK, vars, database, address, login
<1>2. ASSUME NEW p \in Process, Open(p) PROVE BehindOK'
  <2>1. CASE Start(p)
    BY <2>1 DEF Start, login, Step, database, address, TypeOK, BehindOK
  <2>2. CASE Acquire(p)
    BY <2>2 DEF Acquire, login, Step, database, address, TypeOK, BehindOK
  <2>3. CASE AlreadyRunning(p)
    BY <2>3 DEF AlreadyRunning, login, Step, database, address, TypeOK, BehindOK
  <2>4. CASE Baseline(p)
    BY <2>4, StatementType DEF Baseline, login, Step, TypeOK, StampedIsDone, BehindOK, Upto, database,
      address
  <2>5. CASE Migrate(p)
    <3> SUFFICES ASSUME NEW q \in Process, pc'[q] = "migrate", NEW s \in Statement,
                        s[1] < next'[q][1] \/ (s[1] = next'[q][1] /\ s[2] < next'[q][2])
                 PROVE  s \in done'
      BY DEF BehindOK
    <3>1. pc[q] = "migrate" /\ done \subseteq done' /\ next[p] \in done'
      BY <2>5 DEF Migrate
    <3>2. CASE q # p
      BY <2>5, <3>1, <3>2 DEF Migrate, login, TypeOK, BehindOK
    <3>3. CASE q = p
      <4>1. next'[q] = <<next[p][1], next[p][2] + 1>>
        BY <2>5, <3>3 DEF Migrate, login, TypeOK
      <4>2. s = <<s[1], s[2]>> /\ next[p] = <<next[p][1], next[p][2]>>
        BY DEF Statement, TypeOK
      <4>3. s[1] < next[p][1] \/ (s[1] = next[p][1] /\ s[2] < next[p][2]) \/ s = next[p]
        BY <4>1, <4>2, StatementType DEF TypeOK
      <4> QED
        BY <3>1, <3>3, <4>3 DEF BehindOK
    <3> QED
      BY <3>2, <3>3
  <2>6. CASE MigrateFails(p)
    BY <2>6 DEF MigrateFails, login, Step, Forget, database, TypeOK, BehindOK
  <2>7. CASE Stamp(p)
    BY <2>7, BehindNext, StatementType DEF Stamp, login, TypeOK, BehindOK, address
  <2>8. CASE Migrated(p)
    BY <2>8 DEF Migrated, login, Step, address, TypeOK, BehindOK
  <2>9. CASE SeedIfEmpty(p)
    BY <2>9 DEF SeedIfEmpty, login, Step, database, address, TypeOK, BehindOK
  <2>10. CASE AddPreset(p)
    BY <2>10 DEF AddPreset, login, address, TypeOK, BehindOK
  <2>11. CASE BootstrapAdmin(p)
    BY <2>11 DEF BootstrapAdmin, EnsureBootstrapAdmin, RemoveFirstLogin, login, Step, address, TypeOK, BehindOK
  <2>12. CASE WriteFirstLogin(p)
    BY <2>12 DEF WriteFirstLogin, login, Step, database, address, TypeOK, BehindOK
  <2>13. CASE StartServing(p)
    BY <2>13 DEF StartServing, login, Step, database, TypeOK, BehindOK
  <2> QED
    BY <1>2, <2>1, <2>2, <2>3, <2>4, <2>5, <2>6, <2>7, <2>8, <2>9, <2>10, <2>11, <2>12,
      <2>13 DEF Open
<1>3. ASSUME NEW p \in Process, Serve(p) PROVE BehindOK'
  <2>1. CASE CheckAddress(p)
    BY <2>1 DEF CheckAddress, login, database, TypeOK, BehindOK
  <2>2. CASE QueueAddress(p)
    BY <2>2 DEF QueueAddress, login, database, TypeOK, BehindOK
  <2>3. CASE SpeakFails(p)
    BY <2>3 DEF SpeakFails, login, database, TypeOK, BehindOK
  <2>4. CASE WaitAddress(p)
    BY <2>4 DEF WaitAddress, login, database, TypeOK, BehindOK
  <2>5. CASE SpeakAddress(p)
    BY <2>5 DEF SpeakAddress, login, address, TypeOK, BehindOK
  <2>6. CASE CancelAddress(p)
    BY <2>6 DEF CancelAddress, login, address, TypeOK, BehindOK
  <2>7. CASE DeletePreset(p)
    BY <2>7 DEF DeletePreset, login, address, TypeOK, BehindOK
  <2>8. CASE SignIn(p)
    BY <2>8 DEF SignIn, login, database, TypeOK, BehindOK
  <2>9. CASE Claim(p)
    BY <2>9 DEF Claim, login, address, TypeOK, BehindOK
  <2>10. CASE ClearFirstLogin(p)
    BY <2>10 DEF ClearFirstLogin, RemoveFirstLogin, login, database, address, TypeOK, BehindOK
  <2>11. CASE ClaimBreaksOff(p)
    BY <2>11 DEF ClaimBreaksOff, login, database, address, TypeOK, BehindOK
  <2>12. CASE StopAddress(p)
    BY <2>12 DEF StopAddress, login, database, TypeOK, BehindOK
  <2> QED
    BY <1>3, <2>1, <2>2, <2>3, <2>4, <2>5, <2>6, <2>7,
      <2>8, <2>9, <2>10, <2>11, <2>12 DEF Serve
<1>4. ASSUME NEW p \in Process, Close(p) PROVE BehindOK'
  <2>1. CASE ShutDown(p)
    BY <2>1 DEF ShutDown, login, Step, database, TypeOK, BehindOK
  <2>2. CASE PlayerEnds(p)
    BY <2>2 DEF PlayerEnds, login, database, address, TypeOK, BehindOK
  <2>3. CASE Join(p)
    BY <2>3 DEF Join, login, Step, database, address, TypeOK, BehindOK
  <2>4. CASE Release(p)
    BY <2>4 DEF Release, login, Step, database, address, TypeOK, BehindOK
  <2>5. CASE Exit(p)
    BY <2>5 DEF Exit, login, Step, Forget, database, TypeOK, BehindOK
  <2>6. CASE Kill(p)
    BY <2>6 DEF Kill, login, Forget, database, TypeOK, BehindOK
  <2> QED
    BY <1>4, <2>1, <2>2, <2>3, <2>4, <2>5, <2>6 DEF Close
<1> QED
  BY <1>1, <1>2, <1>3, <1>4 DEF Next

(* Every step preserves StampedIsDone.                                      *)
LEMMA StampedStep == TypeOK /\ StampedIsDone /\ BehindOK /\ [Next]_vars => StampedIsDone'
<1> SUFFICES ASSUME TypeOK, StampedIsDone, BehindOK, [Next]_vars PROVE StampedIsDone'
  OBVIOUS
<1>1. CASE UNCHANGED vars
  BY <1>1 DEF StampedIsDone, Upto, vars, database, address, login
<1>2. ASSUME NEW p \in Process, Open(p) PROVE StampedIsDone'
  <2>1. CASE Start(p)
    BY <2>1 DEF Start, login, Step, database, address, StampedIsDone, Upto
  <2>2. CASE Acquire(p)
    BY <2>2 DEF Acquire, login, Step, database, address, StampedIsDone, Upto
  <2>3. CASE AlreadyRunning(p)
    BY <2>3 DEF AlreadyRunning, login, Step, database, address, StampedIsDone, Upto
  <2>4. CASE Baseline(p)
    BY <2>4 DEF Baseline, login, Step, database, address, StampedIsDone, Upto
  <2>5. CASE Migrate(p)
    BY <2>5 DEF Migrate, login, address, StampedIsDone, Upto
  <2>6. CASE MigrateFails(p)
    BY <2>6 DEF MigrateFails, login, Step, Forget, database, StampedIsDone, Upto
  <2>7. CASE Stamp(p)
    BY <2>7, BehindNext DEF Stamp, login, StampedIsDone, Upto
  <2>8. CASE Migrated(p)
    BY <2>8, StatementType DEF Migrated, login, Step, TypeOK, BehindOK, StampedIsDone, Upto, Versions
  <2>9. CASE SeedIfEmpty(p)
    BY <2>9 DEF SeedIfEmpty, login, Step, database, address, StampedIsDone, Upto
  <2>10. CASE AddPreset(p)
    BY <2>10 DEF AddPreset, login, address, StampedIsDone, Upto
  <2>11. CASE BootstrapAdmin(p)
    BY <2>11 DEF BootstrapAdmin, EnsureBootstrapAdmin, RemoveFirstLogin, login, Step, address, StampedIsDone, Upto
  <2>12. CASE WriteFirstLogin(p)
    BY <2>12 DEF WriteFirstLogin, login, Step, database, address, StampedIsDone, Upto
  <2>13. CASE StartServing(p)
    BY <2>13 DEF StartServing, login, Step, database, StampedIsDone, Upto
  <2> QED
    BY <1>2, <2>1, <2>2, <2>3, <2>4, <2>5, <2>6, <2>7, <2>8, <2>9, <2>10, <2>11, <2>12,
      <2>13 DEF Open
<1>3. ASSUME NEW p \in Process, Serve(p) PROVE StampedIsDone'
  <2>1. CASE CheckAddress(p)
    BY <2>1 DEF CheckAddress, login, database, StampedIsDone, Upto
  <2>2. CASE QueueAddress(p)
    BY <2>2 DEF QueueAddress, login, database, StampedIsDone, Upto
  <2>3. CASE SpeakFails(p)
    BY <2>3 DEF SpeakFails, login, database, StampedIsDone, Upto
  <2>4. CASE WaitAddress(p)
    BY <2>4 DEF WaitAddress, login, database, StampedIsDone, Upto
  <2>5. CASE SpeakAddress(p)
    BY <2>5 DEF SpeakAddress, login, address, StampedIsDone, Upto
  <2>6. CASE CancelAddress(p)
    BY <2>6 DEF CancelAddress, login, address, StampedIsDone, Upto
  <2>7. CASE DeletePreset(p)
    BY <2>7 DEF DeletePreset, login, address, StampedIsDone, Upto
  <2>8. CASE SignIn(p)
    BY <2>8 DEF SignIn, login, database, StampedIsDone, Upto
  <2>9. CASE Claim(p)
    BY <2>9 DEF Claim, login, address, StampedIsDone, Upto
  <2>10. CASE ClearFirstLogin(p)
    BY <2>10 DEF ClearFirstLogin, RemoveFirstLogin, login, database, address, StampedIsDone, Upto
  <2>11. CASE ClaimBreaksOff(p)
    BY <2>11 DEF ClaimBreaksOff, login, database, address, StampedIsDone, Upto
  <2>12. CASE StopAddress(p)
    BY <2>12 DEF StopAddress, login, database, StampedIsDone, Upto
  <2> QED
    BY <1>3, <2>1, <2>2, <2>3, <2>4, <2>5, <2>6, <2>7,
      <2>8, <2>9, <2>10, <2>11, <2>12 DEF Serve
<1>4. ASSUME NEW p \in Process, Close(p) PROVE StampedIsDone'
  <2>1. CASE ShutDown(p)
    BY <2>1 DEF ShutDown, login, Step, database, StampedIsDone, Upto
  <2>2. CASE PlayerEnds(p)
    BY <2>2 DEF PlayerEnds, login, database, address, StampedIsDone, Upto
  <2>3. CASE Join(p)
    BY <2>3 DEF Join, login, Step, database, address, StampedIsDone, Upto
  <2>4. CASE Release(p)
    BY <2>4 DEF Release, login, Step, database, address, StampedIsDone, Upto
  <2>5. CASE Exit(p)
    BY <2>5 DEF Exit, login, Step, Forget, database, StampedIsDone, Upto
  <2>6. CASE Kill(p)
    BY <2>6 DEF Kill, login, Forget, database, StampedIsDone, Upto
  <2> QED
    BY <1>4, <2>1, <2>2, <2>3, <2>4, <2>5, <2>6 DEF Close
<1> QED
  BY <1>1, <1>2, <1>3, <1>4 DEF Next

(* Every step preserves PlayerOK.                                           *)
LEMMA PlayerStep == TypeOK /\ PlayerOK /\ [Next]_vars => PlayerOK'
<1> SUFFICES ASSUME TypeOK, PlayerOK, [Next]_vars PROVE PlayerOK'
  OBVIOUS
<1>1. CASE UNCHANGED vars
  BY <1>1 DEF PlayerOK, vars, database, address, login
<1>2. ASSUME NEW p \in Process, Open(p) PROVE PlayerOK'
  <2>1. CASE Start(p)
    BY <2>1 DEF Start, login, Step, database, address, TypeOK, PlayerOK
  <2>2. CASE Acquire(p)
    BY <2>2 DEF Acquire, login, Step, database, address, TypeOK, PlayerOK
  <2>3. CASE AlreadyRunning(p)
    BY <2>3 DEF AlreadyRunning, login, Step, database, address, TypeOK, PlayerOK
  <2>4. CASE Baseline(p)
    BY <2>4 DEF Baseline, login, Step, database, address, TypeOK, PlayerOK
  <2>5. CASE Migrate(p)
    BY <2>5 DEF Migrate, login, address, TypeOK, PlayerOK
  <2>6. CASE MigrateFails(p)
    BY <2>6 DEF MigrateFails, login, Step, Forget, database, TypeOK, PlayerOK
  <2>7. CASE Stamp(p)
    BY <2>7 DEF Stamp, login, address, TypeOK, PlayerOK
  <2>8. CASE Migrated(p)
    BY <2>8 DEF Migrated, login, Step, address, TypeOK, PlayerOK
  <2>9. CASE SeedIfEmpty(p)
    BY <2>9 DEF SeedIfEmpty, login, Step, database, address, TypeOK, PlayerOK
  <2>10. CASE AddPreset(p)
    BY <2>10 DEF AddPreset, login, address, TypeOK, PlayerOK
  <2>11. CASE BootstrapAdmin(p)
    BY <2>11 DEF BootstrapAdmin, EnsureBootstrapAdmin, RemoveFirstLogin, login, Step, address, TypeOK, PlayerOK
  <2>12. CASE WriteFirstLogin(p)
    BY <2>12 DEF WriteFirstLogin, login, Step, database, address, TypeOK, PlayerOK
  <2>13. CASE StartServing(p)
    BY <2>13 DEF StartServing, login, Step, database, TypeOK, PlayerOK
  <2> QED
    BY <1>2, <2>1, <2>2, <2>3, <2>4, <2>5, <2>6, <2>7, <2>8, <2>9, <2>10, <2>11, <2>12,
      <2>13 DEF Open
<1>3. ASSUME NEW p \in Process, Serve(p) PROVE PlayerOK'
  <2>1. CASE CheckAddress(p)
    BY <2>1 DEF CheckAddress, login, database, TypeOK, PlayerOK
  <2>2. CASE QueueAddress(p)
    BY <2>2 DEF QueueAddress, login, database, TypeOK, PlayerOK
  <2>3. CASE SpeakFails(p)
    BY <2>3 DEF SpeakFails, login, database, TypeOK, PlayerOK
  <2>4. CASE WaitAddress(p)
    BY <2>4 DEF WaitAddress, login, database, TypeOK, PlayerOK
  <2>5. CASE SpeakAddress(p)
    BY <2>5 DEF SpeakAddress, login, address, TypeOK, PlayerOK
  <2>6. CASE CancelAddress(p)
    BY <2>6 DEF CancelAddress, login, address, TypeOK, PlayerOK
  <2>7. CASE DeletePreset(p)
    BY <2>7 DEF DeletePreset, login, address, TypeOK, PlayerOK
  <2>8. CASE SignIn(p)
    BY <2>8 DEF SignIn, login, database, TypeOK, PlayerOK
  <2>9. CASE Claim(p)
    BY <2>9 DEF Claim, login, address, TypeOK, PlayerOK
  <2>10. CASE ClearFirstLogin(p)
    BY <2>10 DEF ClearFirstLogin, RemoveFirstLogin, login, database, address, TypeOK, PlayerOK
  <2>11. CASE ClaimBreaksOff(p)
    BY <2>11 DEF ClaimBreaksOff, login, database, address, TypeOK, PlayerOK
  <2>12. CASE StopAddress(p)
    BY <2>12 DEF StopAddress, login, database, TypeOK, PlayerOK
  <2> QED
    BY <1>3, <2>1, <2>2, <2>3, <2>4, <2>5, <2>6, <2>7,
      <2>8, <2>9, <2>10, <2>11, <2>12 DEF Serve
<1>4. ASSUME NEW p \in Process, Close(p) PROVE PlayerOK'
  <2>1. CASE ShutDown(p)
    BY <2>1 DEF ShutDown, login, Step, database, TypeOK, PlayerOK
  <2>2. CASE PlayerEnds(p)
    BY <2>2 DEF PlayerEnds, login, database, address, TypeOK, PlayerOK
  <2>3. CASE Join(p)
    BY <2>3 DEF Join, login, Step, database, address, TypeOK, PlayerOK
  <2>4. CASE Release(p)
    BY <2>4 DEF Release, login, Step, database, address, TypeOK, PlayerOK
  <2>5. CASE Exit(p)
    BY <2>5 DEF Exit, login, Step, Forget, database, TypeOK, PlayerOK
  <2>6. CASE Kill(p)
    BY <2>6 DEF Kill, login, Forget, database, TypeOK, PlayerOK
  <2> QED
    BY <1>4, <2>1, <2>2, <2>3, <2>4, <2>5, <2>6 DEF Close
<1> QED
  BY <1>1, <1>2, <1>3, <1>4 DEF Next

(* Every step preserves AddressOK: stopped is set once and looked at before *)
(* each time the address is queued.                                         *)
LEMMA AddressStep == TypeOK /\ AddressOK /\ [Next]_vars => AddressOK'
<1> SUFFICES ASSUME TypeOK, AddressOK, [Next]_vars PROVE AddressOK'
  OBVIOUS
<1>1. CASE UNCHANGED vars
  BY <1>1 DEF AddressOK, vars, database, address, login
<1>2. ASSUME NEW p \in Process, Open(p) PROVE AddressOK'
  <2>1. CASE Start(p)
    BY <2>1, LimitType DEF Start, login, Step, database, address, TypeOK, AddressOK
  <2>2. CASE Acquire(p)
    BY <2>2, LimitType DEF Acquire, login, Step, database, address, TypeOK, AddressOK
  <2>3. CASE AlreadyRunning(p)
    BY <2>3, LimitType DEF AlreadyRunning, login, Step, database, address, TypeOK, AddressOK
  <2>4. CASE Baseline(p)
    BY <2>4, LimitType DEF Baseline, login, Step, database, address, TypeOK, AddressOK
  <2>5. CASE Migrate(p)
    BY <2>5, LimitType DEF Migrate, login, address, TypeOK, AddressOK
  <2>6. CASE MigrateFails(p)
    BY <2>6, LimitType DEF MigrateFails, login, Step, Forget, database, TypeOK, AddressOK
  <2>7. CASE Stamp(p)
    BY <2>7, LimitType DEF Stamp, login, address, TypeOK, AddressOK
  <2>8. CASE Migrated(p)
    BY <2>8, LimitType DEF Migrated, login, Step, address, TypeOK, AddressOK
  <2>9. CASE SeedIfEmpty(p)
    BY <2>9, LimitType DEF SeedIfEmpty, login, Step, database, address, TypeOK, AddressOK
  <2>10. CASE AddPreset(p)
    BY <2>10, LimitType DEF AddPreset, login, address, TypeOK, AddressOK
  <2>11. CASE BootstrapAdmin(p)
    BY <2>11, LimitType DEF BootstrapAdmin, EnsureBootstrapAdmin, RemoveFirstLogin, login, Step, address, TypeOK, AddressOK
  <2>12. CASE WriteFirstLogin(p)
    BY <2>12, LimitType DEF WriteFirstLogin, login, Step, database, address, TypeOK, AddressOK
  <2>13. CASE StartServing(p)
    BY <2>13, LimitType DEF StartServing, login, Step, database, TypeOK, AddressOK
  <2> QED
    BY <1>2, <2>1, <2>2, <2>3, <2>4, <2>5, <2>6, <2>7, <2>8, <2>9, <2>10, <2>11, <2>12,
      <2>13 DEF Open
<1>3. ASSUME NEW p \in Process, Serve(p) PROVE AddressOK'
  <2>1. CASE CheckAddress(p)
    BY <2>1, LimitType DEF CheckAddress, login, StillWanted, TypeOK, AddressOK
  <2>2. CASE QueueAddress(p)
    BY <2>2, LimitType DEF QueueAddress, login, database, TypeOK, AddressOK
  <2>3. CASE SpeakFails(p)
    BY <2>3, LimitType DEF SpeakFails, login, database, TypeOK, AddressOK
  <2>4. CASE WaitAddress(p)
    BY <2>4, LimitType DEF WaitAddress, login, database, TypeOK, AddressOK
  <2>5. CASE SpeakAddress(p)
    BY <2>5, LimitType DEF SpeakAddress, login, address, TypeOK, AddressOK
  <2>6. CASE CancelAddress(p)
    BY <2>6, LimitType DEF CancelAddress, login, address, TypeOK, AddressOK
  <2>7. CASE DeletePreset(p)
    BY <2>7, LimitType DEF DeletePreset, login, address, TypeOK, AddressOK
  <2>8. CASE SignIn(p)
    BY <2>8, LimitType DEF SignIn, login, database, TypeOK, AddressOK
  <2>9. CASE Claim(p)
    BY <2>9, LimitType DEF Claim, login, address, TypeOK, AddressOK
  <2>10. CASE ClearFirstLogin(p)
    BY <2>10, LimitType DEF ClearFirstLogin, RemoveFirstLogin, login, database, address, TypeOK, AddressOK
  <2>11. CASE ClaimBreaksOff(p)
    BY <2>11, LimitType DEF ClaimBreaksOff, login, database, address, TypeOK, AddressOK
  <2>12. CASE StopAddress(p)
    BY <2>12, LimitType DEF StopAddress, login, database, TypeOK, AddressOK
  <2> QED
    BY <1>3, <2>1, <2>2, <2>3, <2>4, <2>5, <2>6, <2>7,
      <2>8, <2>9, <2>10, <2>11, <2>12 DEF Serve
<1>4. ASSUME NEW p \in Process, Close(p) PROVE AddressOK'
  <2>1. CASE ShutDown(p)
    BY <2>1, LimitType DEF ShutDown, login, Step, database, TypeOK, AddressOK
  <2>2. CASE PlayerEnds(p)
    BY <2>2, LimitType DEF PlayerEnds, login, database, address, TypeOK, AddressOK
  <2>3. CASE Join(p)
    BY <2>3, LimitType DEF Join, login, Step, database, address, TypeOK, AddressOK
  <2>4. CASE Release(p)
    BY <2>4, LimitType DEF Release, login, Step, database, address, TypeOK, AddressOK
  <2>5. CASE Exit(p)
    BY <2>5, LimitType DEF Exit, login, Step, Forget, database, TypeOK, AddressOK
  <2>6. CASE Kill(p)
    BY <2>6, LimitType DEF Kill, login, Forget, database, TypeOK, AddressOK
  <2> QED
    BY <1>4, <2>1, <2>2, <2>3, <2>4, <2>5, <2>6 DEF Close
<1> QED
  BY <1>1, <1>2, <1>3, <1>4 DEF Next

(* Every step preserves FileOK: the process that holds the lock is the only *)
(* one that writes the file or claims the account.                          *)
LEMMA FileStep == TypeOK /\ FileOK /\ [Next]_vars => FileOK'
<1> SUFFICES ASSUME TypeOK, FileOK, [Next]_vars PROVE FileOK'
  OBVIOUS
<1>1. CASE UNCHANGED vars
  BY <1>1 DEF FileOK, vars, database, address, login
<1>2. ASSUME NEW p \in Process, Open(p) PROVE FileOK'
  <2>1. CASE Start(p)
    BY <2>1 DEF Start, login, Step, database, address, TypeOK, Holding, FileOK
  <2>2. CASE Acquire(p)
    BY <2>2 DEF Acquire, login, Step, database, address, TypeOK, Holding, FileOK
  <2>3. CASE AlreadyRunning(p)
    BY <2>3 DEF AlreadyRunning, login, Step, database, address, TypeOK, Holding, FileOK
  <2>4. CASE Baseline(p)
    BY <2>4 DEF Baseline, login, Step, database, address, TypeOK, Holding, FileOK
  <2>5. CASE Migrate(p)
    BY <2>5 DEF Migrate, login, address, TypeOK, Holding, FileOK
  <2>6. CASE MigrateFails(p)
    BY <2>6 DEF MigrateFails, login, Step, Forget, database, TypeOK, Holding, FileOK
  <2>7. CASE Stamp(p)
    BY <2>7 DEF Stamp, login, address, TypeOK, Holding, FileOK
  <2>8. CASE Migrated(p)
    BY <2>8 DEF Migrated, login, Step, address, TypeOK, Holding, FileOK
  <2>9. CASE SeedIfEmpty(p)
    BY <2>9 DEF SeedIfEmpty, login, Step, database, address, TypeOK, Holding, FileOK
  <2>10. CASE AddPreset(p)
    BY <2>10 DEF AddPreset, login, address, TypeOK, Holding, FileOK
  <2>11. CASE BootstrapAdmin(p)
    BY <2>11 DEF BootstrapAdmin, EnsureBootstrapAdmin, RemoveFirstLogin, login, Step, address, TypeOK, Holding, FileOK
  <2>12. CASE WriteFirstLogin(p)
    BY <2>12 DEF WriteFirstLogin, login, Step, database, address, TypeOK, Holding, FileOK
  <2>13. CASE StartServing(p)
    BY <2>13 DEF StartServing, login, Step, database, TypeOK, Holding, FileOK
  <2> QED
    BY <1>2, <2>1, <2>2, <2>3, <2>4, <2>5, <2>6, <2>7, <2>8, <2>9, <2>10, <2>11, <2>12,
      <2>13 DEF Open
<1>3. ASSUME NEW p \in Process, Serve(p) PROVE FileOK'
  <2>1. CASE CheckAddress(p)
    BY <2>1 DEF CheckAddress, login, database, TypeOK, Holding, FileOK
  <2>2. CASE QueueAddress(p)
    BY <2>2 DEF QueueAddress, login, database, TypeOK, Holding, FileOK
  <2>3. CASE SpeakFails(p)
    BY <2>3 DEF SpeakFails, login, database, TypeOK, Holding, FileOK
  <2>4. CASE WaitAddress(p)
    BY <2>4 DEF WaitAddress, login, database, TypeOK, Holding, FileOK
  <2>5. CASE SpeakAddress(p)
    BY <2>5 DEF SpeakAddress, login, address, TypeOK, Holding, FileOK
  <2>6. CASE CancelAddress(p)
    BY <2>6 DEF CancelAddress, login, address, TypeOK, Holding, FileOK
  <2>7. CASE DeletePreset(p)
    BY <2>7 DEF DeletePreset, login, address, TypeOK, Holding, FileOK
  <2>8. CASE SignIn(p)
    BY <2>8 DEF SignIn, login, database, TypeOK, Holding, FileOK
  <2>9. CASE Claim(p)
    BY <2>9 DEF Claim, login, address, TypeOK, Holding, FileOK
  <2>10. CASE ClearFirstLogin(p)
    BY <2>10 DEF ClearFirstLogin, RemoveFirstLogin, login, database, address, TypeOK, Holding, FileOK
  <2>11. CASE ClaimBreaksOff(p)
    BY <2>11 DEF ClaimBreaksOff, login, database, address, TypeOK, Holding, FileOK
  <2>12. CASE StopAddress(p)
    BY <2>12 DEF StopAddress, login, database, TypeOK, Holding, FileOK
  <2> QED
    BY <1>3, <2>1, <2>2, <2>3, <2>4, <2>5, <2>6, <2>7,
      <2>8, <2>9, <2>10, <2>11, <2>12 DEF Serve
<1>4. ASSUME NEW p \in Process, Close(p) PROVE FileOK'
  <2>1. CASE ShutDown(p)
    BY <2>1 DEF ShutDown, login, Step, database, TypeOK, Holding, FileOK
  <2>2. CASE PlayerEnds(p)
    BY <2>2 DEF PlayerEnds, login, database, address, TypeOK, Holding, FileOK
  <2>3. CASE Join(p)
    BY <2>3 DEF Join, login, Step, database, address, TypeOK, Holding, FileOK
  <2>4. CASE Release(p)
    BY <2>4 DEF Release, login, Step, database, address, TypeOK, Holding, FileOK
  <2>5. CASE Exit(p)
    BY <2>5 DEF Exit, login, Step, Forget, database, TypeOK, Holding, FileOK
  <2>6. CASE Kill(p)
    BY <2>6 DEF Kill, login, Forget, database, TypeOK, Holding, FileOK
  <2> QED
    BY <1>4, <2>1, <2>2, <2>3, <2>4, <2>5, <2>6 DEF Close
<1> QED
  BY <1>1, <1>2, <1>3, <1>4 DEF Next

----------------------------------------------------------------------------
(* The inductive invariant: what a database claims needs what the process   *)
(* at work on it has done; the rest says which process may hold a player,   *)
(* the file or the address.                                                 *)
IInv == TypeOK /\ StampedIsDone /\ BehindOK /\ PlayerOK /\ AddressOK /\ FileOK

(* IInv holds at first.                                                     *)
LEMMA IInvInit == Init => IInv
<1> SUFFICES ASSUME Init PROVE IInv
  OBVIOUS
<1>1. TypeOK
  BY TypeInit
<1>2. StampedIsDone
  <2>1. PICK v \in Shipped : version = (IF v = 0 THEN 1 ELSE v) /\ done = Upto(v)
    BY DEF Init
  <2>2. v \in 0 .. 8
    BY ShippedAssumption
  <2> QED
    BY <2>1, <2>2, StatementType DEF StampedIsDone, Upto
<1>3. BehindOK /\ PlayerOK /\ FileOK
  BY DEF Init, BehindOK, PlayerOK, FileOK
<1>4. AddressOK
  BY LimitType DEF Init, AddressOK
<1> QED
  BY <1>1, <1>2, <1>3, <1>4 DEF IInv

(* Every step preserves IInv.                                               *)
LEMMA IInvStep == IInv /\ [Next]_vars => IInv'
BY TypeStep, BehindStep, StampedStep, PlayerStep, AddressStep, FileStep DEF IInv

(* IInv implies the properties the run startup checks.                      *)
LEMMA IInvImplies ==
  IInv => TypeOK /\ OnePlayer /\ StampedIsDone /\ ClaimedFileIsGone /\ AddressStops
<1> SUFFICES ASSUME IInv
             PROVE  TypeOK /\ OnePlayer /\ StampedIsDone /\ ClaimedFileIsGone /\ AddressStops
  OBVIOUS
<1>1. TypeOK /\ StampedIsDone /\ PlayerOK /\ AddressOK /\ FileOK
  BY DEF IInv
<1>2. OnePlayer
  <2> SUFFICES ASSUME NEW p \in playing \ late, NEW q \in playing \ late PROVE p = q
    BY DEF OnePlayer
  <2>1. pc[p] \in Holding /\ pc[q] \in Holding /\ p \in Process /\ q \in Process
    BY <1>1 DEF PlayerOK, TypeOK, Holding
  <2> QED
    BY <1>1, <2>1 DEF TypeOK
<1>3. ClaimedFileIsGone
  BY <1>1 DEF FileOK, ClaimedFileIsGone
<1>4. AddressStops
  BY <1>1 DEF AddressOK, AddressStops
<1> QED
  BY <1>1, <1>2, <1>3, <1>4

(* What is proved below rests on this.                                      *)
THEOREM StartupInvariance == Spec => []IInv
<1>1. Init => IInv
  BY IInvInit
<1>2. IInv /\ [Next]_vars => IInv'
  BY IInvStep
<1> QED
  BY <1>1, <1>2, PTL DEF Spec

(* Every variable has its type, and a process is past the lock exactly when *)
(* the lock is its own.                                                     *)
THEOREM StartupTypes == Spec => []TypeOK
BY StartupInvariance, IInvImplies, PTL

(* Of however many copies that are started, only one has a player thread it *)
(* has not given up waiting for.                                            *)
THEOREM OneProcessPlays == Spec => []OnePlayer
BY StartupInvariance, IInvImplies, PTL

(* Killed anywhere and started again, over a database of any version, no    *)
(* statement of a migration is missed.                                      *)
THEOREM NoStatementMissed == Spec => []StampedIsDone
BY StartupInvariance, IInvImplies, PTL

(* When a server serves and is not in the middle of the claim, the file     *)
(* with the issued password of a claimed account is gone, unless its own    *)
(* removal of it failed or its claim broke off before it; the next start    *)
(* removes it again (clear_first_login_file, bootstrap_admin, api_setup).   *)
THEOREM NoFileOnceClaimed == Spec => []ClaimedFileIsGone
BY StartupInvariance, IInvImplies, PTL

(* In each mode and for each limit, a process puts the address into the     *)
(* queue at most so often, and at most once after it was told to stop       *)
(* (start_address_announcements).  What is in the queue by then is spoken.  *)
THEOREM AddressIsBounded == Spec => []AddressStops
BY StartupInvariance, IInvImplies, PTL
=============================================================================
