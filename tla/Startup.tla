------------------------------ MODULE Startup ------------------------------
(***************************************************************************)
(* Processes of the announcer on one machine, from run.py to the end of    *)
(* the lifespan in app/main.py: the instance lock, the database brought up *)
(* to date, the ready-made announcements, the first administrator and the  *)
(* file with the issued password, the thread that queues the address, and  *)
(* the shutdown.  A process may be killed between any two steps; what is   *)
(* in the database, the file and the lock outlive it or not as the system  *)
(* they are kept by says.                                                  *)
(*                                                                         *)
(* Each statement of a migration commits by itself (executescript on a     *)
(* connection in autocommit mode), and so does the version written after.  *)
(***************************************************************************)
EXTENDS Naturals, Sequences, FiniteSets

CONSTANTS
  None,
  Process,
  Mode,        \* announce_address_mode.
  Times,       \* announce_address_max_times.
  Seeds,       \* How many ready-made announcements there are.
  Shipped,     \* The versions of the databases that are found; 0: no file.
  MaxStarts    \* Bound: how often a process is started.

ASSUME ProcessAssumption == None \notin Process
ASSUME ModeAssumption == Mode \in {"always", "setup", "once", "never"}
ASSUME CountsAssumption == Times \in Nat /\ Seeds \in Nat \ {0} /\ MaxStarts \in Nat

Versions == 2 .. 8
ASSUME ShippedAssumption == Shipped \subseteq 0 .. 8

(* What each statement of each migration is: CREATE ... IF NOT EXISTS and  *)
(* UPDATE can be run again, ALTER TABLE ... ADD COLUMN cannot.             *)
Migrations ==
  [v \in Versions |->
     CASE v = 2 -> <<"create", "create", "create", "create", "create", "create">>
       [] v = 5 -> <<"update">>
       [] v = 6 -> <<"alter", "alter">>
       [] v = 7 -> <<"create", "create">>
       [] v = 8 -> <<"create", "create", "alter">>
       [] OTHER -> <<"alter">>]

Statement == {s \in Versions \X (1 .. 6) : s[2] <= Len(Migrations[s[1]])}
Upto(v) == {s \in Statement : s[1] <= v}

VARIABLES
  pc,        \* [Process -> what it does next]
  lock,      \* who holds announcer.lock
  version,   \* schema_version
  done,      \* the statements of migrations whose effect is in the database
  next,      \* [Process -> <<migration, statement>> it is at]
  presets,   \* how many ready-made announcements are in the database
  account,   \* the first administrator: "none", "issued", "claimed"
  waiting,   \* how many announcements of the address are in the queue
  file,      \* FIRST-LOGIN.txt is there
  left,      \* history: the processes that did not remove it when they should
  playing,   \* the processes whose player thread is alive
  late,      \* the processes that did not wait for theirs any longer
  stopped,   \* [Process -> _stop_address is set]
  said,      \* [Process -> how often it queued the address]
  loop,      \* [Process -> where its address thread is]
  setup,     \* [Process -> where its /api/setup handler is]
  starts,    \* how often a process was started
  after,     \* history: [Process -> times it queued the address once stopped]
  heard      \* history: the processes that spoke the address once stopped

database == <<version, done, presets, account, waiting>>
login    == <<file, left>>
address  == <<stopped, said, loop, after, heard>>
vars == <<pc, lock, database, next, login, playing, late, address, setup, starts>>

Holding == {"database", "migrate", "seed", "seeding", "admin", "write", "player",
            "serving", "join", "release"}

TypeOK ==
  /\ pc \in [Process -> Holding \cup {"off", "lock", "exit"}]
  /\ lock \in Process \cup {None}
  /\ \A p \in Process : pc[p] \in Holding <=> lock = p
  /\ version \in 1 .. 8 /\ done \in SUBSET Statement
  /\ next \in [Process -> (2 .. 9) \X (1 .. 7)]
  /\ presets \in 0 .. Seeds
  /\ account \in {"none", "issued", "claimed"} /\ waiting \in Nat
  /\ file \in BOOLEAN /\ left \in SUBSET Process
  /\ playing \in SUBSET Process /\ late \in SUBSET Process
  /\ stopped \in [Process -> BOOLEAN]
  /\ said \in [Process -> Nat] /\ after \in [Process -> Nat] /\ heard \in SUBSET Process
  /\ loop \in [Process -> {"none", "check", "speak", "wait"}]
  /\ setup \in [Process -> {"idle", "clear", "stop"}]
  /\ starts \in 0 .. MaxStarts

Init ==
  /\ pc = [p \in Process |-> "off"] /\ lock = None
  /\ \E v \in Shipped :
       /\ version = IF v = 0 THEN 1 ELSE v
       /\ done = Upto(v)
       /\ presets = IF v = 8 THEN Seeds ELSE 0
       /\ account \in (IF v < 2 THEN {"none"} ELSE IF v = 2 THEN {"none", "claimed"}
                       ELSE {"issued", "claimed"})
       /\ file = (account = "issued")
  /\ next = [p \in Process |-> <<2, 1>>]
  /\ waiting = 0 /\ playing = {} /\ late = {} /\ left = {} /\ heard = {}
  /\ stopped = [p \in Process |-> FALSE] /\ said = [p \in Process |-> 0]
  /\ loop = [p \in Process |-> "none"] /\ after = [p \in Process |-> 0]
  /\ setup = [p \in Process |-> "idle"]
  /\ starts = 0

Step(p, here, there) == pc[p] = here /\ pc' = [pc EXCEPT ![p] = there]

(* The memory of a process is gone with it.                                *)
Forget(p) ==
  /\ playing' = playing \ {p} /\ late' = late \ {p}
  /\ stopped' = [stopped EXCEPT ![p] = FALSE] /\ said' = [said EXCEPT ![p] = 0]
  /\ loop' = [loop EXCEPT ![p] = "none"] /\ after' = [after EXCEPT ![p] = 0]
  /\ setup' = [setup EXCEPT ![p] = "idle"]
  /\ left' = left \ {p} /\ heard' = heard \ {p}
  /\ next' = [next EXCEPT ![p] = <<2, 1>>]

----------------------------------------------------------------------------
(* Services.__init__.                                                      *)

Start(p) ==
  /\ Step(p, "off", "lock")
  /\ starts < MaxStarts /\ starts' = starts + 1
  /\ UNCHANGED <<lock, database, next, login, playing, late, address, setup>>

Acquire(p) ==
  /\ Step(p, "lock", "database") /\ lock = None
  /\ lock' = p
  /\ UNCHANGED <<database, next, login, playing, late, address, setup, starts>>

\* Mutant of AlreadyRunning: the second copy says so and goes on.
AlreadyRunningGoesOn(p) ==
  /\ Step(p, "lock", "database") /\ lock # None
  /\ UNCHANGED <<lock, database, next, login, playing, late, address, setup, starts>>

AlreadyRunning(p) ==
  /\ Step(p, "lock", "off") /\ lock # None
  /\ UNCHANGED <<lock, database, next, login, playing, late, address, setup, starts>>

(* The baseline can be run again; the version is read once.                *)
Baseline(p) ==
  /\ Step(p, "database", "migrate")
  /\ next' = [next EXCEPT ![p] = <<version + 1, 1>>]
  /\ UNCHANGED <<lock, database, login, playing, late, address, setup, starts>>

DuplicateColumn(s) == s \in done /\ Migrations[s[1]][s[2]] = "alter"

Migrate(p) ==
  /\ pc[p] = "migrate" /\ next[p] \in Statement /\ ~DuplicateColumn(next[p])
  /\ done' = done \cup {next[p]}
  /\ next' = [next EXCEPT ![p] = <<@[1], @[2] + 1>>]
  /\ UNCHANGED <<pc, lock, version, presets, account, waiting, login, playing, late, address,
                 setup, starts>>

(* "duplicate column name": nothing catches it, and the process ends.      *)
MigrateFails(p) ==
  /\ Step(p, "migrate", "off") /\ next[p] \in Statement /\ DuplicateColumn(next[p])
  /\ lock' = None /\ Forget(p)
  /\ UNCHANGED <<database, file, starts>>

\* Mutant of Stamp: the version is written when its migration begins.
StampFirst(p) ==
  /\ pc[p] = "migrate" /\ next[p] \in Statement /\ next[p][2] = 1
  /\ version < next[p][1] /\ version' = next[p][1]
  /\ UNCHANGED <<pc, lock, done, next, presets, account, waiting, login, playing, late,
                 address, setup, starts>>

Stamp(p) ==
  /\ pc[p] = "migrate" /\ next[p][1] \in Versions /\ next[p] \notin Statement
  /\ version' = next[p][1]
  /\ next' = [next EXCEPT ![p] = <<next[p][1] + 1, 1>>]
  /\ UNCHANGED <<pc, lock, done, presets, account, waiting, login, playing, late, address,
                 setup, starts>>

Migrated(p) ==
  /\ Step(p, "migrate", "seed") /\ next[p][1] \notin Versions
  /\ version' = 8
  /\ UNCHANGED <<lock, done, presets, account, waiting, next, login, playing, late, address,
                 setup, starts>>

SeedIfEmpty(p) ==
  /\ Step(p, "seed", IF presets = 0 THEN "seeding" ELSE "admin")
  /\ UNCHANGED <<lock, database, next, login, playing, late, address, setup, starts>>

AddPreset(p) ==
  /\ pc[p] = "seeding" /\ presets < Seeds
  /\ presets' = presets + 1
  /\ pc' = [pc EXCEPT ![p] = IF presets' = Seeds THEN "admin" ELSE @]
  /\ UNCHANGED <<lock, version, done, account, waiting, next, login, playing, late, address,
                 setup, starts>>

----------------------------------------------------------------------------
(* The lifespan: bootstrap_admin, the player, the address.                 *)

(* clear_first_login_file, which says nothing when it fails.               *)
RemoveFirstLogin(p) ==
  /\ file' \in {FALSE, file}
  /\ left' = IF file' THEN left \cup {p} ELSE left

(* ensure_bootstrap_admin makes an account where there is none.            *)
EnsureBootstrapAdmin(p) ==
  /\ Step(p, "admin", IF account = "none" THEN "write" ELSE "player")
  /\ account' = IF account = "none" THEN "issued" ELSE account
  /\ UNCHANGED <<lock, version, done, presets, waiting, next, playing, late, address, setup,
                 starts>>

\* Mutant of BootstrapAdmin: a file left behind by a claimed account stays.
BootstrapAdminOnly(p) == EnsureBootstrapAdmin(p) /\ UNCHANGED login

BootstrapAdmin(p) ==
  /\ EnsureBootstrapAdmin(p)
  /\ IF account = "claimed" THEN RemoveFirstLogin(p) ELSE UNCHANGED login

WriteFirstLogin(p) ==
  /\ Step(p, "write", "player")
  /\ file' \in {file, TRUE}
  /\ UNCHANGED <<lock, database, next, left, playing, late, address, setup, starts>>

Limit == IF Mode = "once" THEN 1 ELSE IF Times = 0 THEN 1 ELSE Times

(* Nothing is spoken where the machine is on no network.                   *)
StartServing(p) ==
  /\ Step(p, "player", "serving")
  /\ playing' = playing \cup {p}
  /\ \E start \in IF Mode = "never" \/ (Mode = "setup" /\ account # "issued")
                  THEN {"none"} ELSE {"none", "check"} :
       loop' = [loop EXCEPT ![p] = start]
  /\ UNCHANGED <<lock, database, next, login, late, stopped, said, after, heard, setup,
                 starts>>

\* Mutant of StillWanted: only an account that is claimed ends it.
StillWantedUnclaimed(p) == said[p] < Limit /\ account = "issued"

StillWanted(p) ==
  said[p] < Limit /\ ~stopped[p] /\ (Mode = "setup" => account = "issued")

CheckAddress(p) ==
  /\ loop[p] = "check"
  /\ loop' = [loop EXCEPT ![p] = IF StillWanted(p) THEN "speak" ELSE "none"]
  /\ UNCHANGED <<pc, lock, database, next, login, playing, late, stopped, said, after, heard,
                 setup, starts>>

(* The address goes through the queue like everything else.                *)
QueueAddress(p) ==
  /\ loop[p] = "speak"
  /\ waiting' = waiting + 1
  /\ said' = [said EXCEPT ![p] = @ + 1]
  /\ after' = [after EXCEPT ![p] = IF stopped[p] THEN @ + 1 ELSE @]
  /\ loop' = [loop EXCEPT ![p] = IF said'[p] >= Limit THEN "none" ELSE "wait"]
  /\ UNCHANGED <<pc, lock, version, done, presets, account, next, login, playing, late,
                 stopped, heard, setup, starts>>

\* The announcement cannot be queued: the thread gives up.
SpeakFails(p) ==
  /\ loop[p] = "speak" /\ loop' = [loop EXCEPT ![p] = "none"]
  /\ UNCHANGED <<pc, lock, database, next, login, playing, late, stopped, said, after, heard,
                 setup, starts>>

(* The player comes to it, soon or late; it is spoken, or put back when    *)
(* the device fails or the process is killed over it.                      *)
SpeakAddress(p) ==
  /\ pc[p] = "serving" /\ p \in playing
  /\ waiting > 0 /\ waiting' \in {waiting - 1, waiting}
  /\ heard' = IF stopped[p] THEN heard \cup {p} ELSE heard
  /\ UNCHANGED <<pc, lock, version, done, presets, account, next, login, playing, late,
                 stopped, said, loop, after, setup, starts>>

(* Over after the interval, or at once when _stop_address is set.          *)
WaitAddress(p) ==
  /\ loop[p] = "wait"
  /\ loop' = [loop EXCEPT ![p] = "check"]
  /\ UNCHANGED <<pc, lock, database, next, login, playing, late, stopped, said, after, heard,
                 setup, starts>>

----------------------------------------------------------------------------
(* Requests that change any of this.                                       *)

(* An administrator signs in; the last thing the handler does here.        *)
SignIn(p) ==
  /\ pc[p] = "serving" /\ stopped' = [stopped EXCEPT ![p] = TRUE]
  /\ UNCHANGED <<pc, lock, database, next, login, playing, late, said, loop, after, heard,
                 setup, starts>>

Claim(p) ==
  /\ pc[p] = "serving" /\ setup[p] = "idle" /\ account = "issued"
  /\ account' = "claimed" /\ setup' = [setup EXCEPT ![p] = "clear"]
  /\ UNCHANGED <<pc, lock, version, done, presets, waiting, next, login, playing, late,
                 address, starts>>

ClearFirstLogin(p) ==
  /\ setup[p] = "clear" /\ setup' = [setup EXCEPT ![p] = "stop"]
  /\ RemoveFirstLogin(p)
  /\ UNCHANGED <<pc, lock, database, next, playing, late, address, starts>>

(* The chime that was chosen cannot be stored: the handler ends there.     *)
ClaimBreaksOff(p) ==
  /\ setup[p] = "clear" /\ setup' = [setup EXCEPT ![p] = "idle"]
  /\ left' = left \cup {p}
  /\ UNCHANGED <<pc, lock, database, next, file, playing, late, address, starts>>

StopAddress(p) ==
  /\ setup[p] = "stop" /\ setup' = [setup EXCEPT ![p] = "idle"]
  /\ stopped' = [stopped EXCEPT ![p] = TRUE]
  /\ UNCHANGED <<pc, lock, database, next, login, playing, late, said, loop, after, heard,
                 starts>>

(* Somebody cancels an announcement of the address before it is spoken.    *)
CancelAddress(p) ==
  /\ pc[p] = "serving" /\ waiting > 0 /\ waiting' = waiting - 1
  /\ UNCHANGED <<pc, lock, version, done, presets, account, next, login, playing, late,
                 address, setup, starts>>

(* An administrator deletes the ready-made announcements, one by one.      *)
DeletePreset(p) ==
  /\ pc[p] = "serving" /\ presets > 0 /\ presets' = presets - 1
  /\ UNCHANGED <<pc, lock, version, done, account, waiting, next, login, playing, late,
                 address, setup, starts>>

----------------------------------------------------------------------------
(* The end.                                                                *)

(* The requests have been served before the lifespan ends.                 *)
ShutDown(p) ==
  /\ Step(p, "serving", "join") /\ setup[p] = "idle"
  /\ stopped' = [stopped EXCEPT ![p] = TRUE]
  /\ UNCHANGED <<lock, database, next, login, playing, late, said, loop, after, heard, setup,
                 starts>>

PlayerEnds(p) ==
  /\ pc[p] \in {"join", "release", "exit"} /\ p \in playing
  /\ playing' = playing \ {p}
  /\ UNCHANGED <<pc, lock, database, next, login, late, address, setup, starts>>

\* Mutant of Join: the lock is given up without waiting for the player.
JoinNobody(p) ==
  /\ Step(p, "join", "release")
  /\ UNCHANGED <<lock, database, next, login, playing, late, address, setup, starts>>

(* The wait ends with the thread or after five seconds.                    *)
Join(p) ==
  /\ Step(p, "join", "release")
  /\ late' = IF p \in playing THEN late \cup {p} ELSE late
  /\ UNCHANGED <<lock, database, next, login, playing, address, setup, starts>>

Release(p) ==
  /\ Step(p, "release", "exit")
  /\ lock' = None
  /\ UNCHANGED <<database, next, login, playing, late, address, setup, starts>>

Exit(p) ==
  /\ Step(p, "exit", "off") /\ Forget(p)
  /\ UNCHANGED <<lock, database, file, starts>>

Kill(p) ==
  /\ pc[p] # "off" /\ pc' = [pc EXCEPT ![p] = "off"] /\ Forget(p)
  /\ lock' = IF lock = p THEN None ELSE lock
  /\ UNCHANGED <<database, file, starts>>

----------------------------------------------------------------------------
Open(p) ==
  \/ Start(p) \/ Acquire(p) \/ AlreadyRunning(p) \/ Baseline(p)
  \/ Migrate(p) \/ MigrateFails(p) \/ Stamp(p) \/ Migrated(p)
  \/ SeedIfEmpty(p) \/ AddPreset(p)
  \/ BootstrapAdmin(p) \/ WriteFirstLogin(p) \/ StartServing(p)

Serve(p) ==
  \/ CheckAddress(p) \/ QueueAddress(p) \/ SpeakFails(p) \/ WaitAddress(p)
  \/ SpeakAddress(p) \/ CancelAddress(p) \/ DeletePreset(p)
  \/ SignIn(p) \/ Claim(p) \/ ClearFirstLogin(p) \/ ClaimBreaksOff(p) \/ StopAddress(p)

Close(p) ==
  ShutDown(p) \/ PlayerEnds(p) \/ Join(p) \/ Release(p) \/ Exit(p) \/ Kill(p)

Next == \E p \in Process : Open(p) \/ Serve(p) \/ Close(p)

Spec == Init /\ [][Next]_vars

----------------------------------------------------------------------------
(* The lock file keeps two player threads from talking over each other:    *)
(* two processes have one only while the first has stopped waiting for it, *)
(* after five seconds, and has not ended yet.                              *)
OnePlayer == \A p, q \in playing \ late : p = q

(* However often starts are killed in the middle, a version that has been  *)
(* written stands for all statements up to it, so that none is missed by   *)
(* the starts to come.                                                     *)
StampedIsDone == Upto(version) \subseteq done

(* Once somebody has claimed the administrator's account, a server that is *)
(* not in the middle of the claim has removed the file with the password   *)
(* that was issued, also when the one that served the claim was killed,    *)
(* unless its own attempt failed or its handler broke off before it.       *)
ClaimedFileIsGone ==
  \A p \in Process :
    pc[p] = "serving" /\ setup[p] = "idle" /\ p \notin left => ~(file /\ account = "claimed")

(* The address is put into the queue at most once more when it has been    *)
(* stopped, by a thread that had asked just before, and by no process more *)
(* often than the limit says.                                              *)
AddressStops == \A p \in Process : after[p] <= 1 /\ said[p] <= Limit

(* "It stops the moment an administrator signs in": nobody hears the       *)
(* address from a server whose administrator has signed in.                *)
SilentOnceSignedIn == heard = {}

(* "The file is deleted the moment the account is claimed": no server that *)
(* is not in the middle of the claim has the file of a claimed account.    *)
DeletedWhenClaimed ==
  \A p \in Process :
    pc[p] = "serving" /\ setup[p] = "idle" => ~(file /\ account = "claimed")

(* "Two player threads ... will talk over each other on the PA -- the one  *)
(* failure this system must never have": at most one process has one.      *)
OneVoice == \A p, q \in playing : p = q

(* "Safe to run on every start": no start fails over the database that an  *)
(* earlier start of this code left behind.                                 *)
SafeOnEveryStart ==
  \A p \in Process : pc[p] = "migrate" /\ next[p] \in Statement => ~DuplicateColumn(next[p])
=============================================================================
