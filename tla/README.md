# Verification of the CCCS announcer

The announcer reads typed announcements aloud over a school's speakers. Staff
submit them from a browser; the server puts each into an SQLite table; one
player thread takes them from there, synthesises speech and plays it to a sound
device. This directory holds TLA+ models of the parts of that program whose
behaviour depends on order, timing and failure, the TLC configurations that
check them, and proofs of their main properties.

    tlc -workers 2 -config MCPlayer_stop.cfg MCPlayer.tla     # one run
    tlc -workers 2 -config MCSchedules_timetable.cfg MCSchedules.tla
    tlc -workers 2 -config MCListener_words.cfg MCListener.tla
    tlapm PlayerProofs.tla                                    # proofs about the player
    tlapm SchedulesProofs.tla                                 # about the timetable
    tlapm StartupProofs.tla                                   # starts and migrations
    tlapm AccountsProofs.tla                                  # accounts and sessions
    tlapm LimitsProofs.tla                                    # lockout and rate limit
    tlapm FilesProofs.tla                                     # previews and clips
    tlapm StatusProofs.tla                                    # snapshots and pages
    tlapm ListenerProofs.tla                                  # what is said and understood  (ten minutes)

`PROJECT.json` lists the runs, for every definition the source lines it stands
for, for every property a change of the code that would break it, the hazards
the properties are aimed at, and the theorems.


## 1. Inventory

### The announcements table (`app/db.py:300-490`)

*State:* one row per announcement with a state (`queued`, `playing`, `done`,
`failed`, `stopped`, `interrupted`), an owner, a priority, a kind, a clip or a
text, and `stopped_by`. *Operations:* `enqueue`, `claim_next`,
`release_to_queue`, `finish`, `cancel_queued`, `recover_orphaned_items`,
`purge_announcements`. It is the only thing the web handlers and the player
share that outlives the process. *Hard:* `finish` and `release_to_queue` do not
look at the state they overwrite, so it is the order of the callers, not the
table, that keeps a finished row finished. *Correct when:* at most one row is
playing; order is priority first, then first come first served; a row that is
over stays over; purging touches nothing that is still to be played.

### The player thread (`app/player.py`)

*State:* `_current_id`, `_stop_event`, `_stop_by` under a lock, the `_shutdown`
flag, `health.audio_ok` and `health.tts_ok`, and where the thread is.
*Operations:* `_run` claims rows one at a time; `_play_item` synthesises, opens
the device, plays chime, gap, body and end tone, and ends the row as done,
stopped or failed, or puts it back when the device cannot be reached;
`request_stop`, `stop_current` and `shutdown` are called from other threads.
*Hard:* it is driven by exceptions from four libraries, and the stop flag belongs
to whichever item is current. *Correct when:* a stop silences the announcement it
was meant for and no other, is attributed to who asked, and lasts; an announcement
is marked done only if it was heard; nothing waits for ever; the thread survives.

### Web handlers on announcements (`app/main.py:1249-1465, 1662-1746`)

Submit, play a clip, test tone, stop one, stop current, purge the log, delete a
clip. Each runs on its own thread of the server's pool. *Hard:* `api_stop` reads
the row and acts on what it read; the player may have claimed, finished or put
back the row since.

### Process life cycle (`run.py`, `app/main.py:242-303, 829-851`, `app/singleton.py`)

Start (lock the instance, migrate, sweep rows left `playing`, start the player,
the scheduler and the publisher), shutdown (stop the thread, join it for 5
seconds, release the lock), and the crash. *Hard:* what each of them leaves in
the table and on the air.

### Scheduled announcements (`app/schedules.py`, `app/main.py:622-718, 1795-1921`)

*State:* a table of schedules with a `next_run_at` each, the scheduler thread's
position in its round, the wall clock and the time zone. *Operations:* create, edit, pause,
resume and delete (web), and a round every few seconds that stores each due
schedule's next run and then queues the announcement. *Hard:* now is read before
the due rows are selected; the row is written from a stale copy; a crash falls
between the two writes; daylight saving time. *Correct when:* an occurrence is
announced at most once, never early and never later than the grace period, and a
person's edit is not undone.

### Address announcer (`app/main.py:722-802`)

A thread that queues the web address at startup until an administrator
has signed in. *Hard:* the sign-in races the next repetition, and what is in the queue stays there.

### Status and events (`app/main.py:307-424`, `app/events.py`)

Snapshots of the player and the queue, built by several threads and handed to
bounded queues, one per open page. *Hard:* reads that are not one
transaction; publishers that overtake one another; a queue that is full.
*Correct when:* a page that stays connected eventually shows the truth.

### Accounts, sessions, sign-in (`app/accounts.py`, `app/auth.py`, `app/security.py`)

*State:* users (role, active, failed sign-ins, locked until), sessions,
`must_change_password`. *Hard:* "is this the last administrator" is tested
before, not with, the write; failed sign-ins are counted by read, add, write; a
session is loaded before the request it authorises. *Correct when:* there is
always an administrator who can sign in; a deactivated account has no session;
the count of failures is not too low.

### Rate limit (`app/ratelimit.py`, `app/main.py:1272-1312`)

*State:* `created_at` of the announcements in the table. *Operations:* count those
of one person in a sliding window, then refuse or insert. *Hard:* the count is a
statement before the insert, and stamps, cutoff and answer are cut to whole
seconds. *Correct when:* nobody gets far over the limit by asking in parallel, and
whoever waits as long as they were told can send.

### Previews and sound clips (`app/main.py:1192-1245, 1698-1746`, `app/sounds.py`, `app/tts/piper.py`)

*State:* slots of a semaphore, `preview-*.wav` named after their words,
`sound-*.wav` and `incoming-*` files, the `sounds` table. *Hard:* several threads
synthesise, sweep and read the same file; a clip is a row and a file. *Correct
when:* slots come back, a preview that was found is served and is whole, every
clip has its file and every file its clip.

### Migrations, first start (`app/db.py:84-288`, `app/presets.py:165`, `app/main.py:432-480`)

*State:* `schema_version` and the schema, the ready-made announcements, the first
administrator and `FIRST-LOGIN.txt`. *Hard:* none of the steps is one transaction
with the next, and the machine may be switched off between any two. *Correct when:*
no statement is missed, the issued password does not outlive its account, and a
start that was cut short does not spoil the next one.

### Text (`app/normalize.py`, `app/numbers.py`)

An ordered list of rules that turn what was typed into what is said. *Hard:* each
rule reads what the rules before it left. *Correct when:* no figure is left for
the voice to guess at, what is said is what was typed, and an item sounds the same
wherever it stands.

### Other pure code

`presets.py` (fill in a template), `chimes.py` and `wavio.py` (samples), and what
`static/*.js` shows.

### How they interact

    browser --> web handlers --> announcements table <-- scheduler, address announcer
                    |   ^                  |
      request_stop  |   | snapshots        | claim_next / finish / release_to_queue
                    v   |                  v
                 player thread --> speech engine, sound files --> sound device

Threads share the table, the player's lock-protected stop fields, the health
record and the broadcaster. Every database statement runs on its own
connection, so a handler that needs two statements can be interleaved with
anything between them.


## 2. Plan

Modules are written so that they can be proved about as well as checked:
parameters are CONSTANTS with named assumptions, one action per operation, no
RECURSIVE operators outside modules that only TLC uses.

| order | module | models | states its promise as |
|---|---|---|---|
| 1, done | `AnnouncementTable` | the table's statements | - |
| 1, done | `Player` (on 1) | player thread, device, stop handlers, restarts | `Lifecycle` |
| 1, done | `PlayerProofs` | proofs about `Player` | - |
| 2, done | `Calendar` | next occurrence and grace period, across a clock change | `AsPlanned`, on the clock on the wall |
| 2, done | `Schedules` (on `Calendar`) | the scheduler's round against edits, errors and restarts | each occurrence at most once, each day its turn |
| 2, done | `SchedulesProofs` | proofs about `Schedules` | - |
| 3, done | `Accounts` | users, roles, sessions, passwords, the command line | an administrator remains; who is turned out stays out |
| 3, done | `Limits` | lockout and rate limit against a clock | counters are exact, the rate is kept |
| 3, done | `AccountsProofs`, `LimitsProofs` | proofs about them | - |
| 4, done | `Status` (on 1) | snapshots, publishers, the event loop, bounded queues, pages | every page eventually shows the truth |
| 4, done | `StatusProofs` | proofs about `Status` | - |
| 5, done | `Startup` | processes, the instance lock, migrations, first start, the address, shutdown | at most one process plays; nothing is missed by a later start |
| 5, done | `StartupProofs` | proofs about `Startup` | - |
| 5, done | `Files` | previews and sound clips | slots come back; rows and files agree |
| 5, done | `FilesProofs` | proofs about `Files` | - |
| 6, done | `Words`, `Listener` (on it) | numbers and the ordered rules, and somebody who listens | what is said is what was typed |
| 6, done | `ListenerProofs` | proofs about both | - |

Every safety property of a passing run is a theorem by now. Worth proving next: what each
step of the scheduler keeps of the life cycle of an announcement when `Schedules` and `Player` are composed.


## 3. The modules

### `AnnouncementTable`

The table as three functions from ids to a state, a content and `stoppedBy`, and
the next id. One operator per statement of `db.py`; each is one SQL statement or
one `BEGIN IMMEDIATE` transaction, so one atomic step. `"none"` is an id not
handed out yet and `"purged"` a deleted row: AUTOINCREMENT never hands an id out
twice. Timestamps, error texts and durations are left out, since no decision
reads them; `created_at` grows with the id, so purging by age deletes a prefix
of the rows that are over.

### `Player`

| variable | code |
|---|---|
| `pc`, `item`, `parts` | where the thread is in `_run` / `_play_item` / `_play_sequence`, the row it holds, what it still has to play |
| `cur`, `stopSet`, `stopBy` | `_current_id`, `_stop_event.is_set()`, `_stop_by` |
| `shutdown` | `_shutdown.is_set()` |
| `audioOk`, `ttsOk` | the health record |
| `plugged`, `unplugs` | the sound device, which is not part of the program |
| `files` | the clips on disk |
| `req` | for each person, the stop handler that has read a row and not acted yet |
| `restarts` | bound on shutdowns and crashes |
| `asked`, `heard` | history: who was told `stopped: true`; which bodies were played to the last block |

| action | code |
|---|---|
| `Claim`, `ExitLoop` | the loop of `_run` |
| `Begin` | the lock region that makes the row stoppable, with a fresh event |
| `Synthesize`, `SynthesizeFails` | the speech engine, and `TTSError` |
| `OpenSession`, `OpenFails` | opening the device, and `AudioUnavailable` |
| `PlayPart`, `PlayStopped`, `PlayUnavailable`, `PlayRaises`, `PlayCompleted` | one part of `_play_sequence`; the flag is tested before every block |
| `FinishStopped`, `FinishDone`, `RecordSpeechRate`, `FinishFailed`, `Release`, `Backoff`, `Cleanup` | the ends of `_play_item`, its handlers and its `finally` |
| `WriteRaisesInBody`, `WriteRaisesInHandler` | a database error, in the body or inside a handler |
| `Announce`, `TestAudio`, `PlaySound`, `DeleteSound`, `Purge` | the handlers that are one statement |
| `StopRead` then `StopPlaying` or `StopQueued`; `StopCurrent` | `api_stop`, in two steps because it decides on what it read; `api_stop_current` |
| `ScheduleDue`, `SpeakAddress` | what the scheduler and the address announcer insert |
| `Start`, `Shutdown`, `Exit`, `Crash` | the process; `Start` includes the sweep of orphaned rows |
| `Unplug`, `Replug` | the device |

One action of the thread is the code between two points where another thread can
be seen. A sound is one block: the loop over blocks tests the flag, writes, and
changes nothing else until the last one.

### `Lifecycle`

What is promised to the staff, with no thread, device or server: an announcement
waits, is on air alone, is over once; the next on air is the first in line;
nothing is forgotten before it is over. `Player` implements it under the mapping
`Phases`, `Urgent`.

### `Calendar`

Pure operators. Instants are UTC, counted from a Monday; a day is `DayLength`
of them. A zone is the one clock change in sight: an instant and the offsets
before and after it. `ToUtc` is the conversion of a local time as Python makes it
(`fold = 0`): a time that exists twice is the first of the two, one that does not
exist is read with the old offset. `NextOccurrence` is `next_occurrence` as "the
first day of the search window that fits", for the loop that walks forward;
`NotYet` and `Fires` are `decide`; `RaisesWithoutZone` says when the search, without a zone, comes
as far as the comparison that raises. `AskedFor`, `Shows` and `AsPlanned`
say what a plan means to the person who typed it, without any conversion: they
are the reference the others are checked against. A one-off means its date and nothing
else, for `next_occurrence` answers before it looks at the first and the last day of a
term. `MidnightKept` is what the proofs ask of a zone (section 5).

### `Schedules`

| variable | code |
|---|---|
| `row`, `nextId` | the `schedules` table: owner, plan, `enabled`, `next_run_at` |
| `pc`, `now`, `due`, `sending` | where the scheduler thread is in `run_due_schedules`, the time it read, the copies of the rows it selected and still has to look at, the copy it is announcing |
| `zoneLoaded` | `Services.zone is not None` |
| `req` | for each person, the handler that has read a schedule and the clock and not written yet, with what it will write |
| `clock`, `home` | the time and the school's zone |
| `edits`, `faults` | bounds |
| `sent`, `repeated`, `rearmed`, `stale` | history: what was announced, what twice, what a handler stored when it had come already, whose next run comes from an old plan |

| action | code |
|---|---|
| `ReadNow`, `Select` | `now = utcnow()`; `due_schedules(now_iso())`, which reads the clock again |
| `Advance` | one turn of the loop up to the queueing: decide, work out the next run (`Following`), store it and `enabled` from the copy (`StoreNext`) |
| `Send`, `SendRaises` | the queueing, and the handler around it |
| `RoundEnds`, `RoundRaises`, `StoreRaises` | the ends of a round: done, the comparison that raises without a zone, a database error |
| `AskCreate`, `AskUpdate`, `AskToggle`, `AskDelete` | the handlers up to their write: rights, refusals, the next run |
| `Create`, `Update`, `Toggle`, `Delete` | their writes |
| `Tick`, `Start`, `Stop` | time, and the process |

`Computable` and `NextRun` are `compute_next_run` with a zone and without: it finds the next
occurrence, finds nothing, or raises. Parsing of what was typed, the texts and the list view are left out. The
announcement that `Send` makes is `ScheduleDue` of `Player`.


### `Accounts`

| variable | code |
|---|---|
| `users` | the `users` table: role, `is_active`, `must_change_password`, `is_bootstrap`, and which password is set |
| `sessions` | the `sessions` table, by cookie: whose, and with which password it was opened |
| `job` | for each thread, the handler or command it runs and what it has read or been asked |
| `newest` | bound and name of the next password |
| `good`, `torn`, `crossed` | history: passwords taken away by somebody else; accounts whose sessions should have been ended by a handler that did not come to its end; two changes that take an administrator away overlapped |

| action | code |
|---|---|
| `Authenticate`, `StartSession` | `authenticate` with its refusals, on the row it read; `start_session` |
| `EndSession` | signing out, `load_session` on a session that is over, `purge_expired_sessions` |
| `Request`, `Permitted` | `load_session` and `require_user` / `require_admin`: the row is read once |
| `Command` | `manage_users.py`, which asks nobody |
| `Create`, `Reset`, `ChangePassword`, `CompleteSetup` | the functions of that name, up to the next statement another thread can come between |
| `CheckRole`, `SetRole`, `CheckActive`, `SetActive` | `api_update_user`: tests and writes of `set_role`, then of `set_active` |
| `EndSessions` | `end_sessions_for_user`, and the `DELETE` of `complete_setup` |
| `Refuse`, `Abort` | a request that cannot be granted; a statement that raises, or the end of the process |

Time is left out: a session may be too old at any moment. Chime, display name
and spoken name have no rule and are left out.

### `Limits`

| variable | code |
|---|---|
| `now` | the clock, two ticks to a second |
| `failed`, `lockedUntil` | `users.failed_logins`, `users.locked_until` |
| `sent` | each person's announcements, and `created_at` of each |
| `job` | for each thread, the copy of the counter it holds, or that it has passed the check |
| `wrong`, `mixed`, `told` | history: wrong passwords since the counter was cleared; counters written while another thread held a copy; when a person was told they can send again |

`GuessWrong` and `GuessRight` are `authenticate` up to the verdict on the password,
`RegisterFailure` and `Welcome` its writes, `Unlock` the administrator's button and any new password;
`CheckRate`, `RefuseRate` and `Enqueue` are `RateLimiter.check` and the two ways
on from it in `api_submit`; `Purge` is the clearing of the log. Stamps are cut to whole
seconds as `now_iso` cuts them.

### `Status`

| variable | code |
|---|---|
| `pc`, `item`, `audioOk` | the player thread where it publishes or changes what a snapshot reads, and `health.audio_ok` |
| `at`, `draft` | for each publisher, the statement of `build_snapshot` or `publish` it is at, and what it has read |
| `latest`, `calls` | `Broadcaster.latest`, and the callbacks queued on the event loop |
| `stream`, `buffer`, `shown` | for each browser, its `/api/events` request, its `asyncio.Queue` and its page |
| `order`, `passed`, `outdated`, `keptBy`, `sentBy`, `dropped` | history: who overtook whom, whose snapshot was kept and sent last, whose queue was full |

`ReadPlaying`, `ReadQueued`, `ReadHeld` and `ReadRest` are the reads of
`build_snapshot`; `Keep` and `Send` the two halves of `publish`; `Deliver` is
`_deliver` on the loop, `Subscribe`, `FirstEvent`, `NextEvent` and `Disconnect` are
`api_events`. The player's actions are those of `Player` with the statements that no
snapshot reads left out; `Submit`, `Cancel` and `Purge` are the handlers that change
what is shown. A snapshot is which rows it shows and where.

### `Startup`

| variable | code |
|---|---|
| `pc` | for each process, where it is between `run.py` and the end of the lifespan |
| `lock` | who holds `announcer.lock` |
| `version`, `done`, `next` | `schema_version`, the statements whose effect is in the database, the one a process is at |
| `presets`, `account`, `file` | the ready-made announcements, the first administrator, `FIRST-LOGIN.txt` |
| `waiting` | how many announcements of the address are in the queue |
| `playing`, `late` | processes whose player thread is alive, and those that gave up waiting for it |
| `stopped`, `said`, `loop` | `_stop_address`, how often the address was queued, and the address thread |
| `setup` | the rest of an `/api/setup` request after its `UPDATE` |
| `left` | history: processes whose removal of the file failed, or that did not come to it |
| `after`, `heard` | history: how often the address was queued once stopped; who spoke it once stopped |

`Start` to `AddPreset` are `Services.__init__`: the lock or the refusal, the
baseline, each statement of each migration, the version after it, the seeds.
`BootstrapAdmin` to `StartServing` are the first half of the lifespan, `ShutDown` to
`Exit` the second, with the wait of five seconds for the player in `Join`.
`Kill` takes a process away anywhere. `SignIn`, `Claim`, `ClearFirstLogin`, `ClaimBreaksOff`,
`StopAddress`, `CancelAddress` and `DeletePreset` are the requests that change any of this;
`CheckAddress`, `QueueAddress`, `SpeakFails` and `WaitAddress` the address thread, which only
puts the address into the queue; `SpeakAddress` is the player that comes to it, and may put it back.
`RemoveFirstLogin` is `clear_first_login_file`: it may fail, and nobody is told.

### `Words` and `Listener`

`Words` has `numbers.py` and the rules of `_expand_chunk` as operators on sequences of
tokens: a number as its digits, however many, or a word or a mark. For each pattern there is an
operator that says where its match at a place ends (`RoomEnd`) and one that
says what is put there (`SayRoom`); `Sub` is `re.sub`, and `Replaced` the pass from the left it makes once
both are known at every place. `NumberWords` goes to billions of billions, as the code does; the
endings of ordinals are tables, because TLA+ does not look into a string. Recursion is written as
recursive functions. `Listener` types items (a time, a room, a range), applies one
rule per step, and reads back what is said with operators of its own
(`Value`, `ClockIs`, `Understood`) that know how people hear numbers and know no rule.
`Written` says how many figures an item of each kind has: a room with five is not a room to the rules.
In the development of the model, the 13 909 sentences of the run were given to the program
and compared with what `Listener` ends with, and 101 numbers up to 1.9 billion with `NumberWords`: the words were the same.

### `Files`

| variable | code |
|---|---|
| `job` | for each thread, where it is in `api_preview`, in an upload or a download of a clip, or in a deletion |
| `free` | the value of `preview_slots` |
| `preview`, `old` | the cached preview of each text (no file, the beginning of one, a whole one), and those older than two hours |
| `due`, `doomed` | for each thread, the previews its sweep has still to look at and will find old; the one it has found old and not yet removed |
| `disk`, `incoming`, `rows` | `sound-*.wav`, `incoming-*`, the `sounds` table |
| `used`, `kills` | names are given out once; bound |
| `shared` | history: words that two asked for at once or whose synthesis failed |
| `aged` | history: requests during which their own preview was over two hours old, or doomed by a sweep |
| `lost` | history: clips whose handler was killed, could not insert its row, or could not write or remove a file |

`Preview` to `Answer` are `api_preview` from the semaphore to its release. The file is looked at twice
before it is trusted (`Found`, then `LongEnough`, `TooShort` or `GoneBeforeStat`). A sweep takes its cutoff
from the clock (`StartSweep`), then looks at one path (`Look`), then removes it (`Unlink`), and other threads run
between any two of these: what is removed is whatever file has that name by then, also one that was
just synthesized again, and a thread that is writing to it goes on writing to no file (`"adrift"`). `SweepEnds` is also
the error of a path that another sweep was faster with. `Age` may come at any moment, the one between
the test and the sweep included, but for a file that is being written.

`Add` to `InsertFails` are `add_bytes` and `add_from_link` with `_store`
and its refusals, then the row; `Delete` and `Remove` are `api_delete_sound`. A file is there from the first byte:
`Receive` begins the incoming one and `Store` the target, which a copy that breaks off leaves
behind (`TargetStays`). `FileError` is an incoming file that cannot be written or removed, or a clip's file that is in use when it is to be deleted.


## 4. What is checked

| run | instance | shows |
|---|---|---|
| `stop` | 2 rows, an administrator and a teacher, 1 unplug, 1 restart | stops race the queue, the device and each other: only the owner or an administrator stops a row, the name on it is somebody who was told so, a row that is over stays over, and the life cycle is implemented |
| `queue` | 3 rows, 2 priorities, 2 unplugs, 1 restart, fairness | one at a time, in order, and every announcement ends |
| `faults` | every kind of row, 2 clips (one damaged), deletion, failing voice, failing database, end tone | the inductive invariant of the proofs holds, and a row marked done was heard, unless it is a clip whose file was deleted |
| `timetable` | 1 schedule, a weekend with a first and a last day or a one-off that ignores them, 2 zones, 2 people, 3 requests, 1 fault, Friday afternoon to Sunday, fairness | every next run is a time the plan asks for, on the school's clocks; no occurrence is announced twice; each day gets its turn; nothing overdue stays so; the inductive invariant of the proofs holds |
| `accounts` | 2 accounts, 2 threads, 1 session at a time, 1 new password; a fresh system or one in use | an administrator who can sign in remains unless two changes crossed; nobody who was turned off or given a new password by somebody else has a session left, but for a sign-in that was under way and a handler that ended half way |
| `limits` | a teacher, 3 threads, 4 seconds, a limit of 1 in 2 seconds, lockout after 2 | counters are exact unless a copy was held; the limit is passed by at most one for each further thread; the wait is enough, two seconds of rounding apart |
| `status` | 1 announcement, 1 handler, 1 page, queue of 1, 1 fault of the speakers, fairness | the page shows what a new one would be given, and in the end the truth, unless publishers crossed or its queue was full |
| `startup` | 2 processes, 3 starts, databases of 7 ages, 2 seeds, the address twice | one player at a time, but for a thread that outlives the wait for it; no migration missed; the issued password is removed, but where removing it failed; once stopped, the address is queued once more at most |
| `words` | 4 000 items alone, 900 pairs | no figure is left; what is said is what was typed; no rule takes part of another item |
| `files` | 3 threads, 2 texts, 2 clips, 2 slots, 1 kill | slots come back; a preview that was found or written is served, unless it came to be two hours old or was doomed by a sweep meanwhile; and it is whole, unless the words were shared or their synthesis cut short; every clip has its file, and every file a clip, a request, or an error or a kill that left it |
| `told` | 1 row, 1 unplug | *violated*: see 1 in section 6 |
| `upgrade` | 2 starts, databases of 3 ages | *violated*: see 2 |

Beside these runs, which `PROJECT.json` lists, there are nine configurations of the same modules that end in
a counterexample, each to a sentence of the repository that the code does not keep in every case (section 6). They are for a
reader who wants to see the trace.

| configuration | instance | property that fails |
|---|---|---|
| `MCStartup_overlap.cfg` | 2 processes, 2 starts | `OneVoice`: see 3 |
| `MCStartup_address.cfg` | 2 starts, the address twice | `SilentOnceSignedIn`: see 4 |
| `MCStartup_claim.cfg` | 2 starts of a current database | `DeletedWhenClaimed`: see 5 |
| `MCPlayer_wedged.cfg` | 2 rows, a damaged clip, fairness | `BadItemDoesNotWedge`: see 6 |
| `MCSchedules_zone.cfg` | 1 schedule, 1 restart without time zones, fairness | `UtcIsUsed`: see 7 |
| `MCSchedules_paused.cfg` | 1 schedule, 2 requests | `PausedStaysPaused`: see 8 |
| `MCAccounts_admins.cfg` | 2 accounts, 2 threads | `LastAdminStays`: see 9 |
| `MCStatus_crossed.cfg` | 1 announcement, 1 handler, 1 page | `ConnectSeesTruth`: see 10 |
| `MCStatus_dropped.cfg` | the same, with the queue of 1 | `DroppingIsHarmless`: see 11 |

What a passing property excuses by a history variable is what one of these configurations shows:
`late` of `OnePlayer` is `overlap`, `left` of `ClaimedFileIsGone` is `claim`, `crossed` of
`AnAdminRemains` is `admins`, `zoneLoaded` of `OverdueCatchesUp` is `zone`; of `BrowsersAgree` and
`PageCatchesUp`, `keptBy` and `outdated` are `crossed` and `dropped` is `dropped`. Each pair says how far
the promise holds and how it breaks.

Bounds. Two rows are enough for a stop to hit the wrong one and for a request to
outlive the row it read; three are needed for an overtaking in the middle of a
priority tier. One unplug gives a put-back in every position, two give a
put-back of a retry. One restart gives an orphaned row and a request cut off by the
restart. Two people are an owner and somebody else; one of them administers,
the other does not. Every action and every disjunct of the next-state relation is taken in the
passing runs. With every row over and every bound used up the system waits for
ever, so the runs of `Player` do not check deadlock.

Bounds of the timetable. A day of four instants with a clock change of one keeps
what matters: several times of day, a local time that is skipped (spring) or
repeated (autumn) and planned for, and a conversion that moves an occurrence to
another instant. The grace period is one instant, so that the next instant is too late. The
search window of eight days is more than a week, the longest gap a plan without
bounds can have. Three requests are a creation and two edits that race
each other and the scheduler; the fault is a restart or an error at any point of a
round. More than one schedule in a round is left to the proofs.

Bounds of the others. Two accounts let two people demote each other, two threads let
any two handlers overlap; a session and a password are enough for one that should
have been ended and one that replaces another, and the run starts from every set of administrators.
The window of the rate limit is four ticks and the story eight, so that announcements
fall out of it; the limit of one is the smallest that a second thread can pass, and a third passes it by two.
That administrators are exempt is left to the theorems, which are about any number of both.
A queue of one instead of eight is full after one snapshot, and one announcement with one fault passes
through every state the page can show. Three starts are a killed one, one that finds what it
left, and one beside it. Three threads are one that has found an old preview and not yet removed it, one that
removes it meanwhile, and one that synthesizes the same words again and loses what it wrote; the second text is one that a sweep
looks at on its way, and words that nobody else asked for. Two slots make the third thread wait. Two clips let one be deleted while
another is stored. Symmetry is used where threads, processes or names are alike and no liveness is checked.
Deadlock is checked in `accounts` and `files`; in the other runs the story ends.

Fairness. `PlayerStep`: the thread runs as long as the process does, and nothing
in it waits without a timeout. `Start`: a process that is down is started again,
which is what the autostart task is for. `Exit`: the shutdown joins the thread
for 5 seconds at most, then the process is gone. `Replug`: somebody plugs the
device in again; without it an announcement does wait for ever, as the code
intends. Submitting, stopping, purging, failing, crashing and unplugging are
never assumed to happen. `SchedulerStep`: the scheduler's loop waits with a timeout
and starts another round, whatever the last one raised; time is not assumed to
pass. In `Status`: a thread that publishes gets on with it, the player thread runs, the
event loop runs its callbacks, and a browser that is connected reads its stream; that somebody
submits, cancels or connects is never assumed.


## 5. What is proved

For every number of rows, people, clips, unplugs and restarts, from the named
assumptions of `AnnouncementTable` and `Player` (`None` and `Unknown` are nobody's name,
administrators are people, bounds are numbers), which TLC evaluates in each run:

| theorem | property |
|---|---|
| `Invariance` | `Inv`, the inductive invariant |
| `TypeCorrect` | `TypeOK` |
| `SinglePlayback` | `OnePlaying` |
| `FirstComeFirstServed` | `NoOvertaking` |
| `StopAuthority` | `OnlyOwnerOrAdminStops` |
| `NeverReplayed` | `NoReplay` |
| `StopsAreAttributed` | `StopIsAttributed` |
| `Implements` | `KeepsPromise`: `Player` implements `Lifecycle` |
| `DoneMeansHeard` | `DoneWasHeard` |

The argument. None of the properties is inductive alone. That two rows never play
needs to know that a thread about to claim holds no row (`ThreadOK`), which
needs the row's state at each place in `_play_item`. That only the owner or an
administrator stops a row needs to know that the name left in `_stop_by` belongs to
the row that is current (`StopOK`), and that whoever is being served was allowed
to stop that row when it was read and still is, since ids are never reused
(`AskersOK`). That nothing overtakes needs the rows to be handed out in order
(`RowsOK`). `Inv` is their conjunction; the run `faults` checks it.

The actions are first reduced to what they do to the table (`TableEffect`,
`EffectOfStep`): insert, claim the head, put back or end the row held, cancel a
queued row, sweep, purge, or nothing. Order, single playback and the life cycle
are proved from those effects; `ThreadOK`, `StopOK` and `AskersOK` action by action.
`Implements` maps each effect to the step of `Lifecycle` it is: a put-back keeps
the place in line, a correction of a finished row is a stutter.

That a row marked done was heard needs one more fact, `HeardOK`: from `Begin` to the
end of the last part, the body of the row at hand is among the parts still to be played
or is accounted for (heard, or there is none: a test, or a clip whose file is gone). It is begun by
`PartsHaveBody`, what `PartsOf` puts together for a row, and kept because a part that leaves
the list was played, or the row does not get to `finish_done`.

About the timetable, for every length of a day, grace period, plan, zone and number
of schedules, people, requests and faults, from the named assumptions of
`Calendar` and `Schedules`:

| theorem | property |
|---|---|
| `OnceInvariance` | `OnceInv`, the inductive invariant |
| `ScheduleTypes` | `TypeOK` |
| `OccurrencesOnce` | `AtMostOnce` |
| `TimeIsKept` | `SchoolTimeKept` |
| `EachDayHasItsTurn` | `OneEachDay` |

The argument needs one fact about the calendar, `NextOccurrenceLater`: what
`NextOccurrence` returns is strictly later than its argument. From it, the next run stored
by `Advance` is later than the occurrence it is about to announce. The invariant
says that of all time: the next run of an enabled row, and of every copy in the
round, is later than whatever was announced of that schedule (`SentOK`), unless a handler put an
occurrence back that had come already; a round holds each row once (`RoundOK`);
and a new schedule has a fresh id, so that it has announced nothing (`IdsOK`).
The exception is in the property because the code has it: a handler that works
out the next run, loses the processor until the scheduler has announced that
occurrence, and then stores it, makes it due again. `RoundRaises`, errors and restarts
keep the invariant because the next run is stored first.

`TimeIsKept` and `EachDayHasItsTurn` are about the calendar itself. `CandidateShows` says that
the instant worked out for a day shows the plan's time on that day, or stands for a time that
the clocks skip; `SearchFindsFirst` that the search returns the first day that fits; `LocalDayInOrder` that later
instants are never on earlier days. From these, what is stored for a plan is always an
occurrence of it (`OnPlan`, the invariant `PlannedOK` over rows and requests), and the occurrence
after one of a day is of the next day asked for. Both theorems have a hypothesis beside
the named assumptions: every zone keeps midnight (`MidnightKept`). A clock change that takes the school
back into a day that is over (St. John's until 2011, from 0:01 to 23:01), or one that skips a time
into the next day (Samoa in 2011), is left out: there the day of a plan can come twice, or its
time be that of another day. The changes of America/Vancouver, the default, and all that stay inside their day satisfy the
hypothesis, and TLC checks it of the zones of the run.
Two mistakes in what the properties said came out of these proofs and are mended: `AskedFor` asked for the
bounds of a term in a one-off, which ignores them, and `OneEachDay` was stated of rows whose next run comes from
an old plan, where the same day may come again.

About starts, for every number of processes and starts, every mode and limit of the
address, and every set of databases found, from the named assumptions of `Startup`:

| theorem | property |
|---|---|
| `StartupInvariance` | `IInv` of `StartupProofs`, the inductive invariant |
| `StartupTypes` | `TypeOK` |
| `OneProcessPlays` | `OnePlayer` |
| `NoStatementMissed` | `StampedIsDone` |
| `NoFileOnceClaimed` | `ClaimedFileIsGone` |
| `AddressIsBounded` | `AddressStops` |

The argument. What a database claims rests on what the process at work on it has
done so far (`BehindOK`): every statement before the one it is at has had its
effect, whichever version it began from, so that the version may be written when
a migration has none left (`BehindNext`). Two player threads would need two
holders of the lock, because a process with a player thread holds it or has given
up waiting (`PlayerOK`). The file can only be there with a claimed account before
`BootstrapAdmin`, in the middle of the claim, or where its removal failed or was not come to (`FileOK`), and nobody else can write
it or claim meanwhile, the lock again. The address is queued once after the stop at
most, since `stopped` is looked at before each time (`AddressOK`); when what is in the queue is spoken, the theorem does not say. The run `startup`
checks the properties; the invariant was found with TLC on the same instance.

About accounts, for every number of accounts, threads, sessions and passwords, from the
named assumptions of `Accounts` (among them that the accounts are finitely many):

| theorem | property |
|---|---|
| `AccountsInvariance` | `IInv` of `AccountsProofs`, the inductive invariant |
| `AccountTypes` | `TypeOK` |
| `AdministratorRemains` | `AnAdminRemains` |
| `RevokedIsOut` | `RevokedStaysOut` |

The argument. Between the test for the last administrator and the write that takes one away other
handlers run. `AdminOK` says what the test was worth: as long as no two such changes overlapped, the one
under way is the only one and there is an administrator besides the account it is about. It is stated of the
threads (`Demotes`), so it holds however many there are. `RevokedStaysOut` needs to
know of sessions before they are opened (`OpeningOK`: a sign-in under way stands as well as the session it will open, or is
known to be late), that handlers are at work on accounts that exist (`JobOK`), and that passwords grow (`PasswordOK`).

About lockout and rate limit, for every number of people and threads, any limit, window and
lockout, from the named assumptions of `Limits` (the pool's threads are finitely many):

| theorem | property |
|---|---|
| `LimitsInvariance` | `IInv` of `LimitsProofs`, the inductive invariant |
| `LimitsTypes` | `TypeOK` |
| `CountingIsExact` | `CountIsExact` |
| `RateIsKept` | `RateKept` |
| `WaitingIsEnough` | `WaitIsEnough` |

The argument. A copy of a counter is the counter, unless another was written over it
(`CopiesOK`), which makes the write of a count plus one exact. `RateKept` is inductive with the types alone
because it counts the announcements in the window together with the threads that passed the check and
have not sent yet: passing moves a thread in, sending moves it to the announcements, time only takes out (`WindowEmpties`).
`ToldOK` says that whoever waits is below the limit already, or has an announcement that leaves the
window before the time told, less than a second apart; `WholeSecondFacts` and `RetryAfterFacts` bound what the two roundings cost.

About previews and clips, for every number of threads, slots, texts, clips and kills, from the
named assumptions of `Files` (the pool's threads are finitely many):

| theorem | property |
|---|---|
| `FilesInvariance` | `IInv` of `FilesProofs`, the inductive invariant |
| `FilesTypes` | `TypeOK` |
| `NoSlotIsLost` | `SlotsComeBack` |
| `FoundPreviewIsServed` | `FoundIsServed` |
| `PreviewIsWhole` | `ServedIsWhole` |
| `EveryRowHasItsFile` | `RowHasFile` |
| `NoFileIsOrphaned` | `FileHasRow` |

The argument. Slots are counted by the threads between the semaphore and its release (`Busy`), one
entering or leaving in a step. A file that was found or written stays until it is read (`PresentOK`): whatever a sweep
removes it has found old first, so a request whose file is old or doomed at any time is among
the aged (`AgedOK`), through all that other threads sweep and write between the sweep's look and its removal. `FoundIsServed` says
with that exactly which requests can be left without a file. Half a file is the one being written (`AloneOK`),
unless the words are shared or were left so. A clip belongs to one request, which knows
by the place it is at where the clip's files are (`ClipOK`), so that inserting a row is after the file
and removing it before; what is on the disk has a row, a request, or was given up (`LeftOK`), also where writing or removing a file fails.

About snapshots, for every number of announcements, handlers and browsers and every length of a
queue, from the named assumptions of `Status`:

| theorem | property |
|---|---|
| `StatusInvariance` | `IInv` of `StatusProofs`, the inductive invariant |
| `StatusTypes` | `TypeOK` |
| `OpenPagesAgree` | `BrowsersAgree` |

The argument. `AgreeOK` follows a snapshot on its way: if the one kept last was sent, and sent last,
then it is the last callback on the event loop; with none left there, it is the last in the
queue of every browser that had room; and with that empty, it is what the page shows. `KeptOK` says that who kept
last is about to send what was kept, and nobody publishes twice at a time (`OrderOK`).

About texts, for every set of sentences, every length and every number of figures, from the named
assumption of `Listener` (a sentence is a sequence of items, and a telephone number with an area code has seven more figures):

| theorem | property |
|---|---|
| `NoFigureIsLeftAlways` | `NoFigureIsLeft` |
| `ItemsAreUnderstoodAlways` | `ItemsAreUnderstood` |
| `ItemsDoNotMixAlways` | `ItemsDoNotMix` |
| `NumbersReadBack` | a listener who adds up the words of a number has the number |
| `DigitsReadBack`, `DecimalsReadBack`, `OrdinalsReadBack`, `TimesReadBack` | the same of digits one by one, decimals, ordinals, times |
| `RulesLeaveAlone` | a rule changes nothing in a text that holds nothing it looks for |

The argument. A statement about every number, or every length of a text, is proved by taking the least
counterexample of a well-founded order (`WFMin` of the library, of a set and not of an operator), and a recursive function is shown to exist by
working it out from smaller arguments. Listening is a fold over the words, so hearing two runs of words is hearing the second
after the first; with that, `NumbersReadBack` goes up by levels: below a hundred from the table, then hundred,
thousand, million, and a billion as often as it takes. That the tables have no word twice is what makes digits and ordinals come back.

`NoFigureIsLeft` needs no invariant: every match ends after it begins, so a pass reaches the end of the text; what a rule puts there is
made of tokens; and the last pass takes every number that is left and puts words.

`ItemsAreUnderstood` needs one, `OnItsWay`: a single item is as it was typed until the rule that is meant
for it has been applied, then as that rule says it, and from the last rule on all words. Each kind of item has a lemma about every stage of that way. Two
kinds of facts make these short: a rule that looks for a word or a mark the text does not hold leaves it alone
(`RulesLeaveAlone`, which each rule's vocabulary makes a matter of looking), and of the rules that do look for what is there, no match begins at any other place.
A time that is none (25:70) is matched by the first rule and put back as it was, which changes nothing either. At the last stage
the words are heard, and the listener's theorem for that kind of number says what is understood.

`ItemsDoNotMix` needs another, `SideBySide`: after each rule the sentence is what the same rules make of its items one by
one, joined by "and". The patterns are why. What a pattern looks at, starting in an item, is in that item or is the space and
the "and" behind it, and there it finds in the sentence nothing that it would not find at the end of the item alone (the
`...Alike` lemmas, one for each piece of a pattern); before an item it sees at most a space. At the "and" itself no pattern begins
(`NothingAtAnd`). So a pass over two parts with an "and" between them is a pass over each (`PassBoth`), a rule does to a sentence what
it does to its parts (`ExpandedBoth`), and ten rules one after the other do it too; hearing, which goes word by word, keeps the parts apart as well.

Each inductive invariant was found or confirmed with TLC on the instance of the module's run before it was
proved. `IInv` is defined beside the proofs and not in the models, so that the
runs of these modules check the properties it implies.

Only model-checked:
- `EveryAnnouncementEnds`, `OverdueCatchesUp` and `PageCatchesUp`: liveness under fairness is beyond the prover.


## 6. Where the code and its words disagree

With a run that shows it (1 and 2), or a configuration (3 to 11, section 4):

1. `told`: a stop is confirmed, the device fails before the flag is seen, the row
   is put back, and its next attempt starts with a fresh event: it is played although
   its owner was told it is stopped.
2. `upgrade`: `initialize` is said to be safe on every start, but each statement of a
   migration commits by itself and the version is written afterwards. After a kill in
   between, the next start adds a column that is there already, and it and every later one fail.

3. `overlap`: two player threads talking over each other are "the one failure this system must never
   have", and the lock is said to be held for the life of the process. The lifespan gives it up after
   waiting five seconds for the thread, whether it has ended or not, and a row that is claimed as the
   shutdown begins plays through it. The next process can take the lock and play beside it.
4. `address`: the address is said to stop the moment an administrator signs in. The thread only queues it,
   and stopping the thread cancels nothing: behind a long clip or a missing device several wait, and all are spoken.
5. `claim`: `FIRST-LOGIN.txt` is said to be deleted the moment the account is claimed. An `OSError` of the
   removal is swallowed, and an error in storing the chime ends the handler before it. The next start tries again.
6. `wedged`: one bad item must not wedge the queue. A clip that cannot be decoded is reported as an unreachable
   device, put back at the head of the queue and retried for ever, in front of everything behind it.
7. `zone`: without a time zone, which the code means to survive by using UTC, every round raises at the first
   repeating schedule that is due, and the timetable stands still.
8. `paused`: the scheduler stores `enabled = 1` from its copy of the row, over the pause somebody asked for in the meantime.
9. `admins`: two administrators who demote or turn off each other at the same time leave none.
10. `crossed`: a page that connects is said to see the true state. Snapshots are built and kept without a lock,
    and one that was built earlier can be kept later, until something else is published.
11. `dropped`: dropping snapshots is called harmless because stale ones are dropped. A full queue drops the newest,
    and a page that reads the rest stays behind.

Met while modelling, and possible in the models, without a configuration of its own:

12. `api_stop` acts on the state it read. When the player claims the
    row in between, the answer is `stopped: false` and the row is played to the end
    (`StopRead`, `Claim`, `StopQueued`).
13. A database error inside an exception handler of `_play_item`
    leaves it and ends the only player thread, which the comments say
    must never die (`WriteRaisesInHandler`).
14. A clip deleted while it waits is marked done without a sound (the exception in `DoneWasHeard`).
15. The scheduler reads the clock before it selects what is due, and the
    selection reads it again. A schedule that falls due in between is "not yet" due,
    and is advanced all the same: this occurrence is lost (`ReadNow`, `Tick`, `Select`, `Advance`).
16. The account that was created at the first start counts as unclaimed until `/api/setup`, but
    `/api/password` and a reset from the command line clear the forced change alone: after them it can do
    everything, and is still reported as not set up.
17. `_mark_audio_ok` publishes before it sets the flag: the announcement that finds the speakers
    working again is shown as held, until something else is published. The row that waits out a back-off
    is shown as held for up to 30 seconds, and a snapshot built in between says what the reads found at different times.
18. The wait told by the rate limit can be up to two seconds short (`WaitIsEnough`).
19. A preview that comes to be two hours old between the test and the read is removed, by the request's own sweep or
    another's, and the request fails. A sweep that has found a file old removes what has its name by then, also what was
    just synthesized again (`Look`, `Synthesize`, `Unlink`). `FoundIsServed` says that nothing else can make it fail.
20. A preview whose synthesis was killed or timed out leaves the beginning of a file, which later requests
    take for the whole; two requests for the same words write to one file (`ServedIsWhole`).
21. Files left by a request that was killed or could not insert its row, by a copy that broke off, and those of a deleted clip
    that could not be removed, are never removed: `SoundLibrary.orphans` is not called (`lost` in `FileHasRow`).
22. A sign-in under way when a password is reset or an account is turned off opens its session
    afterwards (`RevokedStaysOut`); the next request closes it in the second case, in the first it lives.
23. `api_update_user` that is refused for turning an account off has changed its role already.
24. A seeding that was cut short is never completed, and an administrator who deletes every ready-made
    announcement has them back at the next start. A kill between the creation of the first account and the writing of the file leaves an
    account whose password nobody knows; the command line can reset it.
25. "12:30-1:15", "9-10 am", "Room 8-10" and "3-4th" lose their "to"; "25pm" becomes "twenty fivepm";
    "bus 012" and "rm 04" lose their zero.


## 7. Not modelled

Sample values and mixing (`chimes.py`, `wavio.py`, `tts/`): only whether
they succeed matters to the rest, and which file is whole. Configuration, logging, network address
detection, the installers and `make_chimes.py`: they run once, alone, and are pure input
and output. Page layout and wording, and with them the scripts of the pages. In
`accounts.py` the settings that no rule depends on, the hashing of passwords and the list of
security events. In `normalize.py` what comes before and after the rules: control characters,
markup, the pronunciation dictionary, punctuation and capitals. In `presets.py` the filling in of slots.
A disk that is full while the database is written, and a database that cannot be opened. The instance lock is modelled as it is by
default; with `single_instance` off nothing keeps two processes apart. `manage_users.py`, which
brings the database up to date without taking the lock, is in `Accounts` but not in `Startup`.
