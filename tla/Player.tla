------------------------------- MODULE Player -------------------------------
(***************************************************************************)
(* The announcer process: the player thread of app/player.py over the      *)
(* announcements table, the speaker device it plays to, the web handlers   *)
(* of app/main.py that insert, stop, cancel and purge announcements from   *)
(* other threads, and the process itself being shut down, killed and       *)
(* started again.                                                          *)
(*                                                                         *)
(* One action of the thread is the code between two points where another   *)
(* thread can be seen: a lock region, a database statement, a block of     *)
(* audio.  The loop of _write_array over the blocks of one sound tests the *)
(* stop flag and writes; writing a block that is not the last leaves this  *)
(* state as it is, so a sound is one block here.  Waiting (the idle wait,  *)
(* the wait after a failed claim_next) changes nothing and has no action.  *)
(***************************************************************************)
EXTENDS AnnouncementTable, Sequences

CONSTANTS
  Admin,        \* The administrators.
  Chimed,       \* Whose announcements start with a chime; None: the default.
  ChimedClip,   \* The clips that start with a chime.
  Damaged,      \* The clips on disk whose header read_wav refuses.
  Kinds,        \* Which kinds of announcement are submitted.
  Priorities,   \* The priorities people ask for.
  EndTone,      \* Whether an end tone is configured.
  DbMayFail,    \* Whether a write of the player thread may raise.
  MaxUnplugs,   \* Bound: how often the speaker device goes away.
  MaxRestarts   \* Bound: how often the process is shut down or killed.

ASSUME AccountsAssumption == Admin \subseteq Person /\ Chimed \subseteq Person \cup {None}
ASSUME ClipsAssumption == ChimedClip \subseteq Clip /\ Damaged \subseteq Clip
ASSUME InputsAssumption == /\ Kinds \subseteq Spoken \cup {"sound", "test"}
                           /\ Priorities \subseteq 0 .. 1
ASSUME FlagsAssumption == EndTone \in BOOLEAN /\ DbMayFail \in BOOLEAN
ASSUME BoundsAssumption == MaxUnplugs \in Nat /\ MaxRestarts \in Nat

VARIABLES
  pc,        \* where the player thread is; "off" when there is no process
  item,      \* the row _play_item was called with
  parts,     \* what _play_sequence still has to play
  cur,       \* _current_id
  stopSet,   \* _stop_event is set; the event is replaced, so cleared, by Begin
  stopBy,    \* _stop_by
  shutdown,  \* _shutdown is set
  audioOk,   \* health.audio_ok
  ttsOk,     \* health.tts_ok
  plugged,   \* the speaker device can be opened and written to
  files,     \* the clips that are on disk
  unplugs,   \* how often the device has gone away
  restarts,  \* how often the process has been shut down or killed
  req,       \* [Person -> the stop request of theirs a handler is serving]
  asked,     \* history: who was told {"stopped": true} for each row
  heard      \* history: the rows whose body was played to its last block

thread   == <<pc, item, parts>>
stopping == <<cur, stopSet, stopBy>>
health   == <<audioOk, ttsOk>>
device   == <<plugged, unplugs>>
process  == <<shutdown, restarts>>
web      == <<req, asked>>
vars == <<table, thread, stopping, health, device, process, files, web, heard>>

Part == {"chime", "gap", "body", "end"}

Location == {"off", "loop", "begin", "synth", "open", "play", "finish_stopped",
             "finish_done", "rate", "fail", "release", "backoff", "cleanup",
             "die", "dead", "exited"}

NoRequest == [id |-> None, seen |-> "none"]

TypeOK ==
  /\ TableTypeOK
  /\ pc \in Location
  /\ item \in Id \cup {None}
  /\ parts \in Seq(Part)
  /\ cur \in Id \cup {None}
  /\ stopSet \in BOOLEAN
  /\ stopBy \in Person \cup {None}
  /\ shutdown \in BOOLEAN
  /\ audioOk \in BOOLEAN /\ ttsOk \in BOOLEAN
  /\ plugged \in BOOLEAN
  /\ files \in SUBSET Clip
  /\ unplugs \in 0 .. MaxUnplugs
  /\ restarts \in 0 .. MaxRestarts
  /\ req \in [Person -> [id : Id \cup {None}, seen : {"none", "queued", "playing"}]]
  /\ asked \in [Id -> SUBSET Person]
  /\ heard \in SUBSET Id

Init ==
  /\ TableInit
  /\ pc = "off" /\ item = None /\ parts = <<>>
  /\ cur = None /\ stopSet = FALSE /\ stopBy = None
  /\ shutdown = FALSE /\ restarts = 0
  /\ audioOk = TRUE /\ ttsOk = TRUE
  /\ plugged = TRUE /\ unplugs = 0
  /\ files = Clip
  /\ req = [p \in Person |-> NoRequest]
  /\ asked = [i \in Id |-> {}]
  /\ heard = {}

----------------------------------------------------------------------------
(* What _play_item works out from the row before it starts.                *)

ClipPath(i) == IF content[i].clip \in files THEN content[i].clip ELSE None

(* Sound and test rows have no text to speak.                              *)
IsSpoken(i) == content[i].kind \in Spoken /\ ClipPath(i) = None

HasBody(i) == IsSpoken(i) \/ ClipPath(i) # None

\* chime -> gap -> body -> optional end tone.
PartsOf(i) ==
  (IF content[i].chime THEN <<"chime", "gap">> ELSE <<>>)
    \o (IF HasBody(i) THEN <<"body">> ELSE <<>>)
    \o (IF EndTone THEN <<"end">> ELSE <<>>)

----------------------------------------------------------------------------
(* The player thread.                                                      *)

Claim(i) ==
  /\ pc = "loop" /\ ~shutdown
  /\ ClaimNext(i)
  /\ item' = i /\ pc' = "begin"
  /\ UNCHANGED <<parts, stopping, health, device, process, files, web, heard>>

ExitLoop ==
  /\ pc = "loop" /\ shutdown
  /\ pc' = "exited"
  /\ UNCHANGED <<table, item, parts, stopping, health, device, process, files, web, heard>>

\* Mutant of Begin: _stop_by keeps the name left by the previous item.
BeginKeepsEvent ==
  /\ pc = "begin"
  /\ cur' = item
  /\ UNCHANGED <<stopSet, stopBy>>
  /\ parts' = PartsOf(item)
  /\ pc' = IF IsSpoken(item) THEN "synth" ELSE "open"
  /\ UNCHANGED <<table, item, health, device, process, files, web, heard>>

(* The lock region that makes the row stoppable, with a fresh event.       *)
Begin ==
  /\ pc = "begin"
  /\ cur' = item /\ stopSet' = FALSE /\ stopBy' = None
  /\ parts' = PartsOf(item)
  /\ pc' = IF IsSpoken(item) THEN "synth" ELSE "open"
  /\ UNCHANGED <<table, item, health, device, process, files, web, heard>>

Synthesize ==
  /\ pc = "synth"
  /\ ttsOk' = TRUE /\ pc' = "open"
  /\ UNCHANGED <<table, item, parts, stopping, audioOk, device, process, files, web, heard>>

(* TTSError: the handler marks the voice as failed, then finishes the row. *)
SynthesizeFails ==
  /\ pc = "synth"
  /\ ttsOk' = FALSE /\ pc' = "fail" /\ parts' = <<>>
  /\ UNCHANGED <<table, item, stopping, audioOk, device, process, files, web, heard>>

OpenSession ==
  /\ pc = "open" /\ plugged
  /\ audioOk' = TRUE /\ pc' = "play"
  /\ UNCHANGED <<table, item, parts, stopping, ttsOk, device, process, files, web, heard>>

OpenFails ==
  /\ pc = "open" /\ ~plugged
  /\ pc' = "release" /\ parts' = <<>>
  /\ UNCHANGED <<table, item, stopping, health, device, process, files, web, heard>>

(* play_wav reads the file before it looks at the stop flag.               *)
BodyIsClip  == parts # <<>> /\ Head(parts) = "body" /\ content[item].clip # None
BodyGone    == BodyIsClip /\ content[item].clip \notin files
BodyDamaged == BodyIsClip /\ content[item].clip \in files \cap Damaged

PlayPart ==
  /\ pc = "play" /\ parts # <<>> /\ ~BodyGone /\ ~BodyDamaged
  /\ ~stopSet /\ plugged
  /\ parts' = Tail(parts)
  /\ heard' = IF Head(parts) = "body" THEN heard \cup {item} ELSE heard
  /\ UNCHANGED <<table, pc, item, stopping, health, device, process, files, web>>

\* Mutant of PlayStopped: the cut-off sequence reports that it completed.
PlayStoppedReportsDone ==
  /\ pc = "play" /\ parts # <<>> /\ ~BodyGone /\ ~BodyDamaged
  /\ stopSet
  /\ pc' = "finish_done" /\ parts' = <<>>
  /\ UNCHANGED <<table, item, stopping, health, device, process, files, web, heard>>

PlayStopped ==
  /\ pc = "play" /\ parts # <<>> /\ ~BodyGone /\ ~BodyDamaged
  /\ stopSet
  /\ pc' = "finish_stopped" /\ parts' = <<>>
  /\ UNCHANGED <<table, item, stopping, health, device, process, files, web, heard>>

(* A write to a device that went away, or a clip that cannot be decoded:   *)
(* both are AudioUnavailable.                                              *)
PlayUnavailable ==
  /\ pc = "play" /\ parts # <<>> /\ ~BodyGone
  /\ BodyDamaged \/ (~stopSet /\ ~plugged)
  /\ pc' = "release" /\ parts' = <<>>
  /\ UNCHANGED <<table, item, stopping, health, device, process, files, web, heard>>

(* The clip was deleted after Begin found it: an ordinary OSError.         *)
PlayRaises ==
  /\ pc = "play" /\ BodyGone
  /\ pc' = "fail" /\ parts' = <<>>
  /\ UNCHANGED <<table, item, stopping, health, device, process, files, web, heard>>

PlayCompleted ==
  /\ pc = "play" /\ parts = <<>>
  /\ pc' = "finish_done"
  /\ UNCHANGED <<table, item, parts, stopping, health, device, process, files, web, heard>>

\* self._stop_by or "unknown".
StoppedName == IF stopBy = None THEN Unknown ELSE stopBy

FinishStopped ==
  /\ pc = "finish_stopped"
  /\ Finish(item, "stopped", StoppedName)
  /\ pc' = "cleanup"
  /\ UNCHANGED <<item, parts, stopping, health, device, process, files, web, heard>>

FinishDone ==
  /\ pc = "finish_done"
  /\ Finish(item, "done", None)
  /\ pc' = IF content[item].kind \in Spoken THEN "rate" ELSE "cleanup"
  /\ UNCHANGED <<item, parts, stopping, health, device, process, files, web, heard>>

RecordSpeechRate ==
  /\ pc = "rate"
  /\ pc' = "cleanup"
  /\ UNCHANGED <<table, item, parts, stopping, health, device, process, files, web, heard>>

\* Mutant of FinishFailed: a failed announcement goes back in line.
FinishFailedRetries ==
  /\ pc = "fail"
  /\ ReleaseToQueue(item)
  /\ pc' = "cleanup"
  /\ UNCHANGED <<item, parts, stopping, health, device, process, files, web, heard>>

\* Mutant of FinishFailed: a state the table does not know.
FinishFailedUnknownState ==
  /\ pc = "fail"
  /\ Finish(item, "error", None)
  /\ pc' = "cleanup"
  /\ UNCHANGED <<item, parts, stopping, health, device, process, files, web, heard>>

(* Both exception handlers that give an announcement up.                   *)
FinishFailed ==
  /\ pc = "fail"
  /\ Finish(item, "failed", None)
  /\ pc' = "cleanup"
  /\ UNCHANGED <<item, parts, stopping, health, device, process, files, web, heard>>

(* AudioUnavailable: say so, and put the announcement back.                *)
Release ==
  /\ pc = "release"
  /\ audioOk' = FALSE
  /\ ReleaseToQueue(item)
  /\ pc' = "backoff"
  /\ UNCHANGED <<item, parts, stopping, ttsOk, device, process, files, web, heard>>

\* Mutant of Backoff: the row is put back once more when the wait is over.
BackoffThenRelease ==
  /\ pc = "backoff"
  /\ ReleaseToQueue(item)
  /\ pc' = "cleanup"
  /\ UNCHANGED <<item, parts, stopping, health, device, process, files, web, heard>>

(* The wait of 2 to 30 seconds, with the row queued and still current.     *)
Backoff ==
  /\ pc = "backoff"
  /\ pc' = "cleanup"
  /\ UNCHANGED <<table, item, parts, stopping, health, device, process, files, web, heard>>

(* A database error in the body of _play_item is one more exception; one   *)
(* in its handlers leaves _play_item, and ends the thread.                 *)
WriteRaisesInBody ==
  /\ DbMayFail /\ pc \in {"finish_stopped", "finish_done", "rate"}
  /\ pc' = "fail"
  /\ UNCHANGED <<table, item, parts, stopping, health, device, process, files, web, heard>>

WriteRaisesInHandler ==
  /\ DbMayFail /\ pc \in {"fail", "release"}
  /\ audioOk' = IF pc = "release" THEN FALSE ELSE audioOk
  /\ pc' = "die"
  /\ UNCHANGED <<table, item, parts, stopping, ttsOk, device, process, files, web, heard>>

\* Mutant of Cleanup: the finally block forgets _current_id.
CleanupKeepsCurrent ==
  /\ pc \in {"cleanup", "die"}
  /\ item' = None
  /\ pc' = IF pc = "cleanup" THEN "loop" ELSE "dead"
  /\ UNCHANGED <<table, parts, stopping, health, device, process, files, web, heard>>

(* The finally block.                                                      *)
Cleanup ==
  /\ pc \in {"cleanup", "die"}
  /\ cur' = None /\ stopBy' = None /\ item' = None
  /\ pc' = IF pc = "cleanup" THEN "loop" ELSE "dead"
  /\ UNCHANGED <<table, parts, stopSet, health, device, process, files, web, heard>>

(* What the thread does of itself when no database write raises and the    *)
(* voice can speak the text.                                               *)
PlayerStep ==
  \/ \E i \in Id : Claim(i)
  \/ ExitLoop \/ Begin \/ Synthesize \/ OpenSession \/ OpenFails
  \/ PlayPart \/ PlayStopped \/ PlayUnavailable \/ PlayRaises \/ PlayCompleted
  \/ FinishStopped \/ FinishDone \/ RecordSpeechRate \/ FinishFailed
  \/ Release \/ Backoff \/ Cleanup

PlayerFault == SynthesizeFails \/ WriteRaisesInBody \/ WriteRaisesInHandler

----------------------------------------------------------------------------
(* The web handlers.  Each runs on a thread of its own.                    *)

Serving == pc # "off" /\ ~shutdown

(* Typed by p, or filled in from a preset.                                 *)
Announce(p, kind, priority) ==
  /\ Serving /\ kind \in Kinds \cap {"announcement", "drill"}
  /\ Enqueue(Row(p, priority, kind, None, p \in Chimed))
  /\ UNCHANGED <<thread, stopping, health, device, process, files, web, heard>>

TestAudio(p) ==
  /\ Serving /\ "test" \in Kinds
  /\ Enqueue(Row(p, 0, "test", None, p \in Chimed))
  /\ UNCHANGED <<thread, stopping, health, device, process, files, web, heard>>

PlaySound(p, c) ==
  /\ Serving /\ "sound" \in Kinds
  /\ c \in files
  /\ Enqueue(Row(p, 0, "sound", c, c \in ChimedClip))
  /\ UNCHANGED <<thread, stopping, health, device, process, files, web, heard>>

DeleteSound(c) ==
  /\ Serving /\ c \in files
  /\ files' = files \ {c}
  /\ UNCHANGED <<table, thread, stopping, health, device, process, web, heard>>

Purge(last) ==
  /\ Serving
  /\ PurgeAnnouncements(last)
  /\ UNCHANGED <<thread, stopping, health, device, process, files, web, heard>>

(* The owner column of a row nobody owns is NULL, which is no user's id.   *)
MayStop(p, i) == p \in Admin \/ content[i].owner = p

\* api_stop reads the row; a row that is over ends the request here.
StopRead(p, i) ==
  /\ Serving /\ req[p] = NoRequest
  /\ state[i] \in {"queued", "playing"}
  /\ MayStop(p, i)
  /\ req' = [req EXCEPT ![p] = [id |-> i, seen |-> state[i]]]
  /\ UNCHANGED <<table, thread, stopping, health, device, process, files, asked, heard>>

\* Mutant of StopsCurrent: request_stop does not compare the id.
StopsCurrentAnyId(i) == i \in Id /\ cur # None

(* request_stop accepts the stop only of the announcement that is current. *)
StopsCurrent(i) == cur # None /\ cur = i

Tell(p, i) == asked' = [asked EXCEPT ![i] = @ \cup {p}]

(* ... and acts on what it read, whatever has happened since.              *)
StopPlaying(p) ==
  /\ pc # "off" /\ req[p].seen = "playing"
  /\ IF StopsCurrent(req[p].id)
     THEN /\ stopBy' = p /\ stopSet' = TRUE
          /\ Tell(p, req[p].id)
     ELSE UNCHANGED <<stopBy, stopSet, asked>>
  /\ req' = [req EXCEPT ![p] = NoRequest]
  /\ UNCHANGED <<table, thread, cur, health, device, process, files, heard>>

StopQueued(p) ==
  /\ pc # "off" /\ req[p].seen = "queued"
  /\ IF Cancellable(req[p].id)
     THEN CancelQueued(req[p].id, p) /\ Tell(p, req[p].id)
     ELSE UNCHANGED <<table, asked>>
  /\ req' = [req EXCEPT ![p] = NoRequest]
  /\ UNCHANGED <<thread, stopping, health, device, process, files, heard>>

\* POST /api/stop: whatever is current, for administrators.
StopCurrent(p) ==
  /\ Serving /\ p \in Admin /\ cur # None
  /\ stopBy' = p /\ stopSet' = TRUE
  /\ Tell(p, cur)
  /\ UNCHANGED <<table, thread, cur, health, device, process, files, req, heard>>

WebStep ==
  \/ \E p \in Person : \/ \E k \in Kinds, u \in Priorities : Announce(p, k, u)
                       \/ TestAudio(p)
                       \/ \E c \in Clip : PlaySound(p, c)
                       \/ \E i \in Id : StopRead(p, i)
                       \/ StopPlaying(p) \/ StopQueued(p) \/ StopCurrent(p)
  \/ \E c \in Clip : DeleteSound(c)
  \/ \E last \in Id : Purge(last)

(* The scheduler thread, in the name of the schedule's owner if it has     *)
(* one, and the thread that speaks the address at startup.                 *)
ScheduleDue(owner, priority) ==
  /\ pc # "off" /\ "scheduled" \in Kinds
  /\ Enqueue(Row(owner, priority, "scheduled", None, owner \in Chimed))
  /\ UNCHANGED <<thread, stopping, health, device, process, files, web, heard>>

SpeakAddress ==
  /\ pc # "off" /\ "startup" \in Kinds
  /\ Enqueue(Row(None, 0, "startup", None, None \in Chimed))
  /\ UNCHANGED <<thread, stopping, health, device, process, files, web, heard>>

TimerStep ==
  \/ \E o \in Person \cup {None}, u \in Priorities : ScheduleDue(o, u)
  \/ SpeakAddress

----------------------------------------------------------------------------
(* The process and the device.                                             *)

Start ==
  /\ pc = "off"
  /\ RecoverOrphanedItems
  /\ pc' = "loop"
  /\ UNCHANGED <<item, parts, stopping, health, device, process, files, web, heard>>

\* Player.shutdown sets the event of the item being played, too.
Shutdown ==
  /\ Serving /\ restarts < MaxRestarts
  /\ shutdown' = TRUE /\ stopSet' = TRUE
  /\ restarts' = restarts + 1
  /\ UNCHANGED <<table, thread, cur, stopBy, health, device, files, web, heard>>

(* Everything the process held in memory is gone.                          *)
ProcessEnds ==
  /\ pc' = "off" /\ item' = None /\ parts' = <<>>
  /\ cur' = None /\ stopSet' = FALSE /\ stopBy' = None
  /\ shutdown' = FALSE
  /\ audioOk' = TRUE /\ ttsOk' = TRUE
  /\ req' = [p \in Person |-> NoRequest]
  /\ UNCHANGED <<table, device, files, asked, heard>>

(* The join lasts 5 seconds; a thread that is still running is a daemon    *)
(* and ends with the process, wherever it is.                              *)
Exit ==
  /\ pc # "off" /\ shutdown
  /\ ProcessEnds
  /\ UNCHANGED restarts

Crash ==
  /\ pc # "off" /\ ~shutdown /\ restarts < MaxRestarts
  /\ ProcessEnds
  /\ restarts' = restarts + 1

Unplug ==
  /\ plugged /\ unplugs < MaxUnplugs
  /\ plugged' = FALSE /\ unplugs' = unplugs + 1
  /\ UNCHANGED <<table, thread, stopping, health, process, files, web, heard>>

Replug ==
  /\ ~plugged
  /\ plugged' = TRUE
  /\ UNCHANGED <<table, thread, stopping, health, unplugs, process, files, web, heard>>

EnvironmentStep == Start \/ Shutdown \/ Exit \/ Crash \/ Unplug \/ Replug

Next == PlayerStep \/ PlayerFault \/ WebStep \/ TimerStep \/ EnvironmentStep

Spec == Init /\ [][Next]_vars

(* The thread keeps running, a process that is down is started again, one  *)
(* that is shutting down ends, and somebody plugs the device back in.      *)
Fairness ==
  /\ WF_vars(PlayerStep)
  /\ WF_vars(Start) /\ WF_vars(Exit) /\ WF_vars(Replug)

FairSpec == Spec /\ Fairness
----------------------------------------------------------------------------
(* Safety.                                                                 *)

(* Two announcements never overlap: at most one row is marked playing, and *)
(* it is the one the player thread holds, or was left by a thread that is  *)
(* gone (app/player.py:7, app/db.py:403).                                  *)
OnePlaying ==
  /\ \A i, j \in Id : state[i] = "playing" /\ state[j] = "playing" => i = j
  /\ \A i \in Id : state[i] = "playing" => item = i \/ pc \in {"off", "dead"}

(* While an announcement waits, or is being tried, nothing that came later *)
(* at the same or a lower priority has reached the air: not after it was   *)
(* put back for want of a device, not across a restart (app/player.py:22). *)
NoOvertaking ==
  \A i, j \in Id :
    (/\ i < j
     /\ state[i] \in {"queued", "playing"} /\ Present(j)
     /\ content[i].priority >= content[j].priority)
    => state[j] \in {"queued", "stopped"}

(* What the row of an announcement says is over stays over: it may be      *)
(* corrected to another ending or deleted, and is never played again       *)
(* (finish and release_to_queue overwrite without looking, app/db.py:368). *)
NoReplay ==
  [][\A i \in Id : state[i] \in Terminal \cup {"purged"}
        => state'[i] \in Terminal \cup {"purged"}]_vars

(* A row becomes "stopped" under the name of somebody who was told that    *)
(* this very announcement is stopped, except when it is cut by a shutdown  *)
(* (app/player.py:24, 142).                                                *)
StopIsAttributed ==
  [][\A i \in Id : state[i] # "stopped" /\ state'[i] = "stopped"
        => \/ stoppedBy'[i] \in asked'[i]
           \/ stoppedBy'[i] = Unknown /\ shutdown]_vars

(* Nobody silences an announcement that is not theirs, administrators      *)
(* excepted, however their click races the queue (app/main.py:1331).       *)
OnlyOwnerOrAdminStops ==
  \A i \in Id : state[i] = "stopped"
    => stoppedBy[i] \in Admin \cup {content[i].owner, Unknown}

(* "done" means heard (app/player.py:29): the text or the clip was played  *)
(* to its end, unless the file of the clip was deleted (app/main.py:1745). *)
DoneWasHeard ==
  \A i \in Id : state[i] = "done" /\ content[i].kind # "test" =>
    \/ i \in heard
    \/ content[i].kind = "sound" /\ content[i].clip \notin files

(* The abstract view of the table.                                         *)
PhaseOf(s) ==
  CASE s = "none"     -> "new"
    [] s = "queued"   -> "waiting"
    [] s = "playing"  -> "on_air"
    [] s \in Terminal -> "over"
    [] s = "purged"   -> "gone"

Phases == [i \in Id |-> PhaseOf(state[i])]

Urgent == [i \in Id |-> IF content[i] = None THEN 0 ELSE content[i].priority]

Promised == INSTANCE Lifecycle WITH Items <- Id, phase <- Phases, urgent <- Urgent

(* The announcer implements the life cycle it promises, whatever the       *)
(* threads, the device and the restarts do.                                *)
KeepsPromise == Promised!Spec

----------------------------------------------------------------------------
(* The inductive invariant: what relates the row, the thread that holds    *)
(* it, the stop flag and the people who asked.                             *)

(* Ids are handed out in order, and a row has a content exactly while it   *)
(* is in the table.                                                        *)
RowsOK ==
  \A i \in Id : /\ i >= nextId <=> state[i] = "none"
                /\ content[i] = None <=> ~Present(i)

(* Between claim_next and the statement that ends the attempt.             *)
Held == {"begin", "synth", "open", "play", "finish_stopped", "finish_done", "release"}

ThreadOK ==
  /\ item = None <=> pc \in {"off", "loop", "dead", "exited"}
  /\ item # None => state[item] # "none"
  /\ pc \in Held => state[item] = "playing"
  /\ pc = "fail" => state[item] \in {"playing", "done", "purged"}
  /\ pc = "rate" => state[item] \in {"done", "purged"}
  /\ pc \in {"backoff", "cleanup"} => state[item] # "playing"

(* Only the row being attempted can be stopped, and a flag that is set     *)
(* during an attempt was set for that attempt.                             *)
StopOK ==
  /\ cur \in {None, item}
  /\ pc = "begin" => cur = None
  /\ pc \in Held \ {"begin"} => cur = item
  /\ stopBy # None => cur # None /\ stopBy \in asked[cur]
  /\ pc \in Held \ {"begin"} /\ stopSet => stopBy # None \/ shutdown
  /\ pc = "finish_stopped" => stopSet

(* Whoever is served a stop may stop the row it is about,                  *)
RequestsOK ==
  \A p \in Person : req[p] # NoRequest =>
    /\ req[p].id # None /\ state[req[p].id] # "none"
    /\ Present(req[p].id) => MayStop(p, req[p].id)

(* and so may everybody who was told that a row is stopped.                *)
AnswersOK ==
  \A i \in Id : /\ state[i] = "none" => asked[i] = {}
                /\ Present(i) => \A p \in asked[i] : MayStop(p, i)

AskersOK == RequestsOK /\ AnswersOK

(* OnePlaying, OnlyOwnerOrAdminStops and NoOvertaking are not inductive by *)
(* themselves; together with the rest they are.                            *)
Inv ==
  /\ TypeOK /\ RowsOK /\ ThreadOK /\ StopOK /\ AskersOK
  /\ OnePlaying /\ NoOvertaking /\ OnlyOwnerOrAdminStops

----------------------------------------------------------------------------
(* Liveness.                                                               *)

(* Every accepted announcement is heard out, given up visibly or stopped:  *)
(* none waits for ever (app/player.py:29).                                 *)
EveryAnnouncementEnds ==
  \A i \in Id : state[i] = "queued" ~> state[i] \in Terminal \cup {"purged"}

----------------------------------------------------------------------------
(* What comments and tests say and this code does not keep.                *)

(* A row somebody was told is stopped is not put on the air after that:    *)
(* "Stop this announcement, whether it is playing or still waiting."       *)
(* (app/main.py:1329)                                                      *)
ToldStoppedStaysOff ==
  [][\A i \in Id : asked[i] # {} /\ state[i] = "queued" => state'[i] # "playing"]_vars

(* "One bad item must not wedge the queue for the rest of the day"         *)
(* (tests/test_failures.py:77): what can be played is, whatever clip that  *)
(* cannot be decoded was asked for before it.                              *)
BadItemDoesNotWedge ==
  \A i \in Id :
    (state[i] = "queued" /\ content[i].clip \notin Damaged)
      ~> state[i] \in Terminal \cup {"purged"}
=============================================================================
