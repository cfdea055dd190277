------------------------------- MODULE Files -------------------------------
(***************************************************************************)
(* The requests that keep files beside the database: previews, which are   *)
(* cached in files named after their words (app/main.py), and the library  *)
(* of sound clips, each a file and a row (app/sounds.py and its handlers). *)
(* The threads of the pool serve both; any of them can be killed with the  *)
(* process between two steps, and files and rows stay as they are.         *)
(***************************************************************************)
EXTENDS Naturals, FiniteSets

CONSTANTS
  None,
  Thread,    \* The threads that serve requests.
  Phrase,    \* What people preview.
  Clip,      \* The names (uuids) of clips, each given out once.
  Slots,     \* preview_max_concurrent, at least 1.
  MaxKills   \* Bound: how often the process is killed.

ASSUME NamesAssumption == None \notin Phrase \cup Clip
ASSUME FilesAssumption ==
  Slots \in Nat \ {0} /\ MaxKills \in Nat /\ IsFiniteSet(Thread)

VARIABLES
  job,       \* [Thread -> what it is doing]
  free,      \* the value of preview_slots
  preview,   \* [Phrase -> its file in the cache: none, cut or whole]
  old,       \* the previews that are older than PREVIEW_MAX_AGE_SECONDS
  due,       \* [Thread -> the previews its sweep has still to look at and finds old]
  doomed,    \* [Thread -> the preview its sweep has found old and is about to remove]
  disk,      \* the sound-*.wav files
  incoming,  \* the incoming-* files
  rows,      \* the clips in the sounds table
  used,      \* the names that were given out
  kills,     \* how often the process was killed
  shared,    \* history: phrases asked for by two at once, or not synthesized to the end
  aged,      \* history: threads whose preview was too old, or doomed, during the request
  lost       \* history: clips whose handler was killed or failed at a file or the row

cache    == <<preview, old, due, doomed>>
previews == <<free, cache, shared, aged>>
sounds   == <<disk, incoming, rows, used, lost>>
vars == <<job, previews, sounds, kills>>

NoJob == [at |-> "idle", on |-> None]

Previewing == {"check", "size", "synthesize", "writing", "adrift", "sweep", "glob", "read",
               "whole", "cut", "missing", "failed"}
Storing    == {"receive", "fetch", "store", "convert", "measure", "keep", "refuse", "insert"}

Job == [at : Previewing \cup Storing \cup {"idle", "unlink"},
        on : Phrase \cup Clip \cup {None}]

TypeOK ==
  /\ job \in [Thread -> Job]
  /\ free \in 0 .. Slots
  /\ preview \in [Phrase -> {"none", "cut", "whole"}]
  /\ old \in SUBSET Phrase /\ \A x \in old : preview[x] # "none"
  /\ due \in [Thread -> SUBSET Phrase] /\ doomed \in [Thread -> Phrase \cup {None}]
  /\ disk \in SUBSET Clip /\ incoming \in SUBSET Clip /\ rows \in SUBSET Clip
  /\ used \in SUBSET Clip /\ disk \cup incoming \cup rows \subseteq used
  /\ kills \in 0 .. MaxKills
  /\ shared \in SUBSET Phrase /\ aged \in SUBSET Thread /\ lost \in SUBSET Clip

Init ==
  /\ job = [t \in Thread |-> NoJob]
  /\ free = Slots /\ preview = [x \in Phrase |-> "none"] /\ old = {}
  /\ due = [t \in Thread |-> {}] /\ doomed = [t \in Thread |-> None]
  /\ shared = {} /\ aged = {}
  /\ disk = {} /\ incoming = {} /\ rows = {} /\ used = {} /\ lost = {}
  /\ kills = 0

Begin(t, at, on) ==
  job[t] = NoJob /\ job' = [job EXCEPT ![t] = [at |-> at, on |-> on]]
Goto(t, here, there) == job[t].at = here /\ job' = [job EXCEPT ![t].at = there]
End(t, here) == job[t].at = here /\ job' = [job EXCEPT ![t] = NoJob]

----------------------------------------------------------------------------
(* api_preview.  A request that finds no slot for ten seconds is refused   *)
(* and changes nothing.                                                    *)

(* What a request is up against from the start is remembered.              *)
AskedFor(t, x) ==
  /\ Begin(t, "check", x)
  /\ shared' = IF \E u \in Thread : job[u].on = x THEN shared \cup {x} ELSE shared
  /\ aged' = IF x \in old \/ \E u \in Thread : doomed[u] = x THEN aged \cup {t} ELSE aged
  /\ UNCHANGED <<cache, sounds, kills>>

\* Mutant of Preview: that no slot came free is not looked at.
PreviewAnyway(t, x) == AskedFor(t, x) /\ free' = IF free > 0 THEN free - 1 ELSE 0

Preview(t, x) == AskedFor(t, x) /\ free > 0 /\ free' = free - 1

(* path.exists() first, then path.stat(), which raises when the file went  *)
(* away between the two.                                                   *)
Found(t) ==
  /\ Goto(t, "check", "size") /\ preview[job[t].on] # "none"
  /\ UNCHANGED <<previews, sounds, kills>>

NotFound(t) ==
  /\ Goto(t, "check", "synthesize") /\ preview[job[t].on] = "none"
  /\ UNCHANGED <<previews, sounds, kills>>

(* A file of at least 128 bytes is taken for the preview.                  *)
LongEnough(t) ==
  /\ Goto(t, "size", "sweep") /\ preview[job[t].on] # "none"
  /\ UNCHANGED <<previews, sounds, kills>>

TooShort(t) ==
  /\ Goto(t, "size", "synthesize") /\ preview[job[t].on] = "cut"
  /\ UNCHANGED <<previews, sounds, kills>>

GoneBeforeStat(t) ==
  /\ Goto(t, "size", "missing") /\ preview[job[t].on] = "none"
  /\ UNCHANGED <<previews, sounds, kills>>

(* The engine opens the file again, whoever is writing to it, and it is a  *)
(* new file for every sweep.                                               *)
OpenFile(t) ==
  /\ preview' = [preview EXCEPT ![job[t].on] = "cut"] /\ old' = old \ {job[t].on}
  /\ due' = [u \in Thread |-> due[u] \ {job[t].on}]
  /\ UNCHANGED <<free, doomed, shared, aged, sounds, kills>>

\* Mutant of Synthesize: the voice is started, and nobody waits for it.
SynthesizeBehind(t) == Goto(t, "synthesize", "sweep") /\ OpenFile(t)

Synthesize(t) == Goto(t, "synthesize", "writing") /\ OpenFile(t)

Synthesized(t) ==
  /\ Goto(t, "writing", "sweep")
  /\ preview' = [preview EXCEPT ![job[t].on] = "whole"]
  /\ UNCHANGED <<free, old, due, doomed, shared, aged, sounds, kills>>

(* The engine wrote to a file that was removed under it: whether there is  *)
(* a preview depends on the next to write it.                              *)
SynthesizedAdrift(t) ==
  /\ Goto(t, "adrift", "sweep") /\ preview[job[t].on] # "none"
  /\ UNCHANGED <<previews, sounds, kills>>

(* The voice is not ready, or fails or times out half way (the beginning   *)
(* of the file stays), or left no file.                                    *)
SynthesisFails(t) ==
  /\ job[t].at \in {"synthesize", "writing", "adrift"} /\ Goto(t, job[t].at, "failed")
  /\ shared' = IF job[t].at = "writing" THEN shared \cup {job[t].on} ELSE shared
  /\ UNCHANGED <<free, cache, aged, sounds, kills>>

\* Mutant of StartSweep: every preview is due, not only those of old.
SweepAllPreviews(t) ==
  /\ Goto(t, "sweep", "glob")
  /\ due' = [due EXCEPT ![t] = {x \in Phrase : preview[x] # "none"}]
  /\ UNCHANGED <<free, preview, old, doomed, shared, aged, sounds, kills>>

(* sweep_previews: what is old is old by the clock at its beginning.       *)
StartSweep(t) ==
  /\ Goto(t, "sweep", "glob") /\ due' = [due EXCEPT ![t] = old]
  /\ UNCHANGED <<free, preview, old, doomed, shared, aged, sounds, kills>>

(* Its stat of one path, which says that the file is old ...               *)
Look(t, x) ==
  /\ job[t].at = "glob" /\ doomed[t] = None /\ x \in due[t] /\ preview[x] # "none"
  /\ doomed' = [doomed EXCEPT ![t] = x] /\ due' = [due EXCEPT ![t] = @ \ {x}]
  /\ UNCHANGED <<job, free, preview, old, shared, aged, sounds, kills>>

(* ... and its unlink, which takes whatever file has that name by then.    *)
Unlink(t) ==
  /\ job[t].at = "glob" /\ doomed[t] # None
  /\ preview' = [preview EXCEPT ![doomed[t]] = "none"] /\ old' = old \ {doomed[t]}
  /\ job' = [u \in Thread |-> IF job[u].at = "writing" /\ job[u].on = doomed[t]
                               THEN [job[u] EXCEPT !.at = "adrift"] ELSE job[u]]
  /\ doomed' = [doomed EXCEPT ![t] = None]
  /\ UNCHANGED <<free, due, shared, aged, sounds, kills>>

(* It is through, or ended by a stat of what another sweep has removed or  *)
(* by a file that cannot be removed.                                       *)
SweepEnds(t) ==
  /\ Goto(t, "glob", "read")
  /\ due' = [due EXCEPT ![t] = {}] /\ doomed' = [doomed EXCEPT ![t] = None]
  /\ UNCHANGED <<free, preview, old, shared, aged, sounds, kills>>

Read(t) ==
  /\ job[t].at = "read"
  /\ Goto(t, "read", IF preview[job[t].on] = "none" THEN "missing" ELSE preview[job[t].on])
  /\ UNCHANGED <<previews, sounds, kills>>

Answered(t) ==
  /\ job[t].at \in {"whole", "cut", "missing", "failed"} /\ End(t, job[t].at)
  /\ aged' = aged \ {t}
  /\ UNCHANGED <<cache, shared, sounds, kills>>

\* Mutant of Answer: only a preview that is served gives its slot back.
AnswerReleasesServed(t) ==
  Answered(t) /\ free' = IF job[t].at \in {"whole", "cut"} THEN free + 1 ELSE free

Answer(t) == Answered(t) /\ free' = free + 1

(* Two hours have passed since the file was written, whoever is about to   *)
(* use it; a file that is being written is at most thirty seconds old.     *)
Age(x) ==
  /\ preview[x] # "none" /\ x \notin old
  /\ \A t \in Thread : ~(job[t].at = "writing" /\ job[t].on = x)
  /\ old' = old \cup {x} /\ aged' = aged \cup {t \in Thread : job[t].on = x}
  /\ UNCHANGED <<job, free, preview, due, doomed, shared, sounds, kills>>

----------------------------------------------------------------------------
(* Sound clips: add_bytes and add_from_link, then the row.                 *)

(* An upload that is empty, too big or not named like a sound is refused   *)
(* before it has a name.                                                   *)
Add(t, c) ==
  /\ Begin(t, "receive", c) /\ c \notin used /\ used' = used \cup {c}
  /\ UNCHANGED <<previews, disk, incoming, rows, lost, kills>>

(* An upload is written to the incoming file, a link is fetched into it.   *)
Receive(t) ==
  /\ Goto(t, "receive", "fetch") /\ incoming' = incoming \cup {job[t].on}
  /\ UNCHANGED <<previews, disk, rows, used, lost, kills>>

Received(t) ==
  /\ Goto(t, "fetch", "store")
  /\ UNCHANGED <<previews, sounds, kills>>

(* The link cannot be fetched, or takes too long.                          *)
FetchFails(t) ==
  /\ Goto(t, "fetch", "refuse")
  /\ UNCHANGED <<previews, sounds, kills>>

(* Copied, or converted when it is no WAV that can be read: the file is    *)
(* there from the first byte.                                              *)
Store(t) ==
  /\ Goto(t, "store", "convert") /\ disk' = disk \cup {job[t].on}
  /\ UNCHANGED <<previews, incoming, rows, used, lost, kills>>

NoConverter(t) ==
  /\ Goto(t, "store", "refuse")
  /\ UNCHANGED <<previews, sounds, kills>>

Stored(t) ==
  /\ Goto(t, "convert", "measure")
  /\ UNCHANGED <<previews, sounds, kills>>

ConversionFails(t) ==
  /\ Goto(t, "convert", "refuse") /\ disk' = disk \ {job[t].on}
  /\ UNCHANGED <<previews, incoming, rows, used, lost, kills>>

(* The copy breaks off, which nobody tidies up after, or what is refused   *)
(* cannot be removed.                                                      *)
TargetStays(t) ==
  /\ job[t].at \in {"convert", "measure"} /\ Goto(t, job[t].at, "refuse")
  /\ lost' = lost \cup {job[t].on}
  /\ UNCHANGED <<previews, disk, incoming, rows, used, kills>>

Accept(t) ==
  /\ Goto(t, "measure", "keep")
  /\ UNCHANGED <<previews, sounds, kills>>

\* Mutant of Reject: what is refused stays in the library's directory.
RejectAndKeep(t) ==
  /\ Goto(t, "measure", "refuse")
  /\ UNCHANGED <<previews, sounds, kills>>

(* No sound in it, or too long.                                            *)
Reject(t) ==
  /\ Goto(t, "measure", "refuse") /\ disk' = disk \ {job[t].on}
  /\ UNCHANGED <<previews, incoming, rows, used, lost, kills>>

(* The finally clauses.                                                    *)
TidyUp(t) ==
  /\ \/ Goto(t, "keep", "insert")
     \/ End(t, "refuse")
  /\ incoming' = incoming \ {job[t].on}
  /\ UNCHANGED <<previews, disk, rows, used, lost, kills>>

Insert(t) ==
  /\ End(t, "insert") /\ rows' = rows \cup {job[t].on}
  /\ UNCHANGED <<previews, disk, incoming, used, lost, kills>>

InsertFails(t) ==
  /\ End(t, "insert") /\ lost' = lost \cup {job[t].on}
  /\ UNCHANGED <<previews, disk, incoming, rows, used, kills>>

\* Mutant of Delete: the file goes first, and the row after it.
DeleteFileFirst(t, c) ==
  /\ Begin(t, "unlink", c) /\ c \in rows /\ disk' = disk \ {c}
  /\ UNCHANGED <<previews, incoming, rows, used, lost, kills>>

Delete(t, c) ==
  /\ Begin(t, "unlink", c) /\ c \in rows /\ rows' = rows \ {c}
  /\ UNCHANGED <<previews, disk, incoming, used, lost, kills>>

Remove(t) ==
  /\ End(t, "unlink") /\ disk' = disk \ {job[t].on}
  /\ UNCHANGED <<previews, incoming, rows, used, lost, kills>>

(* The incoming file cannot be written or removed, or a deleted clip's     *)
(* file cannot be removed: the error ends the handler where it stands.     *)
FileError(t) ==
  /\ job[t].at \in {"fetch", "keep", "refuse", "unlink"} /\ End(t, job[t].at)
  /\ lost' = lost \cup {job[t].on}
  /\ UNCHANGED <<previews, disk, incoming, rows, used, kills>>

----------------------------------------------------------------------------
Kill ==
  /\ kills < MaxKills /\ kills' = kills + 1
  /\ lost' = lost \cup {c \in Clip : \E t \in Thread : job[t].on = c}
  /\ shared' = shared \cup {x \in Phrase : \E t \in Thread : job[t].on = x}
  /\ job' = [t \in Thread |-> NoJob] /\ free' = Slots /\ aged' = {}
  /\ due' = [t \in Thread |-> {}] /\ doomed' = [t \in Thread |-> None]
  /\ UNCHANGED <<preview, old, disk, incoming, rows, used>>

PreviewStep(t) ==
  \/ \E x \in Phrase : Preview(t, x)
  \/ Found(t) \/ NotFound(t) \/ LongEnough(t) \/ TooShort(t) \/ GoneBeforeStat(t)
  \/ Synthesize(t) \/ Synthesized(t) \/ SynthesizedAdrift(t) \/ SynthesisFails(t)
  \/ StartSweep(t) \/ (\E x \in Phrase : Look(t, x)) \/ Unlink(t) \/ SweepEnds(t)
  \/ Read(t) \/ Answer(t)

SoundStep(t) ==
  \/ \E c \in Clip : Add(t, c) \/ Delete(t, c)
  \/ Receive(t) \/ Received(t) \/ FetchFails(t)
  \/ Store(t) \/ NoConverter(t) \/ Stored(t) \/ ConversionFails(t) \/ TargetStays(t)
  \/ Accept(t) \/ Reject(t) \/ TidyUp(t) \/ Insert(t) \/ InsertFails(t) \/ Remove(t)
  \/ FileError(t)

Next ==
  \/ \E t \in Thread : PreviewStep(t) \/ SoundStep(t)
  \/ \E x \in Phrase : Age(x)
  \/ Kill

Spec == Init /\ [][Next]_vars

----------------------------------------------------------------------------
(* However a preview ends, its slot is given back: none is lost, and no    *)
(* more of them run at once than there are slots.                          *)
SlotsComeBack == free + Cardinality({t \in Thread : job[t].at \in Previewing}) = Slots

(* A preview whose file was found or written is still there when it is     *)
(* read, whatever the other threads sweep and synthesize between two       *)
(* looks at it: it is missing only when its file came to be over two hours *)
(* old, or a sweep had found it so and not yet removed it, while the       *)
(* request was under way.                                                  *)
FoundIsServed == \A t \in Thread : job[t].at = "missing" => t \in aged

(* Half a preview is heard only by somebody who asked for words that two   *)
(* people asked for at once, or whose synthesis failed or was killed.      *)
ServedIsWhole == \A t \in Thread : job[t].at = "cut" => job[t].on \in shared

(* Every clip that can be played has its file, also after a kill.          *)
RowHasFile == rows \subseteq disk

(* Every file belongs to a clip or to a request under way; what is left    *)
(* behind was left by one that was killed or could not insert its row, or  *)
(* where writing or removing a file failed.                                *)
FileHasRow ==
  \A c \in disk \cup incoming : c \in rows \cup lost \/ \E t \in Thread : job[t].on = c
=============================================================================
