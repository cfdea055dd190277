---------------------------- MODULE FilesProofs ----------------------------
(***************************************************************************)
(* Proofs about Files, for every number of threads, phrases, clips, slots  *)
(* and kills: the type invariant, the slots of the previews, what a        *)
(* preview serves, and how the clips on the disk agree with the table.     *)
(***************************************************************************)
EXTENDS Files, FiniteSetTheorems, TLAPS

(* Where a thread has to do with a clip.                                   *)
Library == Storing \cup {"unlink"}

(* The threads that hold a slot.                                           *)
Busy == {t \in Thread : job[t].at \in Previewing}

(* A job that is under way has its words or its clip.                      *)
JobOK ==
  \A t \in Thread :
    /\ job[t].at \in Previewing => job[t].on \in Phrase
    /\ job[t].at \in Library => job[t].on \in Clip
    /\ job[t].at = "idle" => job[t] = NoJob

(* What is due in a sweep is still old, if it is there at all: a file that *)
(* is written again is a new one for every sweep.  So a request whose file *)
(* is old, or doomed by any sweep, is among the aged ones.                 *)
AgedOK ==
  /\ \A u \in Thread : \A x \in due[u] : preview[x] = "none" \/ x \in old
  /\ \A t \in Thread : job[t].at = "writing" => preview[job[t].on] # "none"
  /\ \A t \in Thread :
       /\ job[t].at \in Previewing
       /\ job[t].on \in old \/ \E u \in Thread : doomed[u] = job[t].on
       => t \in aged

(* The file a request has found or written stays until it has read it,     *)
(* unless the request is among the aged ones.                              *)
PresentOK ==
  \A t \in Thread \ aged :
    /\ job[t].at \in {"size", "writing", "sweep", "glob", "read"} =>
         preview[job[t].on] # "none"
    /\ job[t].at \notin {"adrift", "missing"}

(* Words that are not shared are one request's alone, and half a file of   *)
(* theirs is the one it is writing.                                        *)
AloneOK ==
  \A x \in Phrase \ shared :
    /\ \A t, u \in Thread :
         /\ job[t].at \in Previewing /\ job[t].on = x
         /\ job[u].at \in Previewing /\ job[u].on = x
         => t = u
    /\ preview[x] = "cut" => \E t \in Thread : job[t].at = "writing" /\ job[t].on = x

(* A clip is one request's alone, which knows where its files are unless   *)
(* it failed to remove one; a clip in the table has its file, and no       *)
(* incoming one.                                                           *)
ClipOK ==
  /\ \A t, u \in Thread :
       /\ job[t].at \in Library /\ job[u].at \in Library /\ job[t].on = job[u].on
       => t = u
  /\ \A t \in Thread : job[t].at \in Library =>
       /\ job[t].on \in used /\ job[t].on \notin rows
       /\ job[t].at \in {"convert", "measure", "keep", "insert"} => job[t].on \in disk
       /\ job[t].at \in {"receive", "fetch", "store"} => job[t].on \notin disk
       /\ job[t].at \in {"receive", "insert", "unlink"} => job[t].on \notin incoming
       /\ job[t].at = "refuse" => job[t].on \in lost \/ job[t].on \notin disk
  /\ rows \subseteq disk /\ rows \cap incoming = {}

(* What is left on the disk has a row, a request or a reason.              *)
LeftOK ==
  \A c \in disk \cup incoming :
    c \in rows \cup lost \/ \E t \in Thread : job[t].at \in Library /\ job[t].on = c

(* The inductive invariant.                                                *)
IInv ==
  /\ TypeOK /\ JobOK /\ SlotsComeBack /\ AgedOK /\ PresentOK /\ ServedIsWhole
  /\ AloneOK /\ ClipOK /\ LeftOK

----------------------------------------------------------------------------
(* SlotsComeBack is about the number of busy threads.                      *)
LEMMA SlotsCount == SlotsComeBack <=> free + Cardinality(Busy) = Slots
BY DEF SlotsComeBack, Busy

(* A thread with a preview under way keeps a slot from the others.         *)
LEMMA BusyWhilePreviewing ==
  ASSUME TypeOK, SlotsComeBack, NEW t \in Thread, job[t].at \in Previewing
  PROVE  free < Slots
<1>1. IsFiniteSet(Busy) /\ Cardinality(Busy) \in Nat
  BY FilesAssumption, FS_Subset, FS_CardinalityType DEF Busy
<1>2. Cardinality(Busy) # 0
  BY <1>1, FS_EmptySet DEF Busy
<1> QED
  BY <1>1, <1>2, FilesAssumption DEF SlotsComeBack, Busy, TypeOK

(* A step of a clip's request touches nothing of the previews.             *)
LEMMA SoundStepAside ==
  ASSUME TypeOK, JobOK, NEW t \in Thread, SoundStep(t)
  PROVE  /\ UNCHANGED <<previews, kills>>
         /\ job[t].at \notin Previewing /\ job'[t].at \notin Previewing
         /\ \A u \in Thread : u # t => job'[u] = job[u]
<1> DEFINE P == /\ UNCHANGED <<previews, kills>>
                /\ job[t].at \notin Previewing /\ job'[t].at \notin Previewing
                /\ \A u \in Thread : u # t => job'[u] = job[u]
<1> USE DEF TypeOK, Job, JobOK, Previewing, Library, Storing, NoJob
<1>1. ASSUME NEW c \in Clip, Add(t, c) PROVE P
  BY <1>1 DEF Add, Begin, sounds
<1>2. ASSUME NEW c \in Clip, Delete(t, c) PROVE P
  BY <1>2 DEF Delete, Begin, sounds
<1>3. CASE Receive(t)
  BY <1>3 DEF Receive, Goto, sounds
<1>4. CASE Received(t)
  BY <1>4 DEF Received, Goto, sounds
<1>5. CASE FetchFails(t)
  BY <1>5 DEF FetchFails, Goto, sounds
<1>6. CASE Store(t)
  BY <1>6 DEF Store, Goto, sounds
<1>7. CASE NoConverter(t)
  BY <1>7 DEF NoConverter, Goto, sounds
<1>8. CASE Stored(t)
  BY <1>8 DEF Stored, Goto, sounds
<1>9. CASE ConversionFails(t)
  BY <1>9 DEF ConversionFails, Goto, sounds
<1>10. CASE TargetStays(t)
  BY <1>10 DEF TargetStays, Goto, sounds
<1>11. CASE Accept(t)
  BY <1>11 DEF Accept, Goto, sounds
<1>12. CASE Reject(t)
  BY <1>12 DEF Reject, Goto, sounds
<1>13. CASE TidyUp(t)
  BY <1>13 DEF TidyUp, Goto, End, sounds
<1>14. CASE Insert(t)
  BY <1>14 DEF Insert, End, sounds
<1>15. CASE InsertFails(t)
  BY <1>15 DEF InsertFails, End, sounds
<1>16. CASE Remove(t)
  BY <1>16 DEF Remove, End, sounds
<1>17. CASE FileError(t)
  BY <1>17 DEF FileError, End, sounds
<1> QED
  BY <1>1, <1>2, <1>3, <1>4, <1>5, <1>6, <1>7, <1>8, <1>9, <1>10, <1>11, <1>12, <1>13,
    <1>14, <1>15, <1>16, <1>17 DEF SoundStep

(* A step of a preview touches nothing of the clips.                       *)
LEMMA PreviewStepAside ==
  ASSUME TypeOK, JobOK, NEW t \in Thread, PreviewStep(t)
  PROVE  /\ UNCHANGED <<sounds, kills>>
         /\ \A u \in Thread :
              /\ job[u].at \in Library => job'[u] = job[u]
              /\ job'[u].at \in Library => job'[u] = job[u]
<1> DEFINE P == /\ UNCHANGED <<sounds, kills>>
                /\ \A u \in Thread :
                     /\ job[u].at \in Library => job'[u] = job[u]
                     /\ job'[u].at \in Library => job'[u] = job[u]
<1> USE DEF TypeOK, Job, JobOK, Previewing, Library, Storing, NoJob
<1>1. ASSUME NEW x \in Phrase, Preview(t, x) PROVE P
  BY <1>1 DEF Preview, AskedFor, Begin
<1>2. CASE Found(t)
  BY <1>2 DEF Found, Goto
<1>3. CASE NotFound(t)
  BY <1>3 DEF NotFound, Goto
<1>4. CASE LongEnough(t)
  BY <1>4 DEF LongEnough, Goto
<1>5. CASE TooShort(t)
  BY <1>5 DEF TooShort, Goto
<1>6. CASE GoneBeforeStat(t)
  BY <1>6 DEF GoneBeforeStat, Goto
<1>7. CASE Synthesize(t)
  BY <1>7 DEF Synthesize, Goto, OpenFile
<1>8. CASE Synthesized(t)
  BY <1>8 DEF Synthesized, Goto
<1>9. CASE SynthesizedAdrift(t)
  BY <1>9 DEF SynthesizedAdrift, Goto
<1>10. CASE SynthesisFails(t)
  BY <1>10 DEF SynthesisFails, Goto
<1>11. CASE StartSweep(t)
  BY <1>11 DEF StartSweep, Goto
<1>12. ASSUME NEW x \in Phrase, Look(t, x) PROVE P
  BY <1>12 DEF Look
<1>13. CASE Unlink(t)
  BY <1>13 DEF Unlink
<1>14. CASE SweepEnds(t)
  BY <1>14 DEF SweepEnds, Goto
<1>15. CASE Read(t)
  BY <1>15 DEF Read, Goto
<1>16. CASE Answer(t)
  BY <1>16 DEF Answer, Answered, End
<1> QED
  BY <1>1, <1>2, <1>3, <1>4, <1>5, <1>6, <1>7, <1>8, <1>9, <1>10, <1>11, <1>12, <1>13,
    <1>14, <1>15, <1>16 DEF PreviewStep

(* Every step preserves TypeOK.                                            *)
LEMMA TypeStep == TypeOK /\ JobOK /\ SlotsComeBack /\ ClipOK /\ [Next]_vars => TypeOK'
<1> SUFFICES ASSUME TypeOK, JobOK, SlotsComeBack, ClipOK, [Next]_vars PROVE TypeOK'
  OBVIOUS
<1> USE DEF TypeOK, JobOK, Job, Previewing, Storing, Library
<1>1. CASE UNCHANGED vars
  BY <1>1 DEF vars, previews, cache, sounds
<1>2. ASSUME NEW t \in Thread, PreviewStep(t) PROVE TypeOK'
  <2>1. ASSUME NEW x \in Phrase, Preview(t, x) PROVE TypeOK'
    <3>1. job' \in [Thread -> Job]
      BY <2>1 DEF Preview, AskedFor, Begin
    <3> QED
      BY <2>1, <3>1, FilesAssumption DEF Preview, AskedFor, cache, sounds
  <2>2. CASE Found(t)
    BY <2>2 DEF Found, Goto, previews, cache, sounds
  <2>3. CASE NotFound(t)
    BY <2>3 DEF NotFound, Goto, previews, cache, sounds
  <2>4. CASE LongEnough(t)
    BY <2>4 DEF LongEnough, Goto, previews, cache, sounds
  <2>5. CASE TooShort(t)
    BY <2>5 DEF TooShort, Goto, previews, cache, sounds
  <2>6. CASE GoneBeforeStat(t)
    BY <2>6 DEF GoneBeforeStat, Goto, previews, cache, sounds
  <2>7. CASE Synthesize(t)
    <3>1. job' \in [Thread -> Job]
      BY <2>7 DEF Synthesize, Goto, OpenFile, NoJob
    <3> QED
      BY <2>7, <3>1 DEF Synthesize, Goto, OpenFile, ClipOK, previews, cache, sounds
  <2>8. CASE Synthesized(t)
    BY <2>8 DEF Synthesized, Goto, previews, cache, sounds
  <2>9. CASE SynthesizedAdrift(t)
    BY <2>9 DEF SynthesizedAdrift, Goto, previews, cache, sounds
  <2>10. CASE SynthesisFails(t)
    BY <2>10 DEF SynthesisFails, Goto, previews, cache, sounds
  <2>11. CASE StartSweep(t)
    BY <2>11 DEF StartSweep, Goto, previews, cache, sounds
  <2>12. ASSUME NEW x \in Phrase, Look(t, x) PROVE TypeOK'
    <3>1. job' \in [Thread -> Job]
      BY <2>12 DEF Look, NoJob
    <3> QED
      BY <2>12, <3>1 DEF Look, ClipOK, previews, cache, sounds
  <2>13. CASE Unlink(t)
    <3>1. job' \in [Thread -> Job]
      BY <2>13 DEF Unlink
    <3>2. doomed[t] \in Phrase
      BY <2>13 DEF Unlink
    <3> QED
      BY <2>13, <3>1, <3>2 DEF Unlink, sounds
  <2>14. CASE SweepEnds(t)
    BY <2>14 DEF SweepEnds, Goto, previews, cache, sounds
  <2>15. CASE Read(t)
    BY <2>15 DEF Read, Goto, previews, cache, sounds
  <2>16. CASE Answer(t)
    <3>1. job' \in [Thread -> Job]
      BY <2>16 DEF Answer, Answered, End, NoJob
    <3>2. free + 1 \in 0 .. Slots
      BY <2>16, BusyWhilePreviewing, FilesAssumption DEF Answer, Answered
    <3> QED
      BY <2>16, <3>1, <3>2 DEF Answer, Answered, cache, sounds
  <2> QED
    BY <1>2, <2>1, <2>2, <2>3, <2>4, <2>5, <2>6, <2>7, <2>8, <2>9, <2>10, <2>11, <2>12,
      <2>13, <2>14, <2>15, <2>16 DEF PreviewStep
<1>3. ASSUME NEW t \in Thread, SoundStep(t) PROVE TypeOK'
  <2>1. ASSUME NEW c \in Clip, Add(t, c) PROVE TypeOK'
    BY <2>1 DEF Add, Begin, NoJob, previews, cache
  <2>2. ASSUME NEW c \in Clip, Delete(t, c) PROVE TypeOK'
    BY <2>2 DEF Delete, Begin, NoJob, previews, cache
  <2>3. CASE Receive(t)
    <3>1. job' \in [Thread -> Job]
      BY <2>3 DEF Receive, Goto, NoJob
    <3> QED
      BY <2>3, <3>1 DEF Receive, Goto, ClipOK, previews, cache, sounds
  <2>4. CASE Received(t)
    BY <2>4 DEF Received, Goto, previews, cache, sounds
  <2>5. CASE FetchFails(t)
    BY <2>5 DEF FetchFails, Goto, previews, cache, sounds
  <2>6. CASE Store(t)
    <3>1. job' \in [Thread -> Job]
      BY <2>6 DEF Store, Goto, NoJob
    <3> QED
      BY <2>6, <3>1 DEF Store, Goto, ClipOK, previews, cache, sounds
  <2>7. CASE NoConverter(t)
    BY <2>7 DEF NoConverter, Goto, previews, cache, sounds
  <2>8. CASE Stored(t)
    BY <2>8 DEF Stored, Goto, previews, cache, sounds
  <2>9. CASE ConversionFails(t)
    BY <2>9 DEF ConversionFails, Goto, previews, cache, sounds
  <2>10. CASE TargetStays(t)
    <3>1. job' \in [Thread -> Job]
      BY <2>10 DEF TargetStays, Goto, NoJob
    <3> QED
      BY <2>10, <3>1 DEF TargetStays, Goto, ClipOK, previews, cache, sounds
  <2>11. CASE Accept(t)
    BY <2>11 DEF Accept, Goto, previews, cache, sounds
  <2>12. CASE Reject(t)
    BY <2>12 DEF Reject, Goto, previews, cache, sounds
  <2>13. CASE TidyUp(t)
    <3>1. CASE Goto(t, "keep", "insert")
      BY <2>13, <3>1 DEF TidyUp, Goto, previews, cache
    <3>2. CASE End(t, "refuse")
      BY <2>13, <3>2 DEF TidyUp, End, NoJob, previews, cache
    <3> QED
      BY <2>13, <3>1, <3>2 DEF TidyUp
  <2>14. CASE Insert(t)
    <3>1. job' \in [Thread -> Job]
      BY <2>14 DEF Insert, End, NoJob
    <3> QED
      BY <2>14, <3>1 DEF Insert, End, ClipOK, previews, cache, sounds
  <2>15. CASE InsertFails(t)
    BY <2>15 DEF InsertFails, End, NoJob, previews, cache, sounds
  <2>16. CASE Remove(t)
    BY <2>16 DEF Remove, End, NoJob, previews, cache, sounds
  <2>17. CASE FileError(t)
    <3>1. job' \in [Thread -> Job]
      BY <2>17 DEF FileError, End, NoJob
    <3> QED
      BY <2>17, <3>1 DEF FileError, End, ClipOK, previews, cache, sounds
  <2> QED
    BY <1>3, <2>1, <2>2, <2>3, <2>4, <2>5, <2>6, <2>7, <2>8, <2>9, <2>10, <2>11, <2>12,
      <2>13, <2>14, <2>15, <2>16, <2>17 DEF SoundStep
<1>4. ASSUME NEW x \in Phrase, Age(x) PROVE TypeOK'
  BY <1>4 DEF Age, sounds
<1>5. CASE Kill
  BY <1>5, FilesAssumption DEF Kill, NoJob
<1> QED
  BY <1>1, <1>2, <1>3, <1>4, <1>5 DEF Next

(* Every step preserves JobOK.                                             *)
LEMMA JobStep == TypeOK /\ JobOK /\ [Next]_vars => JobOK'
<1> SUFFICES ASSUME TypeOK, JobOK, [Next]_vars PROVE JobOK'
  OBVIOUS
<1> USE DEF TypeOK, Job, JobOK, Previewing, Storing, Library, NoJob
<1>1. CASE UNCHANGED vars
  BY <1>1 DEF vars, previews, cache, sounds
<1>2. ASSUME NEW t \in Thread, PreviewStep(t) PROVE JobOK'
  <2>1. ASSUME NEW x \in Phrase, Preview(t, x) PROVE JobOK'
    BY <2>1, NamesAssumption DEF Preview, AskedFor, Begin, NoJob, cache, sounds
  <2>2. CASE Found(t)
    BY <2>2 DEF Found, Goto, previews, cache, sounds
  <2>3. CASE NotFound(t)
    BY <2>3 DEF NotFound, Goto, previews, cache, sounds
  <2>4. CASE LongEnough(t)
    BY <2>4 DEF LongEnough, Goto, previews, cache, sounds
  <2>5. CASE TooShort(t)
    BY <2>5 DEF TooShort, Goto, previews, cache, sounds
  <2>6. CASE GoneBeforeStat(t)
    BY <2>6 DEF GoneBeforeStat, Goto, previews, cache, sounds
  <2>7. CASE Synthesize(t)
    BY <2>7 DEF Synthesize, Goto, OpenFile, previews, cache, sounds
  <2>8. CASE Synthesized(t)
    BY <2>8 DEF Synthesized, Goto, previews, cache, sounds
  <2>9. CASE SynthesizedAdrift(t)
    BY <2>9 DEF SynthesizedAdrift, Goto, previews, cache, sounds
  <2>10. CASE SynthesisFails(t)
    BY <2>10 DEF SynthesisFails, Goto, previews, cache, sounds
  <2>11. CASE StartSweep(t)
    BY <2>11 DEF StartSweep, Goto, previews, cache, sounds
  <2>12. ASSUME NEW x \in Phrase, Look(t, x) PROVE JobOK'
    BY <2>12 DEF Look, previews, cache, sounds
  <2>13. CASE Unlink(t)
    BY <2>13 DEF Unlink, previews, cache, sounds
  <2>14. CASE SweepEnds(t)
    BY <2>14 DEF SweepEnds, Goto, previews, cache, sounds
  <2>15. CASE Read(t)
    BY <2>15 DEF Read, Goto, previews, cache, sounds
  <2>16. CASE Answer(t)
    BY <2>16 DEF Answer, Answered, End, previews, cache, sounds
  <2> QED
    BY <1>2, <2>1, <2>2, <2>3, <2>4, <2>5, <2>6, <2>7, <2>8, <2>9, <2>10, <2>11, <2>12,
      <2>13, <2>14, <2>15, <2>16 DEF PreviewStep
<1>3. ASSUME NEW t \in Thread, SoundStep(t) PROVE JobOK'
  <2>1. ASSUME NEW c \in Clip, Add(t, c) PROVE JobOK'
    BY <2>1 DEF Add, Begin, NoJob, previews, cache
  <2>2. ASSUME NEW c \in Clip, Delete(t, c) PROVE JobOK'
    BY <2>2 DEF Delete, Begin, NoJob, previews, cache
  <2>3. CASE Receive(t)
    BY <2>3 DEF Receive, Goto, previews, cache, sounds
  <2>4. CASE Received(t)
    BY <2>4 DEF Received, Goto, previews, cache, sounds
  <2>5. CASE FetchFails(t)
    BY <2>5 DEF FetchFails, Goto, previews, cache, sounds
  <2>6. CASE Store(t)
    BY <2>6 DEF Store, Goto, previews, cache, sounds
  <2>7. CASE NoConverter(t)
    BY <2>7 DEF NoConverter, Goto, previews, cache, sounds
  <2>8. CASE Stored(t)
    BY <2>8 DEF Stored, Goto, previews, cache, sounds
  <2>9. CASE ConversionFails(t)
    BY <2>9 DEF ConversionFails, Goto, previews, cache, sounds
  <2>10. CASE TargetStays(t)
    BY <2>10 DEF TargetStays, Goto, previews, cache, sounds
  <2>11. CASE Accept(t)
    BY <2>11 DEF Accept, Goto, previews, cache, sounds
  <2>12. CASE Reject(t)
    BY <2>12 DEF Reject, Goto, previews, cache, sounds
  <2>13. CASE TidyUp(t)
    <3>1. CASE Goto(t, "keep", "insert")
      BY <2>13, <3>1 DEF TidyUp, Goto, previews, cache
    <3>2. CASE End(t, "refuse")
      BY <2>13, <3>2 DEF TidyUp, End, NoJob, previews, cache
    <3> QED
      BY <2>13, <3>1, <3>2 DEF TidyUp
  <2>14. CASE Insert(t)
    BY <2>14 DEF Insert, End, NoJob, previews, cache, sounds
  <2>15. CASE InsertFails(t)
    BY <2>15 DEF InsertFails, End, NoJob, previews, cache, sounds
  <2>16. CASE Remove(t)
    BY <2>16 DEF Remove, End, NoJob, previews, cache, sounds
  <2>17. CASE FileError(t)
    BY <2>17 DEF FileError, End, NoJob, previews, cache, sounds
  <2> QED
    BY <1>3, <2>1, <2>2, <2>3, <2>4, <2>5, <2>6, <2>7, <2>8, <2>9, <2>10, <2>11, <2>12,
      <2>13, <2>14, <2>15, <2>16, <2>17 DEF SoundStep
<1>4. ASSUME NEW x \in Phrase, Age(x) PROVE JobOK'
  BY <1>4 DEF Age
<1>5. CASE Kill
  BY <1>5 DEF Kill
<1> QED
  BY <1>1, <1>2, <1>3, <1>4, <1>5 DEF Next

(* Every step preserves AgedOK.                                            *)
LEMMA AgedStep == TypeOK /\ JobOK /\ AgedOK /\ [Next]_vars => AgedOK'
<1> SUFFICES ASSUME TypeOK, JobOK, AgedOK, [Next]_vars PROVE AgedOK'
  OBVIOUS
<1> USE DEF AgedOK, TypeOK, Job, JobOK, Previewing, Storing, Library, NoJob
<1>1. CASE UNCHANGED vars
  BY <1>1 DEF vars, previews, cache, sounds
<1>2. ASSUME NEW t \in Thread, PreviewStep(t) PROVE AgedOK'
  <2>1. ASSUME NEW x \in Phrase, Preview(t, x) PROVE AgedOK'
    BY <2>1, NamesAssumption DEF Preview, AskedFor, Begin, NoJob, cache, sounds
  <2>2. CASE Found(t)
    BY <2>2 DEF Found, Goto, previews, cache, sounds
  <2>3. CASE NotFound(t)
    BY <2>3 DEF NotFound, Goto, previews, cache, sounds
  <2>4. CASE LongEnough(t)
    BY <2>4 DEF LongEnough, Goto, previews, cache, sounds
  <2>5. CASE TooShort(t)
    BY <2>5 DEF TooShort, Goto, previews, cache, sounds
  <2>6. CASE GoneBeforeStat(t)
    BY <2>6 DEF GoneBeforeStat, Goto, previews, cache, sounds
  <2>7. CASE Synthesize(t)
    BY <2>7 DEF Synthesize, Goto, OpenFile, previews, cache, sounds
  <2>8. CASE Synthesized(t)
    BY <2>8 DEF Synthesized, Goto, previews, cache, sounds
  <2>9. CASE SynthesizedAdrift(t)
    BY <2>9 DEF SynthesizedAdrift, Goto, previews, cache, sounds
  <2>10. CASE SynthesisFails(t)
    BY <2>10 DEF SynthesisFails, Goto, previews, cache, sounds
  <2>11. CASE StartSweep(t)
    BY <2>11 DEF StartSweep, Goto, previews, cache, sounds
  <2>12. ASSUME NEW x \in Phrase, Look(t, x) PROVE AgedOK'
    BY <2>12 DEF Look, previews, cache, sounds
  <2>13. CASE Unlink(t)
    BY <2>13, NamesAssumption DEF Unlink
  <2>14. CASE SweepEnds(t)
    BY <2>14, NamesAssumption DEF SweepEnds, Goto
  <2>15. CASE Read(t)
    BY <2>15 DEF Read, Goto, previews, cache, sounds
  <2>16. CASE Answer(t)
    BY <2>16 DEF Answer, Answered, End, previews, cache, sounds
  <2> QED
    BY <1>2, <2>1, <2>2, <2>3, <2>4, <2>5, <2>6, <2>7, <2>8, <2>9, <2>10, <2>11, <2>12,
      <2>13, <2>14, <2>15, <2>16 DEF PreviewStep
<1>3. ASSUME NEW t \in Thread, SoundStep(t) PROVE AgedOK'
  BY <1>3, SoundStepAside DEF previews, cache
<1>4. ASSUME NEW x \in Phrase, Age(x) PROVE AgedOK'
  BY <1>4 DEF Age
<1>5. CASE Kill
  BY <1>5 DEF Kill
<1> QED
  BY <1>1, <1>2, <1>3, <1>4, <1>5 DEF Next

(* Every step preserves PresentOK.                                         *)
LEMMA PresentStep == TypeOK /\ JobOK /\ AgedOK /\ PresentOK /\ [Next]_vars => PresentOK'
<1> SUFFICES ASSUME TypeOK, JobOK, AgedOK, PresentOK, [Next]_vars PROVE PresentOK'
  OBVIOUS
<1> USE DEF PresentOK, TypeOK, Job, JobOK, Previewing, Storing, Library, NoJob
<1>1. CASE UNCHANGED vars
  BY <1>1 DEF vars, previews, cache, sounds
<1>2. ASSUME NEW t \in Thread, PreviewStep(t) PROVE PresentOK'
  <2>1. ASSUME NEW x \in Phrase, Preview(t, x) PROVE PresentOK'
    BY <2>1, NamesAssumption DEF Preview, AskedFor, Begin, NoJob, cache, sounds
  <2>2. CASE Found(t)
    BY <2>2 DEF Found, Goto, previews, cache, sounds
  <2>3. CASE NotFound(t)
    BY <2>3 DEF NotFound, Goto, previews, cache, sounds
  <2>4. CASE LongEnough(t)
    BY <2>4 DEF LongEnough, Goto, previews, cache, sounds
  <2>5. CASE TooShort(t)
    BY <2>5 DEF TooShort, Goto, previews, cache, sounds
  <2>6. CASE GoneBeforeStat(t)
    BY <2>6 DEF GoneBeforeStat, Goto, previews, cache, sounds
  <2>7. CASE Synthesize(t)
    BY <2>7 DEF Synthesize, Goto, OpenFile, previews, cache, sounds
  <2>8. CASE Synthesized(t)
    BY <2>8 DEF Synthesized, Goto, previews, cache, sounds
  <2>9. CASE SynthesizedAdrift(t)
    BY <2>9 DEF SynthesizedAdrift, Goto, previews, cache, sounds
  <2>10. CASE SynthesisFails(t)
    BY <2>10 DEF SynthesisFails, Goto, previews, cache, sounds
  <2>11. CASE StartSweep(t)
    BY <2>11 DEF StartSweep, Goto, previews, cache, sounds
  <2>12. ASSUME NEW x \in Phrase, Look(t, x) PROVE PresentOK'
    BY <2>12 DEF Look, previews, cache, sounds
  <2>13. CASE Unlink(t)
    BY <2>13 DEF Unlink, AgedOK
  <2>14. CASE SweepEnds(t)
    BY <2>14 DEF SweepEnds, Goto, previews, cache, sounds
  <2>15. CASE Read(t)
    BY <2>15 DEF Read, Goto, previews, cache, sounds
  <2>16. CASE Answer(t)
    BY <2>16 DEF Answer, Answered, End, previews, cache, sounds
  <2> QED
    BY <1>2, <2>1, <2>2, <2>3, <2>4, <2>5, <2>6, <2>7, <2>8, <2>9, <2>10, <2>11, <2>12,
      <2>13, <2>14, <2>15, <2>16 DEF PreviewStep
<1>3. ASSUME NEW t \in Thread, SoundStep(t) PROVE PresentOK'
  BY <1>3, SoundStepAside DEF previews, cache
<1>4. ASSUME NEW x \in Phrase, Age(x) PROVE PresentOK'
  BY <1>4 DEF Age
<1>5. CASE Kill
  BY <1>5 DEF Kill
<1> QED
  BY <1>1, <1>2, <1>3, <1>4, <1>5 DEF Next

(* Every step preserves AloneOK.                                           *)
LEMMA AloneStep == TypeOK /\ JobOK /\ AloneOK /\ [Next]_vars => AloneOK'
<1> SUFFICES ASSUME TypeOK, JobOK, AloneOK, [Next]_vars PROVE AloneOK'
  OBVIOUS
<1> USE DEF AloneOK, TypeOK, Job, JobOK, Previewing, Storing, Library, NoJob
<1>1. CASE UNCHANGED vars
  BY <1>1 DEF vars, previews, cache, sounds
<1>2. ASSUME NEW t \in Thread, PreviewStep(t) PROVE AloneOK'
  <2>1. ASSUME NEW x \in Phrase, Preview(t, x) PROVE AloneOK'
    BY <2>1, NamesAssumption DEF Preview, AskedFor, Begin, NoJob, cache, sounds
  <2>2. CASE Found(t)
    BY <2>2 DEF Found, Goto, previews, cache, sounds
  <2>3. CASE NotFound(t)
    BY <2>3 DEF NotFound, Goto, previews, cache, sounds
  <2>4. CASE LongEnough(t)
    BY <2>4 DEF LongEnough, Goto, previews, cache, sounds
  <2>5. CASE TooShort(t)
    BY <2>5 DEF TooShort, Goto, previews, cache, sounds
  <2>6. CASE GoneBeforeStat(t)
    BY <2>6 DEF GoneBeforeStat, Goto, previews, cache, sounds
  <2>7. CASE Synthesize(t)
    BY <2>7 DEF Synthesize, Goto, OpenFile, previews, cache, sounds
  <2>8. CASE Synthesized(t)
    BY <2>8 DEF Synthesized, Goto, previews, cache, sounds
  <2>9. CASE SynthesizedAdrift(t)
    BY <2>9 DEF SynthesizedAdrift, Goto, previews, cache, sounds
  <2>10. CASE SynthesisFails(t)
    BY <2>10 DEF SynthesisFails, Goto, previews, cache, sounds
  <2>11. CASE StartSweep(t)
    BY <2>11 DEF StartSweep, Goto, previews, cache, sounds
  <2>12. ASSUME NEW x \in Phrase, Look(t, x) PROVE AloneOK'
    BY <2>12 DEF Look, previews, cache, sounds
  <2>13. CASE Unlink(t)
    BY <2>13 DEF Unlink, previews, cache, sounds
  <2>14. CASE SweepEnds(t)
    BY <2>14 DEF SweepEnds, Goto, previews, cache, sounds
  <2>15. CASE Read(t)
    BY <2>15 DEF Read, Goto, previews, cache, sounds
  <2>16. CASE Answer(t)
    BY <2>16 DEF Answer, Answered, End, previews, cache, sounds
  <2> QED
    BY <1>2, <2>1, <2>2, <2>3, <2>4, <2>5, <2>6, <2>7, <2>8, <2>9, <2>10, <2>11, <2>12,
      <2>13, <2>14, <2>15, <2>16 DEF PreviewStep
<1>3. ASSUME NEW t \in Thread, SoundStep(t) PROVE AloneOK'
  BY <1>3, SoundStepAside DEF previews, cache
<1>4. ASSUME NEW x \in Phrase, Age(x) PROVE AloneOK'
  BY <1>4 DEF Age
<1>5. CASE Kill
  BY <1>5 DEF Kill
<1> QED
  BY <1>1, <1>2, <1>3, <1>4, <1>5 DEF Next

(* Every step preserves SlotsComeBack: a slot is taken by a thread that    *)
(* begins a preview and given back by one that ends it.                    *)
LEMMA SlotsStep == TypeOK /\ JobOK /\ SlotsComeBack /\ [Next]_vars => SlotsComeBack'
<1> SUFFICES ASSUME TypeOK, JobOK, SlotsComeBack, [Next]_vars PROVE SlotsComeBack'
  OBVIOUS
<1>0. IsFiniteSet(Busy)
  BY FilesAssumption, FS_Subset DEF Busy
<1>c. SlotsComeBack' <=> free' + Cardinality(Busy') = Slots
  BY DEF SlotsComeBack, Busy
<1>s. ASSUME Busy' = Busy, free' = free PROVE SlotsComeBack'
  BY <1>s, <1>c, SlotsCount
<1> USE DEF TypeOK, Job, Previewing, Storing, Library, NoJob
<1>1. CASE UNCHANGED vars
  BY <1>1, <1>s DEF Busy, vars, previews, cache, sounds
<1>2. ASSUME NEW t \in Thread, PreviewStep(t) PROVE SlotsComeBack'
  <2>1. ASSUME NEW x \in Phrase, Preview(t, x) PROVE SlotsComeBack'
    <3>1. t \notin Busy /\ Busy' = Busy \cup {t} /\ free' = free - 1
      BY <2>1, NamesAssumption DEF Preview, AskedFor, Begin, Busy
    <3>2. Cardinality(Busy) \in Nat
      BY <1>0, FS_CardinalityType
    <3>3. Cardinality(Busy \cup {t}) = Cardinality(Busy) + 1
      BY <1>0, <3>1, FS_AddElement
    <3> QED
      BY <1>c, <3>1, <3>2, <3>3, SlotsCount DEF TypeOK
  <2>2. CASE Found(t)
    <3>1. Busy' = Busy
      BY <2>2 DEF Found, Goto, Busy
    <3>2. free' = free
      BY <2>2 DEF Found, previews, cache
    <3> QED
      BY <3>1, <3>2, <1>s
  <2>3. CASE NotFound(t)
    <3>1. Busy' = Busy
      BY <2>3 DEF NotFound, Goto, Busy
    <3>2. free' = free
      BY <2>3 DEF NotFound, previews, cache
    <3> QED
      BY <3>1, <3>2, <1>s
  <2>4. CASE LongEnough(t)
    <3>1. Busy' = Busy
      BY <2>4 DEF LongEnough, Goto, Busy
    <3>2. free' = free
      BY <2>4 DEF LongEnough, previews, cache
    <3> QED
      BY <3>1, <3>2, <1>s
  <2>5. CASE TooShort(t)
    <3>1. Busy' = Busy
      BY <2>5 DEF TooShort, Goto, Busy
    <3>2. free' = free
      BY <2>5 DEF TooShort, previews, cache
    <3> QED
      BY <3>1, <3>2, <1>s
  <2>6. CASE GoneBeforeStat(t)
    <3>1. Busy' = Busy
      BY <2>6 DEF GoneBeforeStat, Goto, Busy
    <3>2. free' = free
      BY <2>6 DEF GoneBeforeStat, previews, cache
    <3> QED
      BY <3>1, <3>2, <1>s
  <2>7. CASE Synthesize(t)
    <3>1. Busy' = Busy
      BY <2>7 DEF Synthesize, Goto, OpenFile, Busy
    <3>2. free' = free
      BY <2>7 DEF Synthesize, OpenFile, previews, cache
    <3> QED
      BY <3>1, <3>2, <1>s
  <2>8. CASE Synthesized(t)
    <3>1. Busy' = Busy
      BY <2>8 DEF Synthesized, Goto, Busy
    <3>2. free' = free
      BY <2>8 DEF Synthesized, previews, cache
    <3> QED
      BY <3>1, <3>2, <1>s
  <2>9. CASE SynthesizedAdrift(t)
    <3>1. Busy' = Busy
      BY <2>9 DEF SynthesizedAdrift, Goto, Busy
    <3>2. free' = free
      BY <2>9 DEF SynthesizedAdrift, previews, cache
    <3> QED
      BY <3>1, <3>2, <1>s
  <2>10. CASE SynthesisFails(t)
    <3>1. Busy' = Busy
      BY <2>10 DEF SynthesisFails, Goto, Busy
    <3>2. free' = free
      BY <2>10 DEF SynthesisFails, previews, cache
    <3> QED
      BY <3>1, <3>2, <1>s
  <2>11. CASE StartSweep(t)
    <3>1. Busy' = Busy
      BY <2>11 DEF StartSweep, Goto, Busy
    <3>2. free' = free
      BY <2>11 DEF StartSweep, previews, cache
    <3> QED
      BY <3>1, <3>2, <1>s
  <2>12. ASSUME NEW x \in Phrase, Look(t, x) PROVE SlotsComeBack'
    <3>1. Busy' = Busy
      BY <2>12 DEF Look, Busy
    <3>2. free' = free
      BY <2>12 DEF Look, previews, cache
    <3> QED
      BY <3>1, <3>2, <1>s
  <2>13. CASE Unlink(t)
    <3>1. Busy' = Busy
      BY <2>13 DEF Unlink, Busy
    <3>2. free' = free
      BY <2>13 DEF Unlink, previews, cache
    <3> QED
      BY <3>1, <3>2, <1>s
  <2>14. CASE SweepEnds(t)
    <3>1. Busy' = Busy
      BY <2>14 DEF SweepEnds, Goto, Busy
    <3>2. free' = free
      BY <2>14 DEF SweepEnds, previews, cache
    <3> QED
      BY <3>1, <3>2, <1>s
  <2>15. CASE Read(t)
    <3>1. Busy' = Busy
      BY <2>15 DEF Read, Goto, JobOK, Busy
    <3>2. free' = free
      BY <2>15 DEF Read, previews, cache
    <3> QED
      BY <3>1, <3>2, <1>s
  <2>16. CASE Answer(t)
    <3>1. t \in Busy /\ Busy' = Busy \ {t} /\ free' = free + 1
      BY <2>16 DEF Answer, Answered, End, Busy
    <3>2. Cardinality(Busy) \in Nat
      BY <1>0, FS_CardinalityType
    <3>3. Cardinality(Busy \ {t}) = Cardinality(Busy) - 1
      BY <1>0, <3>1, FS_RemoveElement
    <3> QED
      BY <1>c, <3>1, <3>2, <3>3, SlotsCount DEF TypeOK
  <2> QED
    BY <1>2, <2>1, <2>2, <2>3, <2>4, <2>5, <2>6, <2>7, <2>8, <2>9, <2>10, <2>11, <2>12,
      <2>13, <2>14, <2>15, <2>16 DEF PreviewStep
<1>3. ASSUME NEW t \in Thread, SoundStep(t) PROVE SlotsComeBack'
  <2>1. Busy' = Busy
    BY <1>3, SoundStepAside DEF Busy
  <2>2. free' = free
    BY <1>3, SoundStepAside DEF previews
  <2> QED
    BY <2>1, <2>2, <1>s
<1>4. ASSUME NEW x \in Phrase, Age(x) PROVE SlotsComeBack'
  <2>1. Busy' = Busy /\ free' = free
    BY <1>4 DEF Age, Busy
  <2> QED
    BY <2>1, <1>s
<1>5. CASE Kill
  <2>1. Busy' = {} /\ free' = Slots
    BY <1>5 DEF Kill, Busy
  <2> QED
    BY <2>1, <1>c, FilesAssumption, FS_EmptySet
<1> QED
  BY <1>1, <1>2, <1>3, <1>4, <1>5 DEF Next

(* Every step preserves ServedIsWhole.                                     *)
LEMMA ServedStep == TypeOK /\ JobOK /\ AloneOK /\ ServedIsWhole /\ [Next]_vars => ServedIsWhole'
<1> SUFFICES ASSUME TypeOK, JobOK, AloneOK, ServedIsWhole, [Next]_vars PROVE ServedIsWhole'
  OBVIOUS
<1> USE DEF ServedIsWhole, TypeOK, Job, NoJob, Previewing
<1>1. CASE UNCHANGED vars
  BY <1>1 DEF vars, previews, cache, sounds
<1>2. ASSUME NEW t \in Thread, PreviewStep(t) PROVE ServedIsWhole'
  <2>1. ASSUME NEW x \in Phrase, Preview(t, x) PROVE ServedIsWhole'
    BY <2>1, NamesAssumption DEF Preview, AskedFor, Begin, NoJob, cache, sounds
  <2>2. CASE Found(t)
    BY <2>2 DEF Found, Goto, previews, cache, sounds
  <2>3. CASE NotFound(t)
    BY <2>3 DEF NotFound, Goto, previews, cache, sounds
  <2>4. CASE LongEnough(t)
    BY <2>4 DEF LongEnough, Goto, previews, cache, sounds
  <2>5. CASE TooShort(t)
    BY <2>5 DEF TooShort, Goto, previews, cache, sounds
  <2>6. CASE GoneBeforeStat(t)
    BY <2>6 DEF GoneBeforeStat, Goto, previews, cache, sounds
  <2>7. CASE Synthesize(t)
    BY <2>7 DEF Synthesize, Goto, OpenFile, previews, cache, sounds
  <2>8. CASE Synthesized(t)
    BY <2>8 DEF Synthesized, Goto, previews, cache, sounds
  <2>9. CASE SynthesizedAdrift(t)
    BY <2>9 DEF SynthesizedAdrift, Goto, previews, cache, sounds
  <2>10. CASE SynthesisFails(t)
    BY <2>10 DEF SynthesisFails, Goto, previews, cache, sounds
  <2>11. CASE StartSweep(t)
    BY <2>11 DEF StartSweep, Goto, previews, cache, sounds
  <2>12. ASSUME NEW x \in Phrase, Look(t, x) PROVE ServedIsWhole'
    BY <2>12 DEF Look, previews, cache, sounds
  <2>13. CASE Unlink(t)
    BY <2>13 DEF Unlink, previews, cache, sounds
  <2>14. CASE SweepEnds(t)
    BY <2>14 DEF SweepEnds, Goto, previews, cache, sounds
  <2>15. CASE Read(t)
    BY <2>15 DEF Read, Goto, previews, cache, AloneOK, JobOK
  <2>16. CASE Answer(t)
    BY <2>16 DEF Answer, Answered, End, previews, cache, sounds
  <2> QED
    BY <1>2, <2>1, <2>2, <2>3, <2>4, <2>5, <2>6, <2>7, <2>8, <2>9, <2>10, <2>11, <2>12,
      <2>13, <2>14, <2>15, <2>16 DEF PreviewStep
<1>3. ASSUME NEW t \in Thread, SoundStep(t) PROVE ServedIsWhole'
  BY <1>3, SoundStepAside DEF previews, cache
<1>4. ASSUME NEW x \in Phrase, Age(x) PROVE ServedIsWhole'
  BY <1>4 DEF Age
<1>5. CASE Kill
  BY <1>5 DEF Kill
<1> QED
  BY <1>1, <1>2, <1>3, <1>4, <1>5 DEF Next

(* Every step preserves ClipOK.                                            *)
LEMMA ClipStep == TypeOK /\ JobOK /\ ClipOK /\ [Next]_vars => ClipOK'
<1> SUFFICES ASSUME TypeOK, JobOK, ClipOK, [Next]_vars PROVE ClipOK'
  OBVIOUS
<1> USE DEF ClipOK, TypeOK, Job, JobOK, Previewing, Storing, Library, NoJob
<1>1. CASE UNCHANGED vars
  BY <1>1 DEF vars, previews, cache, sounds
<1>2. ASSUME NEW t \in Thread, PreviewStep(t) PROVE ClipOK'
  BY <1>2, PreviewStepAside DEF sounds
<1>3. ASSUME NEW t \in Thread, SoundStep(t) PROVE ClipOK'
  <2>1. ASSUME NEW c \in Clip, Add(t, c) PROVE ClipOK'
    BY <2>1 DEF Add, Begin, NoJob, previews, cache
  <2>2. ASSUME NEW c \in Clip, Delete(t, c) PROVE ClipOK'
    BY <2>2 DEF Delete, Begin, NoJob, previews, cache
  <2>3. CASE Receive(t)
    BY <2>3 DEF Receive, Goto, previews, cache, sounds
  <2>4. CASE Received(t)
    BY <2>4 DEF Received, Goto, previews, cache, sounds
  <2>5. CASE FetchFails(t)
    BY <2>5 DEF FetchFails, Goto, previews, cache, sounds
  <2>6. CASE Store(t)
    BY <2>6 DEF Store, Goto, previews, cache, sounds
  <2>7. CASE NoConverter(t)
    BY <2>7 DEF NoConverter, Goto, previews, cache, sounds
  <2>8. CASE Stored(t)
    BY <2>8 DEF Stored, Goto, previews, cache, sounds
  <2>9. CASE ConversionFails(t)
    BY <2>9 DEF ConversionFails, Goto, previews, cache, sounds
  <2>10. CASE TargetStays(t)
    BY <2>10 DEF TargetStays, Goto, previews, cache, sounds
  <2>11. CASE Accept(t)
    BY <2>11 DEF Accept, Goto, previews, cache, sounds
  <2>12. CASE Reject(t)
    BY <2>12 DEF Reject, Goto, previews, cache, sounds
  <2>13. CASE TidyUp(t)
    BY <2>13 DEF TidyUp, Goto, End, NoJob, previews, cache, sounds
  <2>14. CASE Insert(t)
    BY <2>14 DEF Insert, End, NoJob, previews, cache, sounds
  <2>15. CASE InsertFails(t)
    BY <2>15 DEF InsertFails, End, NoJob, previews, cache, sounds
  <2>16. CASE Remove(t)
    BY <2>16 DEF Remove, End, NoJob, previews, cache, sounds
  <2>17. CASE FileError(t)
    BY <2>17 DEF FileError, End, NoJob, previews, cache, sounds
  <2> QED
    BY <1>3, <2>1, <2>2, <2>3, <2>4, <2>5, <2>6, <2>7, <2>8, <2>9, <2>10, <2>11, <2>12,
      <2>13, <2>14, <2>15, <2>16, <2>17 DEF SoundStep
<1>4. ASSUME NEW x \in Phrase, Age(x) PROVE ClipOK'
  BY <1>4 DEF Age, sounds
<1>5. CASE Kill
  BY <1>5 DEF Kill
<1> QED
  BY <1>1, <1>2, <1>3, <1>4, <1>5 DEF Next

(* Every step preserves LeftOK.                                            *)
LEMMA LeftStep == TypeOK /\ JobOK /\ ClipOK /\ LeftOK /\ [Next]_vars => LeftOK'
<1> SUFFICES ASSUME TypeOK, JobOK, ClipOK, LeftOK, [Next]_vars PROVE LeftOK'
  OBVIOUS
<1> USE DEF LeftOK, ClipOK, TypeOK, Job, JobOK, Previewing, Storing, Library, NoJob
<1>1. CASE UNCHANGED vars
  BY <1>1 DEF vars, previews, cache, sounds
<1>2. ASSUME NEW t \in Thread, PreviewStep(t) PROVE LeftOK'
  BY <1>2, PreviewStepAside DEF sounds
<1>3. ASSUME NEW t \in Thread, SoundStep(t) PROVE LeftOK'
  <2>1. ASSUME NEW c \in Clip, Add(t, c) PROVE LeftOK'
    BY <2>1 DEF Add, Begin, NoJob, previews, cache
  <2>2. ASSUME NEW c \in Clip, Delete(t, c) PROVE LeftOK'
    BY <2>2 DEF Delete, Begin, NoJob, previews, cache
  <2>3. CASE Receive(t)
    BY <2>3 DEF Receive, Goto, previews, cache, sounds
  <2>4. CASE Received(t)
    BY <2>4 DEF Received, Goto, previews, cache, sounds
  <2>5. CASE FetchFails(t)
    BY <2>5 DEF FetchFails, Goto, previews, cache, sounds
  <2>6. CASE Store(t)
    BY <2>6 DEF Store, Goto, previews, cache, sounds
  <2>7. CASE NoConverter(t)
    BY <2>7 DEF NoConverter, Goto, previews, cache, sounds
  <2>8. CASE Stored(t)
    BY <2>8 DEF Stored, Goto, previews, cache, sounds
  <2>9. CASE ConversionFails(t)
    BY <2>9 DEF ConversionFails, Goto, previews, cache, sounds
  <2>10. CASE TargetStays(t)
    BY <2>10 DEF TargetStays, Goto, previews, cache, sounds
  <2>11. CASE Accept(t)
    BY <2>11 DEF Accept, Goto, previews, cache, sounds
  <2>12. CASE Reject(t)
    BY <2>12 DEF Reject, Goto, previews, cache, sounds
  <2>13. CASE TidyUp(t)
    BY <2>13 DEF TidyUp, Goto, End, NoJob, previews, cache, sounds
  <2>14. CASE Insert(t)
    BY <2>14 DEF Insert, End, NoJob, previews, cache, sounds
  <2>15. CASE InsertFails(t)
    BY <2>15 DEF InsertFails, End, NoJob, previews, cache, sounds
  <2>16. CASE Remove(t)
    BY <2>16 DEF Remove, End, NoJob, previews, cache, sounds
  <2>17. CASE FileError(t)
    BY <2>17 DEF FileError, End, NoJob, previews, cache, sounds
  <2> QED
    BY <1>3, <2>1, <2>2, <2>3, <2>4, <2>5, <2>6, <2>7, <2>8, <2>9, <2>10, <2>11, <2>12,
      <2>13, <2>14, <2>15, <2>16, <2>17 DEF SoundStep
<1>4. ASSUME NEW x \in Phrase, Age(x) PROVE LeftOK'
  BY <1>4 DEF Age, sounds
<1>5. CASE Kill
  BY <1>5 DEF Kill
<1> QED
  BY <1>1, <1>2, <1>3, <1>4, <1>5 DEF Next

----------------------------------------------------------------------------
(* IInv holds at first.                                                    *)
LEMMA IInvInit == Init => IInv
<1> SUFFICES ASSUME Init PROVE IInv
  OBVIOUS
<1>1. TypeOK
  BY FilesAssumption DEF Init, TypeOK, Job, NoJob
<1>2. SlotsComeBack
  <2>1. Busy = {}
    BY DEF Init, Busy, NoJob, Previewing
  <2> QED
    BY <2>1, FilesAssumption, FS_EmptySet DEF Init, SlotsComeBack, Busy
<1>3. JobOK /\ AgedOK /\ PresentOK /\ ServedIsWhole
  BY NamesAssumption DEF Init, JobOK, AgedOK, PresentOK, ServedIsWhole, NoJob, Previewing, Storing, Library
<1>4. AloneOK /\ ClipOK /\ LeftOK
  BY DEF Init, AloneOK, ClipOK, LeftOK, NoJob, Previewing, Storing, Library
<1> QED
  BY <1>1, <1>2, <1>3, <1>4 DEF IInv

(* Every step preserves IInv.                                              *)
LEMMA IInvStep == IInv /\ [Next]_vars => IInv'
BY TypeStep, JobStep, SlotsStep, AgedStep, PresentStep, ServedStep, AloneStep, ClipStep, LeftStep
   DEF IInv

(* IInv implies the properties that the runs check.                        *)
LEMMA IInvImplies ==
  IInv => /\ TypeOK /\ SlotsComeBack /\ FoundIsServed
          /\ ServedIsWhole /\ RowHasFile /\ FileHasRow
BY DEF IInv, PresentOK, FoundIsServed, ClipOK, RowHasFile, LeftOK, FileHasRow

(* What is proved below rests on this.                                     *)
THEOREM FilesInvariance == Spec => []IInv
<1>1. Init => IInv
  BY IInvInit
<1>2. IInv /\ [Next]_vars => IInv'
  BY IInvStep
<1> QED
  BY <1>1, <1>2, PTL DEF Spec

(* Every variable has its type; files that are listed have names that were *)
(* given out.                                                              *)
THEOREM FilesTypes == Spec => []TypeOK
BY FilesInvariance, IInvImplies, PTL

(* For any number of slots and threads, whatever fails: the slots that are *)
(* free and those in use add up (api_preview).                             *)
THEOREM NoSlotIsLost == Spec => []SlotsComeBack
BY FilesInvariance, IInvImplies, PTL

(* However lookups, syntheses and sweeps of any number of requests         *)
(* interleave, a stat and an unlink of each path apart: a preview whose    *)
(* file was found or written is missing when it is read only if its file   *)
(* was over two hours old, or doomed by a sweep, at some moment of the     *)
(* request (api_preview, sweep_previews).                                  *)
THEOREM FoundPreviewIsServed == Spec => []FoundIsServed
BY FilesInvariance, IInvImplies, PTL

(* Only words that two asked for at once, or whose synthesis failed or was *)
(* killed, are heard by halves.                                            *)
THEOREM PreviewIsWhole == Spec => []ServedIsWhole
BY FilesInvariance, IInvImplies, PTL

(* A clip in the table has its file, however requests interleave and       *)
(* wherever the process is killed (add_bytes, api_delete_sound).           *)
THEOREM EveryRowHasItsFile == Spec => []RowHasFile
BY FilesInvariance, IInvImplies, PTL

(* A file without a row belongs to a request under way, or to one that was *)
(* killed, could not insert its row, or failed at writing or removing a    *)
(* file.                                                                   *)
THEOREM NoFileIsOrphaned == Spec => []FileHasRow
BY FilesInvariance, IInvImplies, PTL
=============================================================================
