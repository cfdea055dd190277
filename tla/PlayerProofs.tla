---------------------------- MODULE PlayerProofs ----------------------------
(***************************************************************************)
(* The safety of Player for every number of rows, people, clips, unplugged *)
(* devices and restarts.  The steps of the system are first reduced to     *)
(* their effects on the table (TableEffect); the invariants of the table   *)
(* are kept by those effects alone, the invariants of the thread and of    *)
(* the stop flag action by action, and the theorems follow from Inv.       *)
(***************************************************************************)
EXTENDS Player, SequenceTheorems, TLAPS

(* Every submission stores a well-formed row.                              *)
LEMMA RowType ==
  ASSUME NEW o \in Person \cup {None}, NEW u \in 0 .. 1,
         NEW k \in Spoken \cup {"sound", "test"},
         NEW c \in Clip \cup {None}, NEW x, NEW S
  PROVE  Row(o, u, k, c, x \in S) \in Content
<1> DEFINE b == x \in S
<1>1. b \in BOOLEAN
  OBVIOUS
<1> HIDE DEF b
<1>2. Row(o, u, k, c, b) \in Content
  BY <1>1 DEF Row, Content
<1> QED BY <1>2 DEF b

(* _play_item hands _play_sequence a sequence of parts.                    *)
LEMMA PartsType ==
  ASSUME NEW i
  PROVE  PartsOf(i) \in Seq(Part)
<1> DEFINE ch == IF content[i].chime THEN <<"chime", "gap">> ELSE <<>>
           bo == IF HasBody(i) THEN <<"body">> ELSE <<>>
           en == IF EndTone THEN <<"end">> ELSE <<>>
<1>0. /\ <<>> \in Seq(Part)
      /\ <<"chime", "gap">> \in Seq(Part)
      /\ <<"body">> \in Seq(Part)
      /\ <<"end">> \in Seq(Part)
  BY DEF Part
<1>1. ch \in Seq(Part)
  BY <1>0, Zenon
<1>2. bo \in Seq(Part)
  BY <1>0, Zenon
<1>3. en \in Seq(Part)
  BY <1>0, Zenon
<1>4. ch \o bo \in Seq(Part)
  <2> HIDE DEF ch, bo
  <2> QED BY <1>1, <1>2, ConcatProperties
<1>5. (ch \o bo) \o en \in Seq(Part)
  <2> HIDE DEF ch, bo, en
  <2> QED BY <1>3, <1>4, ConcatProperties
<1> QED BY <1>5 DEF PartsOf

----------------------------------------------------------------------------
(* What a step of the system may do to the announcements table.            *)

Given == {"done", "failed", "stopped"}

(* One disjunct for each kind of statement run against the table.          *)
TableEffect ==
  \/ UNCHANGED table
  \/ \E c \in Content : Enqueue(c)
  \/ \E i \in Id : pc = "loop" /\ ClaimNext(i)
  \/ pc = "release" /\ ReleaseToQueue(item)
  \/ /\ pc \in {"finish_stopped", "finish_done", "fail"}
     /\ \E s \in Given, by \in Person \cup {Unknown, None} :
          /\ Finish(item, s, by)
          /\ (s = "stopped" => FinishStopped) /\ (s = "done" => FinishDone)
  \/ \E i \in Id, by \in Person : CancelQueued(i, by) /\ StopQueued(by) /\ i = req[by].id
  \/ pc = "off" /\ RecoverOrphanedItems
  \/ \E last \in Id : PurgeAnnouncements(last)

(* These are all the effects a step of the system can have on the table.   *)
LEMMA EffectOfStep ==
  ASSUME TypeOK, AskersOK, [Next]_vars
  PROVE  TableEffect
<1> USE DEF TableEffect
<1>1. CASE UNCHANGED vars
  BY <1>1 DEF vars
<1>2. CASE PlayerStep
  <2>1. ASSUME NEW i \in Id, Claim(i) PROVE TableEffect
    BY <2>1 DEF Claim
  <2>2. CASE ExitLoop \/ Begin \/ Synthesize \/ OpenSession \/ OpenFails
    BY <2>2 DEF ExitLoop, Begin, Synthesize, OpenSession, OpenFails
  <2>3. CASE PlayPart \/ PlayStopped \/ PlayUnavailable \/ PlayRaises \/ PlayCompleted
    BY <2>3 DEF PlayPart, PlayStopped, PlayUnavailable, PlayRaises, PlayCompleted
  <2>4. CASE FinishStopped
    <3>1. StoppedName \in Person \cup {Unknown, None}
      BY DEF StoppedName, TypeOK
    <3> QED BY <2>4, <3>1 DEF FinishStopped, Given
  <2>5. CASE FinishDone
    BY <2>5 DEF FinishDone, Given
  <2>6. CASE FinishFailed
    BY <2>6 DEF FinishFailed, Given
  <2>7. CASE RecordSpeechRate \/ Backoff \/ Cleanup
    BY <2>7 DEF RecordSpeechRate, Backoff, Cleanup
  <2>8. CASE Release
    BY <2>8 DEF Release
  <2> QED BY <1>2, <2>1, <2>2, <2>3, <2>4, <2>5, <2>6, <2>7, <2>8 DEF PlayerStep
<1>3. CASE PlayerFault
  BY <1>3 DEF PlayerFault, SynthesizeFails, WriteRaisesInBody, WriteRaisesInHandler
<1>4. CASE WebStep
  <2>1. ASSUME NEW p \in Person, NEW k \in Kinds, NEW u \in Priorities, Announce(p, k, u)
        PROVE  TableEffect
    <3>1. Row(p, u, k, None, p \in Chimed) \in Content
      BY RowType, InputsAssumption, <2>1 DEF Announce, Spoken
    <3> QED BY <2>1, <3>1 DEF Announce
  <2>2. ASSUME NEW p \in Person, TestAudio(p) PROVE TableEffect
    <3>1. Row(p, 0, "test", None, p \in Chimed) \in Content
      BY RowType, InputsAssumption, <2>2 DEF TestAudio, Spoken
    <3> QED BY <2>2, <3>1 DEF TestAudio
  <2>3. ASSUME NEW p \in Person, NEW c \in Clip, PlaySound(p, c) PROVE TableEffect
    <3>1. Row(p, 0, "sound", c, c \in ChimedClip) \in Content
      BY RowType, InputsAssumption, <2>3 DEF PlaySound, Spoken
    <3> QED BY <2>3, <3>1 DEF PlaySound
  <2>4. ASSUME NEW p \in Person, NEW i \in Id, StopRead(p, i) PROVE TableEffect
    BY <2>4 DEF StopRead
  <2>5. ASSUME NEW p \in Person, StopPlaying(p) \/ StopCurrent(p) PROVE TableEffect
    BY <2>5 DEF StopPlaying, StopCurrent
  <2>6. ASSUME NEW p \in Person, StopQueued(p) PROVE TableEffect
    <3>1. req[p].id \in Id
      BY <2>6 DEF StopQueued, AskersOK, RequestsOK, NoRequest, TypeOK
    <3> QED BY <2>6, <3>1 DEF StopQueued
  <2>7. ASSUME NEW c \in Clip, DeleteSound(c) PROVE TableEffect
    BY <2>7 DEF DeleteSound
  <2>8. ASSUME NEW last \in Id, Purge(last) PROVE TableEffect
    BY <2>8 DEF Purge
  <2> QED BY <1>4, <2>1, <2>2, <2>3, <2>4, <2>5, <2>6, <2>7, <2>8 DEF WebStep
<1>5. CASE TimerStep
  <2>1. ASSUME NEW o \in Person \cup {None}, NEW u \in Priorities, ScheduleDue(o, u)
        PROVE  TableEffect
    <3>1. Row(o, u, "scheduled", None, o \in Chimed) \in Content
      BY RowType, InputsAssumption, <2>1 DEF ScheduleDue, Spoken
    <3> QED BY <2>1, <3>1 DEF ScheduleDue
  <2>2. CASE SpeakAddress
    <3>1. Row(None, 0, "startup", None, None \in Chimed) \in Content
      BY RowType, InputsAssumption, <2>2 DEF SpeakAddress, Spoken
    <3> QED BY <2>2, <3>1 DEF SpeakAddress
  <2> QED BY <1>5, <2>1, <2>2 DEF TimerStep
<1>6. CASE EnvironmentStep
  BY <1>6 DEF EnvironmentStep, Start, Shutdown, Exit, Crash, ProcessEnds, Unplug, Replug
<1> QED BY <1>1, <1>2, <1>3, <1>4, <1>5, <1>6 DEF Next

----------------------------------------------------------------------------
(* The invariants of the table, from the effects.                          *)

(* What the thread holds when it writes: a row that is on the air, or, in  *)
(* an exception handler only, one that is already done or even deleted.    *)
LEMMA ItemHeld ==
  ASSUME TypeOK, ThreadOK,
         pc \in {"release", "finish_stopped", "finish_done", "fail"}
  PROVE  item \in Id /\ (pc # "fail" => state[item] = "playing")
                     /\ state[item] \in {"playing", "done", "purged"}
BY DEF TypeOK, ThreadOK, Held

(* The table keeps its type.                                               *)
LEMMA TableTypeStep ==
  ASSUME TypeOK, ThreadOK, TableEffect
  PROVE  TableTypeOK'
<1> USE DEF TypeOK, TableTypeOK, RowState, Terminal
<1>1. CASE UNCHANGED table
  BY <1>1 DEF table
<1>2. ASSUME NEW c \in Content, Enqueue(c) PROVE TableTypeOK'
  BY <1>2, RowsAssumption DEF Enqueue, Id
<1>3. ASSUME NEW i \in Id, ClaimNext(i) PROVE TableTypeOK'
  BY <1>3 DEF ClaimNext
<1>4. CASE pc = "release" /\ ReleaseToQueue(item)
  BY <1>4, ItemHeld DEF ReleaseToQueue
<1>5. ASSUME pc \in {"finish_stopped", "finish_done", "fail"},
             NEW s \in Given, NEW by \in Person \cup {Unknown, None}, Finish(item, s, by)
      PROVE  TableTypeOK'
  BY <1>5, ItemHeld DEF Finish, Given
<1>6. ASSUME NEW i \in Id, NEW by \in Person, CancelQueued(i, by) PROVE TableTypeOK'
  BY <1>6 DEF CancelQueued
<1>7. CASE RecoverOrphanedItems
  BY <1>7 DEF RecoverOrphanedItems
<1>8. ASSUME NEW last \in Id, PurgeAnnouncements(last) PROVE TableTypeOK'
  BY <1>8 DEF PurgeAnnouncements
<1> QED BY <1>1, <1>2, <1>3, <1>4, <1>5, <1>6, <1>7, <1>8 DEF TableEffect

(* Ids are handed out in order, and a deleted row loses its content.       *)
LEMMA RowsStep ==
  ASSUME TypeOK, ThreadOK, RowsOK, TableEffect
  PROVE  RowsOK'
<1> USE DEF TypeOK, TableTypeOK, RowsOK, Present, Id
<1>1. CASE UNCHANGED table
  BY <1>1 DEF table
<1>2. ASSUME NEW c \in Content, Enqueue(c) PROVE RowsOK'
  BY <1>2, RowsAssumption, NoRowAssumption DEF Enqueue
<1>3. ASSUME NEW i \in Id, ClaimNext(i) PROVE RowsOK'
  BY <1>3 DEF ClaimNext, IsHead, Queued
<1>4. CASE pc = "release" /\ ReleaseToQueue(item)
  BY <1>4, ItemHeld DEF ReleaseToQueue
<1>5. ASSUME pc \in {"finish_stopped", "finish_done", "fail"},
             NEW s \in Given, NEW by \in Person \cup {Unknown, None}, Finish(item, s, by)
      PROVE  RowsOK'
  BY <1>5, ItemHeld DEF Finish, Given
<1>6. ASSUME NEW i \in Id, NEW by \in Person, CancelQueued(i, by) PROVE RowsOK'
  BY <1>6 DEF CancelQueued, Cancellable
<1>7. CASE RecoverOrphanedItems
  BY <1>7 DEF RecoverOrphanedItems
<1>8. ASSUME NEW last \in Id, PurgeAnnouncements(last) PROVE RowsOK'
  BY <1>8 DEF PurgeAnnouncements, Purgeable, Terminal
<1> QED BY <1>1, <1>2, <1>3, <1>4, <1>5, <1>6, <1>7, <1>8 DEF TableEffect

(* The order of the queue survives every effect, putting back included: the *)
(* row put back is the only one that had been tried.                       *)
LEMMA NoOvertakingStep ==
  ASSUME TypeOK, RowsOK, ThreadOK, OnePlaying, NoOvertaking, TableEffect
  PROVE  NoOvertaking'
<1> USE DEF TypeOK, TableTypeOK, RowsOK, Present, Id
<1> SUFFICES ASSUME NEW i \in Id, NEW j \in Id, i < j,
                    state'[i] \in {"queued", "playing"}, Present(j)',
                    content'[i].priority >= content'[j].priority
             PROVE  state'[j] \in {"queued", "stopped"}
  BY DEF NoOvertaking
<1>0. state[i] \in {"queued", "playing"} /\ Present(j)
        /\ content[i].priority >= content[j].priority
      => state[j] \in {"queued", "stopped"}
  BY DEF NoOvertaking
<1>1. CASE UNCHANGED table
  BY <1>0, <1>1 DEF table
<1>2. ASSUME NEW c \in Content, Enqueue(c) PROVE state'[j] \in {"queued", "stopped"}
  BY <1>0, <1>2 DEF Enqueue
<1>3. ASSUME pc = "loop", NEW k \in Id, ClaimNext(k) PROVE state'[j] \in {"queued", "stopped"}
  <2>1. \A l \in Id : state[l] # "playing"
    BY <1>3, NullAssumption DEF OnePlaying, ThreadOK
  <2>2. state[k] = "queued" /\ state' = [state EXCEPT ![k] = "playing"] /\ content' = content
    BY <1>3 DEF ClaimNext, IsHead, Queued
  <2>3. CASE j = k
    <3>1. state[i] = "queued"
      BY <2>1, <2>2, <2>3
    <3>2. Ahead(j, i)
      BY <1>3, <2>3, <3>1 DEF ClaimNext, IsHead, Queued
    <3>3. content[i] \in Content /\ content[j] \in Content
      BY <2>2, <2>3, <3>1
    <3> QED BY <2>2, <3>2, <3>3 DEF Ahead, Content
  <2>4. CASE j # k
    BY <1>0, <2>2, <2>4
  <2> QED BY <2>3, <2>4
<1>4. CASE pc = "release" /\ ReleaseToQueue(item)
  BY <1>0, <1>4, ItemHeld DEF ReleaseToQueue
<1>5. ASSUME pc \in {"finish_stopped", "finish_done", "fail"},
             NEW s \in Given, NEW by \in Person \cup {Unknown, None}, Finish(item, s, by)
      PROVE  state'[j] \in {"queued", "stopped"}
  BY <1>0, <1>5, ItemHeld DEF Finish, Given
<1>6. ASSUME NEW k \in Id, NEW by \in Person, CancelQueued(k, by)
      PROVE  state'[j] \in {"queued", "stopped"}
  BY <1>0, <1>6 DEF CancelQueued, Cancellable
<1>7. CASE RecoverOrphanedItems
  BY <1>0, <1>7 DEF RecoverOrphanedItems
<1>8. ASSUME NEW last \in Id, PurgeAnnouncements(last)
      PROVE  state'[j] \in {"queued", "stopped"}
  BY <1>0, <1>8 DEF PurgeAnnouncements, Purgeable, Terminal
<1> QED BY <1>1, <1>2, <1>3, <1>4, <1>5, <1>6, <1>7, <1>8 DEF TableEffect

(* Every step but a claim puts no new row on the air.                      *)
LEMMA OnePlayingStep ==
  ASSUME TypeOK, ThreadOK, OnePlaying, TableEffect
  PROVE  \A i, j \in Id : state'[i] = "playing" /\ state'[j] = "playing" => i = j
<1> USE DEF TypeOK, TableTypeOK, OnePlaying
<1>1. CASE UNCHANGED table
  BY <1>1 DEF table
<1>2. ASSUME NEW c \in Content, Enqueue(c)
      PROVE  \A i \in Id : state'[i] = "playing" => state[i] = "playing"
  BY <1>2 DEF Enqueue
<1>3. ASSUME pc = "loop", NEW k \in Id, ClaimNext(k)
      PROVE  \A i \in Id : state'[i] = "playing" => i = k
  BY <1>3, NullAssumption DEF ClaimNext, ThreadOK, Id
<1>4. CASE pc = "release" /\ ReleaseToQueue(item)
  BY <1>4, ItemHeld DEF ReleaseToQueue
<1>5. ASSUME pc \in {"finish_stopped", "finish_done", "fail"},
             NEW s \in Given, NEW by \in Person \cup {Unknown, None}, Finish(item, s, by)
      PROVE  \A i \in Id : state'[i] = "playing" => state[i] = "playing"
  BY <1>5, ItemHeld DEF Finish, Given
<1>6. ASSUME NEW k \in Id, NEW by \in Person, CancelQueued(k, by)
      PROVE  \A i \in Id : state'[i] = "playing" => state[i] = "playing"
  BY <1>6 DEF CancelQueued
<1>7. CASE RecoverOrphanedItems
  BY <1>7 DEF RecoverOrphanedItems
<1>8. ASSUME NEW last \in Id, PurgeAnnouncements(last)
      PROVE  \A i \in Id : state'[i] = "playing" => state[i] = "playing"
  BY <1>8 DEF PurgeAnnouncements
<1> QED BY <1>1, <1>2, <1>3, <1>4, <1>5, <1>6, <1>7, <1>8 DEF TableEffect

----------------------------------------------------------------------------
(* The invariants of the thread, the stop flag and the askers, action by   *)
(* action.                                                                 *)

(* Everything outside the table keeps its type.                            *)
LEMMA TypeStep ==
  ASSUME TypeOK, ThreadOK, TableTypeOK', [Next]_vars
  PROVE  TypeOK'
<1>0. <<>> \in Seq(Part)
  OBVIOUS
<1> USE <1>0, BoundsAssumption, NullAssumption
     DEF TypeOK, Location, thread, stopping, health, device, process, web
<1>1. CASE UNCHANGED vars
  BY <1>1 DEF vars, table, thread, stopping, health, device, process, web
<1>2. CASE PlayerStep
  <2>1. ASSUME NEW i \in Id, Claim(i) PROVE TypeOK'
    BY <2>1 DEF Claim, ClaimNext, IsHead, Queued
  <2>2. CASE ExitLoop
    BY <2>2 DEF ExitLoop
  <2>3. CASE Begin
    BY <2>3, PartsType DEF Begin
  <2>4. CASE Synthesize \/ OpenSession \/ OpenFails
    BY <2>4 DEF Synthesize, OpenSession, OpenFails
  <2>5. CASE PlayPart
    BY <2>5, HeadTailProperties DEF PlayPart, ThreadOK
  <2>6. CASE PlayStopped \/ PlayUnavailable \/ PlayRaises \/ PlayCompleted
    BY <2>6 DEF PlayStopped, PlayUnavailable, PlayRaises, PlayCompleted
  <2>7. CASE FinishStopped \/ FinishDone \/ FinishFailed
    BY <2>7 DEF FinishStopped, FinishDone, FinishFailed, Finish
  <2>8. CASE RecordSpeechRate \/ Backoff
    BY <2>8 DEF RecordSpeechRate, Backoff
  <2>9. CASE Release
    BY <2>9 DEF Release, ReleaseToQueue
  <2>10. CASE Cleanup
    BY <2>10 DEF Cleanup
  <2> QED BY <1>2, <2>1, <2>2, <2>3, <2>4, <2>5, <2>6, <2>7, <2>8, <2>9, <2>10 DEF PlayerStep
<1>3. CASE PlayerFault
  BY <1>3 DEF PlayerFault, SynthesizeFails, WriteRaisesInBody, WriteRaisesInHandler
<1>4. CASE WebStep
  <2>1. ASSUME NEW p \in Person, NEW k, NEW u, NEW c,
               Announce(p, k, u) \/ TestAudio(p) \/ PlaySound(p, c)
        PROVE  TypeOK'
    BY <2>1 DEF Announce, TestAudio, PlaySound, Enqueue
  <2>2. ASSUME NEW p \in Person, NEW i \in Id, StopRead(p, i) PROVE TypeOK'
    BY <2>2 DEF StopRead
  <2>3. ASSUME NEW p \in Person, StopPlaying(p) PROVE TypeOK'
    <3>1. req' \in [Person -> [id : Id \cup {None}, seen : {"none", "queued", "playing"}]]
      BY <2>3 DEF StopPlaying, NoRequest
    <3>2. CASE StopsCurrent(req[p].id)
      <4>1. cur \in Id /\ asked' = [asked EXCEPT ![cur] = asked[cur] \cup {p}]
        BY <2>3, <3>2 DEF StopPlaying, StopsCurrent, Tell
      <4>2. asked' \in [Id -> SUBSET Person]
        BY <4>1
      <4> QED BY <2>3, <3>1, <3>2, <4>2 DEF StopPlaying
    <3>3. CASE ~StopsCurrent(req[p].id)
      BY <2>3, <3>1, <3>3 DEF StopPlaying
    <3> QED BY <3>2, <3>3
  <2>4. ASSUME NEW p \in Person, StopQueued(p) PROVE TypeOK'
    BY <2>4 DEF StopQueued, CancelQueued, Cancellable, Tell, NoRequest
  <2>5. ASSUME NEW p \in Person, StopCurrent(p) PROVE TypeOK'
    BY <2>5 DEF StopCurrent, Tell
  <2>6. ASSUME NEW c \in Clip, DeleteSound(c) PROVE TypeOK'
    BY <2>6 DEF DeleteSound
  <2>7. ASSUME NEW last \in Id, Purge(last) PROVE TypeOK'
    BY <2>7 DEF Purge, PurgeAnnouncements, Purgeable
  <2> QED BY <1>4, <2>1, <2>2, <2>3, <2>4, <2>5, <2>6, <2>7 DEF WebStep
<1>5. CASE TimerStep
  BY <1>5 DEF TimerStep, ScheduleDue, SpeakAddress, Enqueue
<1>6. CASE EnvironmentStep
  <2>1. CASE Start
    BY <2>1 DEF Start, RecoverOrphanedItems
  <2>2. CASE Shutdown
    BY <2>2 DEF Shutdown
  <2>3. CASE Exit \/ Crash
    <3>1. ProcessEnds /\ restarts' \in 0 .. MaxRestarts
      BY <2>3 DEF Exit, Crash
    <3>2. req' \in [Person -> [id : Id \cup {None}, seen : {"none", "queued", "playing"}]]
      BY <3>1 DEF ProcessEnds, NoRequest
    <3> QED BY <3>1, <3>2 DEF ProcessEnds
  <2>4. CASE Unplug \/ Replug
    <3>1. unplugs' \in 0 .. MaxUnplugs
      BY <2>4 DEF Unplug, Replug
    <3> QED BY <2>4, <3>1 DEF Unplug, Replug
  <2> QED BY <1>6, <2>1, <2>2, <2>3, <2>4 DEF EnvironmentStep
<1> QED BY <1>1, <1>2, <1>3, <1>4, <1>5, <1>6 DEF Next

(* Where the thread is determines what its row looks like, and a row on the *)
(* air is the thread's or an orphan; this is where one action of another   *)
(* thread could pull the row from under the player.                        *)
LEMMA ThreadStep ==
  ASSUME TypeOK, ThreadOK, OnePlaying, RowsOK, TableTypeOK', AskersOK, [Next]_vars
  PROVE  ThreadOK' /\ \A i \in Id : state'[i] = "playing" => item' = i \/ pc' \in {"off", "dead"}
<1> DEFINE Goal == /\ ThreadOK'
                   /\ \A i \in Id : state'[i] = "playing" => item' = i \/ pc' \in {"off", "dead"}
<1> USE NullAssumption DEF TypeOK, TableTypeOK, ThreadOK, Held, OnePlaying, RowsOK, Id, Terminal,
        thread, stopping, health, device, process, web, table
<1>1. CASE UNCHANGED vars
  BY <1>1 DEF vars, table, thread, stopping, health, device, process, web
<1>2. CASE PlayerStep
  <2>1. ASSUME NEW i \in Id, Claim(i) PROVE Goal
    BY <2>1 DEF Claim, ClaimNext, IsHead, Queued
  <2>2. CASE ExitLoop
    BY <2>2 DEF ExitLoop
  <2>3. CASE Begin
    BY <2>3, PartsType DEF Begin
  <2>4. CASE Synthesize \/ OpenSession \/ OpenFails
    BY <2>4 DEF Synthesize, OpenSession, OpenFails
  <2>5. CASE PlayPart
    BY <2>5, HeadTailProperties DEF PlayPart
  <2>6. CASE PlayStopped \/ PlayUnavailable \/ PlayRaises \/ PlayCompleted
    BY <2>6 DEF PlayStopped, PlayUnavailable, PlayRaises, PlayCompleted
  <2>7. CASE FinishStopped \/ FinishDone \/ FinishFailed
    BY <2>7 DEF FinishStopped, FinishDone, FinishFailed, Finish, Present
  <2>8. CASE RecordSpeechRate \/ Backoff
    BY <2>8 DEF RecordSpeechRate, Backoff
  <2>9. CASE Release
    BY <2>9 DEF Release, ReleaseToQueue, Present
  <2>10. CASE Cleanup
    BY <2>10 DEF Cleanup
  <2> QED BY <1>2, <2>1, <2>2, <2>3, <2>4, <2>5, <2>6, <2>7, <2>8, <2>9, <2>10 DEF PlayerStep
<1>3. CASE PlayerFault
  BY <1>3 DEF PlayerFault, SynthesizeFails, WriteRaisesInBody, WriteRaisesInHandler
<1>4. CASE WebStep
  <2>1. ASSUME NEW p \in Person, NEW k, NEW u, NEW c,
               Announce(p, k, u) \/ TestAudio(p) \/ PlaySound(p, c)
        PROVE  Goal
    <3>1. PICK r : Enqueue(r) /\ UNCHANGED <<thread, process>>
      BY <2>1 DEF Announce, TestAudio, PlaySound
    <3> QED BY <3>1 DEF Enqueue
  <2>2. ASSUME NEW p \in Person, NEW i \in Id, StopRead(p, i) PROVE Goal
    BY <2>2 DEF StopRead
  <2>3. ASSUME NEW p \in Person, StopPlaying(p) PROVE Goal
    BY <2>3 DEF StopPlaying, StopsCurrent, Tell, NoRequest
  <2>4. ASSUME NEW p \in Person, StopQueued(p) PROVE Goal
    BY <2>4 DEF StopQueued, CancelQueued, Cancellable, Tell, NoRequest
  <2>5. ASSUME NEW p \in Person, StopCurrent(p) PROVE Goal
    BY <2>5 DEF StopCurrent, Tell
  <2>6. ASSUME NEW c \in Clip, DeleteSound(c) PROVE Goal
    BY <2>6 DEF DeleteSound
  <2>7. ASSUME NEW last \in Id, Purge(last) PROVE Goal
    BY <2>7 DEF Purge, PurgeAnnouncements, Purgeable
  <2> QED BY <1>4, <2>1, <2>2, <2>3, <2>4, <2>5, <2>6, <2>7 DEF WebStep
<1>5. CASE TimerStep
  BY <1>5 DEF TimerStep, ScheduleDue, SpeakAddress, Enqueue
<1>6. CASE EnvironmentStep
  <2>1. CASE Start
    BY <2>1 DEF Start, RecoverOrphanedItems
  <2>2. CASE Shutdown
    BY <2>2 DEF Shutdown
  <2>3. CASE Exit \/ Crash
    BY <2>3 DEF Exit, Crash, ProcessEnds, NoRequest
  <2>4. CASE Unplug \/ Replug
    BY <2>4 DEF Unplug, Replug
  <2> QED BY <1>6, <2>1, <2>2, <2>3, <2>4 DEF EnvironmentStep
<1> QED BY <1>1, <1>2, <1>3, <1>4, <1>5, <1>6 DEF Next

(* The stop flag speaks of the row being attempted: Begin clears it before *)
(* anybody can stop that row, and Cleanup withdraws the row.               *)
LEMMA StopStep ==
  ASSUME TypeOK, ThreadOK, StopOK, [Next]_vars
  PROVE  StopOK'
<1> USE NullAssumption DEF TypeOK, ThreadOK, StopOK, Held,
        thread, stopping, health, device, process, web
<1>1. CASE UNCHANGED vars
  BY <1>1 DEF vars, table, thread, stopping, health, device, process, web
<1>2. CASE PlayerStep
  <2>1. ASSUME NEW i \in Id, Claim(i) PROVE StopOK'
    BY <2>1 DEF Claim, ClaimNext, IsHead, Queued
  <2>2. CASE ExitLoop
    BY <2>2 DEF ExitLoop
  <2>3. CASE Begin
    BY <2>3, PartsType DEF Begin
  <2>4. CASE Synthesize \/ OpenSession \/ OpenFails
    BY <2>4 DEF Synthesize, OpenSession, OpenFails
  <2>5. CASE PlayPart
    BY <2>5, HeadTailProperties DEF PlayPart
  <2>6. CASE PlayStopped \/ PlayUnavailable \/ PlayRaises \/ PlayCompleted
    BY <2>6 DEF PlayStopped, PlayUnavailable, PlayRaises, PlayCompleted
  <2>7. CASE FinishStopped \/ FinishDone \/ FinishFailed
    BY <2>7 DEF FinishStopped, FinishDone, FinishFailed, Finish
  <2>8. CASE RecordSpeechRate \/ Backoff
    BY <2>8 DEF RecordSpeechRate, Backoff
  <2>9. CASE Release
    BY <2>9 DEF Release, ReleaseToQueue
  <2>10. CASE Cleanup
    BY <2>10 DEF Cleanup
  <2> QED BY <1>2, <2>1, <2>2, <2>3, <2>4, <2>5, <2>6, <2>7, <2>8, <2>9, <2>10 DEF PlayerStep
<1>3. CASE PlayerFault
  BY <1>3 DEF PlayerFault, SynthesizeFails, WriteRaisesInBody, WriteRaisesInHandler
<1>4. CASE WebStep
  <2>1. ASSUME NEW p \in Person, NEW k, NEW u, NEW c,
               Announce(p, k, u) \/ TestAudio(p) \/ PlaySound(p, c)
        PROVE  StopOK'
    BY <2>1 DEF Announce, TestAudio, PlaySound, Enqueue
  <2>2. ASSUME NEW p \in Person, NEW i \in Id, StopRead(p, i) PROVE StopOK'
    BY <2>2 DEF StopRead
  <2>3. ASSUME NEW p \in Person, StopPlaying(p) PROVE StopOK'
    BY <2>3 DEF StopPlaying, StopsCurrent, Tell, NoRequest
  <2>4. ASSUME NEW p \in Person, StopQueued(p) PROVE StopOK'
    <3>1. \A i \in Id : asked[i] \subseteq asked'[i]
      BY <2>4 DEF StopQueued, Tell
    <3> QED BY <2>4, <3>1 DEF StopQueued
  <2>5. ASSUME NEW p \in Person, StopCurrent(p) PROVE StopOK'
    BY <2>5 DEF StopCurrent, Tell
  <2>6. ASSUME NEW c \in Clip, DeleteSound(c) PROVE StopOK'
    BY <2>6 DEF DeleteSound
  <2>7. ASSUME NEW last \in Id, Purge(last) PROVE StopOK'
    BY <2>7 DEF Purge, PurgeAnnouncements, Purgeable
  <2> QED BY <1>4, <2>1, <2>2, <2>3, <2>4, <2>5, <2>6, <2>7 DEF WebStep
<1>5. CASE TimerStep
  BY <1>5 DEF TimerStep, ScheduleDue, SpeakAddress, Enqueue
<1>6. CASE EnvironmentStep
  <2>1. CASE Start
    BY <2>1 DEF Start, RecoverOrphanedItems
  <2>2. CASE Shutdown
    BY <2>2 DEF Shutdown
  <2>3. CASE Exit \/ Crash
    BY <2>3 DEF Exit, Crash, ProcessEnds, NoRequest
  <2>4. CASE Unplug \/ Replug
    BY <2>4 DEF Unplug, Replug
  <2> QED BY <1>6, <2>1, <2>2, <2>3, <2>4 DEF EnvironmentStep
<1> QED BY <1>1, <1>2, <1>3, <1>4, <1>5, <1>6 DEF Next

(* A row that is in the table after a step was there before it, with the   *)
(* same content, or is new; and an id that was handed out stays so.        *)
Kept ==
  \A i \in Id :
    /\ Present(i)' => state[i] = "none" \/ (Present(i) /\ content'[i] = content[i])
    /\ state[i] # "none" => state'[i] # "none"

(* No effect changes the content of a row that stays in the table.         *)
LEMMA RowsKept ==
  ASSUME TypeOK, RowsOK, ThreadOK, TableEffect
  PROVE  Kept
<1> USE DEF Kept, TypeOK, TableTypeOK, RowsOK, Present
<1>1. CASE UNCHANGED table
  BY <1>1 DEF table
<1>2. ASSUME NEW c \in Content, Enqueue(c) PROVE Kept
  BY <1>2 DEF Enqueue, Id
<1>3. ASSUME NEW k \in Id, ClaimNext(k) PROVE Kept
  BY <1>3 DEF ClaimNext, IsHead, Queued
<1>4. CASE pc = "release" /\ ReleaseToQueue(item)
  BY <1>4, ItemHeld DEF ReleaseToQueue
<1>5. ASSUME NEW s \in Given, NEW by \in Person \cup {Unknown, None}, Finish(item, s, by),
             pc \in {"finish_stopped", "finish_done", "fail"}
      PROVE  Kept
  BY <1>5, ItemHeld DEF Finish, Given
<1>6. ASSUME NEW k \in Id, NEW by \in Person, CancelQueued(k, by) PROVE Kept
  BY <1>6 DEF CancelQueued, Cancellable
<1>7. CASE RecoverOrphanedItems
  BY <1>7 DEF RecoverOrphanedItems
<1>8. ASSUME NEW last \in Id, PurgeAnnouncements(last) PROVE Kept
  BY <1>8 DEF PurgeAnnouncements, Purgeable, Terminal
<1> QED BY <1>1, <1>2, <1>3, <1>4, <1>5, <1>6, <1>7, <1>8 DEF TableEffect

(* Only these steps touch the requests and the answers given.              *)
WebQuiet == asked' = asked /\ (req' = req \/ req' = [p \in Person |-> NoRequest])

(* Only the stop handlers make or answer a request.                        *)
LEMMA WebEffect ==
  ASSUME [Next]_vars
  PROVE  \/ WebQuiet
         \/ \E p \in Person : \/ \E i \in Id : StopRead(p, i)
                             \/ StopPlaying(p) \/ StopQueued(p) \/ StopCurrent(p)
<1> USE DEF WebQuiet, web
<1>1. CASE UNCHANGED vars
  BY <1>1 DEF vars
<1>2. CASE PlayerStep
  <2>1. CASE (\E i \in Id : Claim(i)) \/ ExitLoop \/ Begin \/ Synthesize \/ OpenSession \/ OpenFails
    BY <2>1 DEF Claim, ExitLoop, Begin, Synthesize, OpenSession, OpenFails
  <2>2. CASE PlayPart \/ PlayStopped \/ PlayUnavailable \/ PlayRaises \/ PlayCompleted
    BY <2>2 DEF PlayPart, PlayStopped, PlayUnavailable, PlayRaises, PlayCompleted
  <2>3. CASE FinishStopped \/ FinishDone \/ FinishFailed \/ RecordSpeechRate
    BY <2>3 DEF FinishStopped, FinishDone, FinishFailed, RecordSpeechRate
  <2>4. CASE Release \/ Backoff \/ Cleanup
    BY <2>4 DEF Release, Backoff, Cleanup
  <2> QED BY <1>2, <2>1, <2>2, <2>3, <2>4 DEF PlayerStep
<1>3. CASE PlayerFault
  BY <1>3 DEF PlayerFault, SynthesizeFails, WriteRaisesInBody, WriteRaisesInHandler
<1>4. CASE WebStep
  BY <1>4 DEF WebStep, Announce, TestAudio, PlaySound, DeleteSound, Purge
<1>5. CASE TimerStep
  BY <1>5 DEF TimerStep, ScheduleDue, SpeakAddress
<1>6. CASE EnvironmentStep
  BY <1>6 DEF EnvironmentStep, Start, Shutdown, Exit, Crash, ProcessEnds, Unplug, Replug
<1> QED BY <1>1, <1>2, <1>3, <1>4, <1>5, <1>6 DEF Next

(* Whoever has been served or answered had the right to stop that row.     *)
LEMMA AskersStep ==
  ASSUME TypeOK, RowsOK, ThreadOK, StopOK, AskersOK, TableEffect, [Next]_vars
  PROVE  AskersOK'
<1> USE DEF TypeOK, AskersOK, RequestsOK, AnswersOK, Present, Kept
<1>0. Kept
  BY RowsKept
<1>1. CASE WebQuiet
  <2>1. RequestsOK'
    <3> SUFFICES ASSUME NEW p \in Person, (req[p] # NoRequest)'
                 PROVE  (/\ req[p].id # None /\ state[req[p].id] # "none"
                         /\ Present(req[p].id) => MayStop(p, req[p].id))'
      BY DEF RequestsOK
    <3>1. req'[p] = req[p] /\ req[p] # NoRequest /\ req[p].id \in Id
      BY <1>1 DEF WebQuiet
    <3>2. PICK j \in Id : j = req[p].id
      BY <3>1
    <3>3. j # None /\ state[j] # "none" /\ (Present(j) => MayStop(p, j))
      BY <3>1, <3>2
    <3>4. Present(j)' => Present(j) /\ content'[j] = content[j]
      BY <1>0, <3>3
    <3>5. state'[j] # "none" /\ (Present(j)' => MayStop(p, j)')
      BY <1>0, <3>3, <3>4 DEF MayStop
    <3> QED BY <3>1, <3>2, <3>3, <3>5
  <2>2. AnswersOK'
    <3> SUFFICES ASSUME NEW i \in Id
                 PROVE  (/\ state[i] = "none" => asked[i] = {}
                         /\ Present(i) => \A x \in asked[i] : MayStop(x, i))'
      BY DEF AnswersOK
    <3>1. state'[i] = "none" => state[i] = "none"
      BY <1>0
    <3>2. Present(i)' => (Present(i) /\ content'[i] = content[i]) \/ asked[i] = {}
      BY <1>0
    <3>3. asked'[i] = asked[i]
      BY <1>1 DEF WebQuiet
    <3> QED BY <3>1, <3>2, <3>3 DEF MayStop
  <2> QED BY <2>1, <2>2
<1>2. ASSUME NEW p \in Person, NEW i \in Id, StopRead(p, i) PROVE AskersOK'
  BY <1>2, NullAssumption DEF StopRead, NoRequest, MayStop, Present, table, Id
<1>3. ASSUME NEW p \in Person, StopPlaying(p) \/ StopQueued(p) PROVE AskersOK'
  <2>1. req[p].id \in Id /\ req[p] # NoRequest /\ state[req[p].id] # "none"
    BY <1>3 DEF StopPlaying, StopQueued, NoRequest
  <2>2. req' = [req EXCEPT ![p] = NoRequest]
    BY <1>3 DEF StopPlaying, StopQueued
  <2>3. asked' = asked \/ asked' = [asked EXCEPT ![req[p].id] = asked[req[p].id] \cup {p}]
    BY <1>3 DEF StopPlaying, StopQueued, Tell
  <2>4. RequestsOK'
    <3> SUFFICES ASSUME NEW x \in Person, (req[x] # NoRequest)'
                 PROVE  (/\ req[x].id # None /\ state[req[x].id] # "none"
                         /\ Present(req[x].id) => MayStop(x, req[x].id))'
      BY DEF RequestsOK
    <3>1. req'[x] = req[x] /\ req[x] # NoRequest /\ req[x].id \in Id
      BY <2>2
    <3>2. PICK j \in Id : j = req[x].id
      BY <3>1
    <3>3. j # None /\ state[j] # "none" /\ (Present(j) => MayStop(x, j))
      BY <3>1, <3>2
    <3>4. Present(j)' => Present(j) /\ content'[j] = content[j]
      BY <1>0, <3>3
    <3>5. state'[j] # "none" /\ (Present(j)' => MayStop(x, j)')
      BY <1>0, <3>3, <3>4 DEF MayStop
    <3> QED BY <3>1, <3>2, <3>3, <3>5
  <2>5. AnswersOK'
    <3> SUFFICES ASSUME NEW i \in Id
                 PROVE  (/\ state[i] = "none" => asked[i] = {}
                         /\ Present(i) => \A x \in asked[i] : MayStop(x, i))'
      BY DEF AnswersOK
    <3>1. asked'[i] = asked[i] \/ (i = req[p].id /\ asked'[i] = asked[i] \cup {p})
      BY <2>1, <2>3
    <3>2. state'[i] = "none" => state[i] = "none" /\ i # req[p].id
      BY <1>0, <2>1
    <3>3. Present(i)' => state[i] = "none" \/ (Present(i) /\ content'[i] = content[i])
      BY <1>0
    <3>6. state[i] = "none" => asked[i] = {} /\ i # req[p].id
      BY <2>1
    <3>4. i = req[p].id /\ Present(i) => MayStop(p, i)
      BY <2>1
    <3> QED BY <3>1, <3>2, <3>3, <3>4, <3>6 DEF MayStop
  <2> QED BY <2>4, <2>5
<1>4. ASSUME NEW p \in Person, StopCurrent(p) PROVE AskersOK'
  <2>1. cur \in Id /\ state[cur] # "none" /\ p \in Admin
    BY <1>4 DEF StopCurrent, StopOK, ThreadOK
  <2>2. /\ req' = req /\ state' = state /\ content' = content
        /\ asked' = [asked EXCEPT ![cur] = asked[cur] \cup {p}]
    BY <1>4 DEF StopCurrent, Tell, table
  <2>3. RequestsOK'
    BY <2>2 DEF MayStop, Present
  <2>4. AnswersOK'
    BY <2>1, <2>2 DEF MayStop, Present
  <2> QED BY <2>3, <2>4
<1> QED BY <1>1, <1>2, <1>3, <1>4, WebEffect

(* A row becomes stopped when its attempt ends so, or is cancelled.        *)
LEMMA OwnerStep ==
  ASSUME TypeOK, RowsOK, ThreadOK, StopOK, AskersOK, OnlyOwnerOrAdminStops, [Next]_vars
  PROVE  OnlyOwnerOrAdminStops'
<1> USE DEF TypeOK, TableTypeOK, OnlyOwnerOrAdminStops
<1> DEFINE Same == \A i \in Id : state'[i] = "stopped" =>
                     /\ state[i] = "stopped"
                     /\ stoppedBy'[i] = stoppedBy[i]
                     /\ content'[i] = content[i]
<1>0. Same => OnlyOwnerOrAdminStops'
  OBVIOUS
<1>1. CASE UNCHANGED table
  BY <1>1 DEF table
<1>2. ASSUME NEW c \in Content, Enqueue(c) PROVE Same
  BY <1>2 DEF Enqueue
<1>3. ASSUME NEW k \in Id, ClaimNext(k) PROVE Same
  BY <1>3 DEF ClaimNext
<1>4. CASE pc = "release" /\ ReleaseToQueue(item)
  BY <1>4, ItemHeld DEF ReleaseToQueue
<1>5. ASSUME NEW s \in Given \ {"stopped"}, NEW by, Finish(item, s, by),
             pc \in {"finish_stopped", "finish_done", "fail"}
      PROVE  Same
  BY <1>5, ItemHeld DEF Finish, Given
<1>6. CASE FinishStopped
  <2>1. /\ item \in Id /\ state[item] = "playing" /\ cur = item
        /\ stopBy # None => stopBy \in asked[item]
    BY <1>6, ItemHeld DEF FinishStopped, StopOK, Held
  <2>2. StoppedName \in Admin \cup {content[item].owner, Unknown}
    BY <2>1 DEF StoppedName, AskersOK, AnswersOK, MayStop, Present
  <2>3. /\ state' = [state EXCEPT ![item] = "stopped"]
        /\ stoppedBy' = [stoppedBy EXCEPT ![item] = StoppedName]
        /\ content' = content
    BY <1>6, <2>1 DEF FinishStopped, Finish, Present
  <2> QED BY <2>1, <2>2, <2>3
<1>7. ASSUME NEW p \in Person, CancelQueued(req[p].id, p), StopQueued(p)
      PROVE  OnlyOwnerOrAdminStops'
  <2>1. req[p].id \in Id /\ state[req[p].id] = "queued" /\ MayStop(p, req[p].id)
    BY <1>7 DEF StopQueued, CancelQueued, Cancellable, AskersOK, RequestsOK, NoRequest, Present
  <2> QED BY <1>7, <2>1 DEF CancelQueued, MayStop
<1>8. CASE RecoverOrphanedItems
  BY <1>8 DEF RecoverOrphanedItems
<1>9. ASSUME NEW last \in Id, PurgeAnnouncements(last) PROVE Same
  BY <1>9 DEF PurgeAnnouncements, Purgeable, Terminal
<1>10. TableEffect
  BY EffectOfStep
<1> QED BY <1>0, <1>1, <1>2, <1>3, <1>4, <1>5, <1>6, <1>7, <1>8, <1>9, <1>10 DEF TableEffect

----------------------------------------------------------------------------
(* The theorems.                                                           *)

(* The inductive invariant holds at the start.                             *)
LEMMA InvInit == Init => Inv
<1> SUFFICES ASSUME Init PROVE Inv
  OBVIOUS
<1> USE RowsAssumption, BoundsAssumption, NullAssumption DEF Init, TableInit
<1>1. TypeOK
  <2>1. TableTypeOK
    BY DEF TableTypeOK, RowState, Id
  <2>2. parts \in Seq(Part)
    OBVIOUS
  <2>3. NoRequest \in [id : Id \cup {None}, seen : {"none", "queued", "playing"}]
    BY DEF NoRequest
  <2>4. req \in [Person -> [id : Id \cup {None}, seen : {"none", "queued", "playing"}]]
    BY <2>3
  <2>5. 0 \in 0 .. MaxUnplugs /\ 0 \in 0 .. MaxRestarts
    OBVIOUS
  <2>6. asked \in [Id -> SUBSET Person]
    OBVIOUS
  <2> QED BY <2>1, <2>2, <2>4, <2>5, <2>6 DEF TypeOK, Location
<1>2. RowsOK /\ ThreadOK /\ StopOK
  BY DEF RowsOK, ThreadOK, StopOK, Held, Present, Id
<1>3. AskersOK
  BY DEF AskersOK, RequestsOK, AnswersOK, Present
<1>4. OnePlaying /\ NoOvertaking /\ OnlyOwnerOrAdminStops
  BY DEF OnePlaying, NoOvertaking, OnlyOwnerOrAdminStops
<1> QED BY <1>1, <1>2, <1>3, <1>4 DEF Inv

(* Every step keeps it.                                                    *)
LEMMA InvStep == Inv /\ [Next]_vars => Inv'
<1> SUFFICES ASSUME Inv, [Next]_vars PROVE Inv'
  OBVIOUS
<1>0. /\ TypeOK /\ RowsOK /\ ThreadOK /\ StopOK /\ AskersOK
      /\ OnePlaying /\ NoOvertaking /\ OnlyOwnerOrAdminStops
  BY DEF Inv
<1>1. TableEffect
  BY <1>0, EffectOfStep
<1>2. TypeOK'
  BY <1>0, <1>1, TableTypeStep, TypeStep
<1>3. RowsOK'
  BY <1>0, <1>1, RowsStep
<1>4. ThreadOK' /\ OnePlaying'
  <2>1. \A i, j \in Id : state'[i] = "playing" /\ state'[j] = "playing" => i = j
    BY <1>0, <1>1, OnePlayingStep
  <2>2. ThreadOK' /\ \A i \in Id : state'[i] = "playing" => item' = i \/ pc' \in {"off", "dead"}
    BY <1>0, <1>1, TableTypeStep, ThreadStep
  <2> QED BY <2>1, <2>2 DEF OnePlaying
<1>5. StopOK'
  BY <1>0, StopStep
<1>6. AskersOK'
  BY <1>0, <1>1, AskersStep
<1>7. NoOvertaking'
  BY <1>0, <1>1, NoOvertakingStep
<1>8. OnlyOwnerOrAdminStops'
  BY <1>0, OwnerStep
<1> QED BY <1>2, <1>3, <1>4, <1>5, <1>6, <1>7, <1>8 DEF Inv

(* The inductive invariant holds of every behaviour of the announcer.      *)
THEOREM Invariance == Spec => []Inv
BY InvInit, InvStep, PTL DEF Spec

(* Every variable keeps its type.                                          *)
THEOREM TypeCorrect == Spec => []TypeOK
<1>1. Inv => TypeOK
  BY DEF Inv
<1> QED BY <1>1, Invariance, PTL

(* Never two announcements on the air: at most one row is playing, and it  *)
(* is the one the player thread holds.                                     *)
THEOREM SinglePlayback == Spec => []OnePlaying
<1>1. Inv => OnePlaying
  BY DEF Inv
<1> QED BY <1>1, Invariance, PTL

(* Nothing overtakes a waiting announcement, whatever is put back after a  *)
(* device failure and however often the process restarts.                  *)
THEOREM FirstComeFirstServed == Spec => []NoOvertaking
<1>1. Inv => NoOvertaking
  BY DEF Inv
<1> QED BY <1>1, Invariance, PTL

(* A stopped row carries the name of its owner or of an administrator, or  *)
(* was cut by a shutdown, for every number of people clicking at once.     *)
THEOREM StopAuthority == Spec => []OnlyOwnerOrAdminStops
<1>1. Inv => OnlyOwnerOrAdminStops
  BY DEF Inv
<1> QED BY <1>1, Invariance, PTL

(* What is over is never played again.                                     *)
THEOREM NeverReplayed == Spec => NoReplay
<1> DEFINE A == \A i \in Id : state[i] \in Terminal \cup {"purged"}
                   => state'[i] \in Terminal \cup {"purged"}
<1>1. Inv /\ [Next]_vars => [A]_vars
  <2> SUFFICES ASSUME Inv, [Next]_vars PROVE A
    OBVIOUS
  <2>0. TypeOK /\ ThreadOK /\ RowsOK /\ TableEffect
    BY EffectOfStep DEF Inv
  <2> USE <2>0 DEF TypeOK, TableTypeOK, Terminal
  <2>1. CASE UNCHANGED table
    BY <2>1 DEF table
  <2>2. ASSUME NEW c \in Content, Enqueue(c) PROVE A
    BY <2>2 DEF Enqueue, RowsOK, Id
  <2>3. ASSUME NEW k \in Id, ClaimNext(k) PROVE A
    BY <2>3 DEF ClaimNext, IsHead, Queued
  <2>4. CASE pc = "release" /\ ReleaseToQueue(item)
    BY <2>4, ItemHeld DEF ReleaseToQueue
  <2>5. ASSUME NEW s \in Given, NEW by, Finish(item, s, by) PROVE A
    BY <2>5 DEF Finish, Given
  <2>6. ASSUME NEW k \in Id, NEW by, CancelQueued(k, by) PROVE A
    BY <2>6 DEF CancelQueued
  <2>7. CASE RecoverOrphanedItems
    BY <2>7 DEF RecoverOrphanedItems
  <2>8. ASSUME NEW last \in Id, PurgeAnnouncements(last) PROVE A
    BY <2>8 DEF PurgeAnnouncements
  <2> QED BY <2>1, <2>2, <2>3, <2>4, <2>5, <2>6, <2>7, <2>8 DEF TableEffect
<1> QED BY <1>1, Invariance, PTL DEF Spec, NoReplay

(* A row becomes stopped only under the name of somebody who was told that *)
(* it is, or at a shutdown.                                                *)
THEOREM StopsAreAttributed == Spec => StopIsAttributed
<1> DEFINE A == \A i \in Id : state[i] # "stopped" /\ state'[i] = "stopped"
                   => \/ stoppedBy'[i] \in asked'[i]
                      \/ stoppedBy'[i] = Unknown /\ shutdown
<1>1. Inv /\ [Next]_vars => [A]_vars
  <2> SUFFICES ASSUME Inv, [Next]_vars PROVE A
    OBVIOUS
  <2>0. TypeOK /\ ThreadOK /\ StopOK /\ AskersOK /\ TableEffect
    BY EffectOfStep DEF Inv
  <2> USE <2>0 DEF TypeOK, TableTypeOK
  <2>1. CASE UNCHANGED table
    BY <2>1 DEF table
  <2>2. ASSUME NEW c \in Content, Enqueue(c) PROVE A
    BY <2>2 DEF Enqueue
  <2>3. ASSUME NEW k \in Id, ClaimNext(k) PROVE A
    BY <2>3 DEF ClaimNext
  <2>4. CASE pc = "release" /\ ReleaseToQueue(item)
    BY <2>4, ItemHeld DEF ReleaseToQueue
  <2>5. ASSUME NEW s \in Given \ {"stopped"}, NEW by, Finish(item, s, by) PROVE A
    BY <2>5 DEF Finish, Given
  <2>6. CASE FinishStopped
    <3>1. /\ item \in Id /\ state[item] = "playing" /\ cur = item
          /\ stopBy # None => stopBy \in asked[item]
          /\ stopBy = None => shutdown
      BY <2>6, ItemHeld DEF FinishStopped, StopOK, Held
    <3>2. /\ state' = [state EXCEPT ![item] = "stopped"]
          /\ stoppedBy' = [stoppedBy EXCEPT ![item] = StoppedName]
          /\ asked' = asked
      BY <2>6, <3>1 DEF FinishStopped, Finish, Present, web
    <3> QED BY <3>1, <3>2 DEF StoppedName
  <2>7. ASSUME NEW p \in Person, CancelQueued(req[p].id, p), StopQueued(p) PROVE A
    <3>1. req[p].id \in Id
      BY <2>7 DEF StopQueued, AskersOK, RequestsOK, NoRequest
    <3>2. asked' = [asked EXCEPT ![req[p].id] = asked[req[p].id] \cup {p}]
      BY <2>7 DEF StopQueued, Tell, CancelQueued, Cancellable
    <3> QED BY <2>7, <3>1, <3>2 DEF CancelQueued
  <2>8. CASE RecoverOrphanedItems
    BY <2>8 DEF RecoverOrphanedItems
  <2>9. ASSUME NEW last \in Id, PurgeAnnouncements(last) PROVE A
    BY <2>9 DEF PurgeAnnouncements
  <2> QED BY <2>1, <2>2, <2>3, <2>4, <2>5, <2>6, <2>7, <2>8, <2>9 DEF TableEffect
<1> QED BY <1>1, Invariance, PTL DEF Spec, StopIsAttributed

----------------------------------------------------------------------------
(* The refinement of Lifecycle.                                            *)

(* A row's state determines its phase, and only some states share one.     *)
LEMMA PhaseOfState ==
  ASSUME NEW s \in RowState
  PROVE  /\ PhaseOf(s) = "new" <=> s = "none"
         /\ PhaseOf(s) = "waiting" <=> s = "queued"
         /\ PhaseOf(s) = "on_air" <=> s = "playing"
         /\ PhaseOf(s) = "over" <=> s \in Terminal
         /\ PhaseOf(s) = "gone" <=> s = "purged"
BY DEF PhaseOf, RowState, Terminal

(* Giving one row another state, and leaving its content, is giving one    *)
(* item another phase.                                                     *)
LEMMA OneRowMoves ==
  ASSUME TypeOK, NEW k \in Id, NEW s, state' = [state EXCEPT ![k] = s], content' = content
  PROVE  /\ Phases' = [Phases EXCEPT ![k] = PhaseOf(s)]
         /\ Urgent' = Urgent
BY DEF Phases, Urgent, TypeOK, TableTypeOK

(* Every effect on the table is a step of Lifecycle, or none.              *)
LEMMA PromiseStep ==
  ASSUME Inv, [Next]_vars
  PROVE  Promised!Next \/ UNCHANGED <<Phases, Urgent>>
<1> DEFINE Goal == Promised!Next \/ UNCHANGED <<Phases, Urgent>>
<1>0. TypeOK /\ ThreadOK /\ RowsOK /\ OnePlaying /\ TableEffect
  BY EffectOfStep DEF Inv
<1>a. \A i \in Id : state[i] \in RowState /\ Phases[i] = PhaseOf(state[i])
  BY <1>0 DEF Phases, TypeOK, TableTypeOK
<1>1. CASE UNCHANGED table
  BY <1>1 DEF table, Phases, Urgent
<1>2. ASSUME NEW c \in Content, Enqueue(c) PROVE Goal
  <2>1. nextId \in Id /\ c.priority \in 0 .. 1 /\ c # None
    BY <1>0, <1>2, NoRowAssumption, RowsAssumption DEF Enqueue, TypeOK, TableTypeOK, Id, Content
  <2>2. Phases[nextId] = "new" /\ \A j \in Id : j < nextId => Phases[j] # "new"
    BY <1>0, <1>a, <2>1, PhaseOfState DEF RowsOK, Id
  <2>3. PhaseOf("queued") = "waiting"
    BY DEF PhaseOf, Terminal
  <2>4. /\ Phases' = [Phases EXCEPT ![nextId] = "waiting"]
        /\ Urgent' = [Urgent EXCEPT ![nextId] = c.priority]
    BY <1>0, <1>2, <2>1, <2>3 DEF Enqueue, Phases, Urgent, TypeOK, TableTypeOK
  <2>5. Promised!Accept(nextId)
    BY <2>1, <2>2, <2>4 DEF Promised!Accept
  <2> QED BY <2>1, <2>5 DEF Promised!Next
<1>3. ASSUME NEW k \in Id, pc = "loop", ClaimNext(k) PROVE Goal
  <2>1. Phases' = [Phases EXCEPT ![k] = "on_air"] /\ Urgent' = Urgent
    BY <1>0, <1>3, OneRowMoves DEF ClaimNext, PhaseOf, Terminal
  <2>2. \A j \in Id : Phases[j] # "on_air"
    <3>1. None \notin Id
      BY RowsAssumption, NullAssumption DEF Id
    <3> QED BY <1>0, <1>3, <1>a, <3>1, PhaseOfState DEF OnePlaying, ThreadOK
  <2>3. state[k] = "queued" /\ \A j \in Id \ {k} : state[j] = "queued" => Ahead(k, j)
    BY <1>3 DEF ClaimNext, IsHead, Queued
  <2>4. \A j \in Id : state[j] = "queued" => Urgent[j] = content[j].priority
    BY <1>0 DEF RowsOK, Present, Urgent
  <2>5. Promised!FirstInLine(k)
    BY <1>a, <2>3, <2>4, PhaseOfState DEF Promised!FirstInLine, Ahead
  <2>6. Promised!PutOnAir(k)
    BY <2>1, <2>2, <2>5 DEF Promised!PutOnAir
  <2> QED BY <2>6 DEF Promised!Next
<1>4. CASE pc = "release" /\ ReleaseToQueue(item)
  <2>1. item \in Id /\ state[item] = "playing"
    BY <1>0, <1>4, ItemHeld
  <2>2. Phases' = [Phases EXCEPT ![item] = "waiting"] /\ Urgent' = Urgent
    BY <1>0, <1>4, <2>1, OneRowMoves DEF ReleaseToQueue, Present, PhaseOf, Terminal
  <2>3. Promised!PutBack(item)
    BY <1>a, <2>1, <2>2, PhaseOfState DEF Promised!PutBack
  <2> QED BY <2>1, <2>3 DEF Promised!Next
<1>5. ASSUME pc \in {"finish_stopped", "finish_done", "fail"},
             NEW s \in Given, NEW by, Finish(item, s, by)
      PROVE  Goal
  <2>1. item \in Id /\ state[item] \in {"playing", "done", "purged"}
    BY <1>0, <1>5, ItemHeld
  <2>2. CASE state[item] = "purged"
    BY <1>5, <2>2 DEF Finish, Present, Phases, Urgent
  <2>3. CASE state[item] # "purged"
    <3>1. PhaseOf(s) = "over"
      BY DEF PhaseOf, Given, Terminal
    <3>2. Phases' = [Phases EXCEPT ![item] = "over"] /\ Urgent' = Urgent
      BY <1>0, <1>5, <2>1, <2>3, <3>1, OneRowMoves DEF Finish, Present
    <3>3. CASE state[item] = "playing"
      <4>1. Promised!End(item)
        BY <1>a, <2>1, <3>2, <3>3, PhaseOfState DEF Promised!End
      <4> QED BY <2>1, <4>1 DEF Promised!Next
    <3>4. CASE state[item] = "done"
      <4>1. Phases[item] = "over"
        BY <1>a, <2>1, <3>4, PhaseOfState DEF Terminal
      <4> QED BY <3>2, <4>1 DEF Phases
    <3> QED BY <2>1, <2>3, <3>3, <3>4
  <2> QED BY <2>2, <2>3
<1>6. ASSUME NEW k \in Id, NEW by, CancelQueued(k, by) PROVE Goal
  <2>1. Phases' = [Phases EXCEPT ![k] = "over"] /\ Urgent' = Urgent
    BY <1>0, <1>6, OneRowMoves DEF CancelQueued, PhaseOf, Terminal
  <2>2. Promised!End(k)
    BY <1>6, <1>a, <2>1, PhaseOfState DEF Promised!End, CancelQueued, Cancellable
  <2> QED BY <2>2 DEF Promised!Next
<1>7. CASE RecoverOrphanedItems
  <2>1. CASE \A k \in Id : state[k] # "playing"
    <3>1. state' = state /\ content' = content
      BY <1>0, <1>7, <2>1 DEF RecoverOrphanedItems, TypeOK, TableTypeOK
    <3> QED BY <3>1 DEF Phases, Urgent
  <2>2. ASSUME NEW k \in Id, state[k] = "playing" PROVE Goal
    <3>1. state' = [state EXCEPT ![k] = "interrupted"] /\ content' = content
      BY <1>0, <1>7, <2>2 DEF RecoverOrphanedItems, OnePlaying, TypeOK, TableTypeOK
    <3>2. Phases' = [Phases EXCEPT ![k] = "over"] /\ Urgent' = Urgent
      BY <1>0, <3>1, OneRowMoves DEF PhaseOf, Terminal
    <3>3. Promised!End(k)
      BY <1>a, <2>2, <3>2, PhaseOfState DEF Promised!End
    <3> QED BY <3>3 DEF Promised!Next
  <2> QED BY <2>1, <2>2
<1>8. ASSUME NEW last \in Id, PurgeAnnouncements(last) PROVE Goal
  <2> DEFINE S == Purgeable(last)
  <2>1. S \subseteq Id /\ \A i \in S : state[i] \in Terminal
    BY RowsAssumption DEF Purgeable, Id
  <2>2. \A i \in S : Phases[i] = "over"
    BY <1>a, <2>1, PhaseOfState
  <2>3. PhaseOf("purged") = "gone"
    BY DEF PhaseOf, Terminal
  <2>4. Phases' = [i \in Id |-> IF i \in S THEN "gone" ELSE Phases[i]]
    BY <1>8, <2>3 DEF PurgeAnnouncements, Phases
  <2>5. Urgent' = [i \in Id |-> IF i \in S THEN 0 ELSE Urgent[i]]
    BY <1>8 DEF PurgeAnnouncements, Urgent
  <2>6. S \in SUBSET Id
    BY <2>1
  <2> HIDE DEF S
  <2>7. Promised!Forget(S)
    BY <2>2, <2>4, <2>5 DEF Promised!Forget
  <2> QED BY <2>6, <2>7 DEF Promised!Next
<1> QED BY <1>0, <1>1, <1>2, <1>3, <1>4, <1>5, <1>6, <1>7, <1>8 DEF TableEffect

(* The announcer implements Lifecycle, for every number of rows, people,   *)
(* clips, unplugged devices and restarts.                                  *)
THEOREM Implements == Spec => KeepsPromise
<1>1. Init => Promised!Init
  <2>1. PhaseOf("none") = "new"
    BY DEF PhaseOf, Terminal
  <2> QED BY <2>1 DEF Init, TableInit, Promised!Init, Phases, Urgent
<1>2. Inv /\ [Next]_vars => [Promised!Next]_(Promised!lifecycle)
  BY PromiseStep DEF Promised!lifecycle
<1> QED BY <1>1, <1>2, Invariance, PTL DEF Spec, KeepsPromise, Promised!Spec

----------------------------------------------------------------------------
(* "done" means heard.  Until the body was played to its end it is among   *)
(* the parts that _play_sequence has still to play, or there is none.      *)

(* The body of a row was heard out, or the row has none to be heard.       *)
Accounted(i) ==
  \/ i \in heard
  \/ content[i].kind = "test"
  \/ content[i].kind = "sound" /\ content[i].clip \notin files

BodyAhead == \E k \in DOMAIN parts : parts[k] = "body"

HeardOK ==
  /\ pc \in {"synth", "open", "play"} => BodyAhead \/ Accounted(item)
  /\ pc = "finish_done" => Accounted(item)
  /\ DoneWasHeard

(* The body is among the parts that Begin hands over, if there is one;     *)
(* there is none only for a test, or a sound whose file is gone.           *)
LEMMA PartsHaveBody ==
  ASSUME NEW i, HasBody(i)
  PROVE  \E k \in DOMAIN PartsOf(i) : PartsOf(i)[k] = "body"
<1> DEFINE ch == IF content[i].chime THEN <<"chime", "gap">> ELSE <<>>
           en == IF EndTone THEN <<"end">> ELSE <<>>
<1>0. /\ <<>> \in Seq(Part) /\ <<"chime", "gap">> \in Seq(Part)
      /\ <<"body">> \in Seq(Part) /\ <<"end">> \in Seq(Part)
  BY DEF Part
<1>1. ch \in Seq(Part)
  BY <1>0, Zenon
<1>2. en \in Seq(Part)
  BY <1>0, Zenon
<1>3. PartsOf(i) = (ch \o <<"body">>) \o en
  BY DEF PartsOf
<1> HIDE DEF ch, en
<1>4. /\ ch \o <<"body">> \in Seq(Part) /\ Len(ch \o <<"body">>) = Len(ch) + 1
      /\ (ch \o <<"body">>)[Len(ch) + 1] = "body" /\ Len(ch) \in Nat
  <2>1. /\ Len(<<"body">>) = 1 /\ <<"body">>[1] = "body"
        /\ Len(ch) \in Nat
    BY <1>1, LenProperties
  <2>2. /\ ch \o <<"body">> \in Seq(Part) /\ Len(ch \o <<"body">>) = Len(ch) + Len(<<"body">>)
        /\ \A k \in 1 .. Len(ch) + Len(<<"body">>) :
             (ch \o <<"body">>)[k] = IF k <= Len(ch) THEN ch[k] ELSE <<"body">>[k - Len(ch)]
    BY <1>0, <1>1, ConcatProperties
  <2>3. Len(ch) + 1 \in 1 .. Len(ch) + 1 /\ ~(Len(ch) + 1 <= Len(ch))
        /\ (Len(ch) + 1) - Len(ch) = 1
    BY <2>1
  <2> QED BY <2>1, <2>2, <2>3
<1> DEFINE b == ch \o <<"body">>
<1>5. b \in Seq(Part) /\ Len(b) = Len(ch) + 1 /\ b[Len(ch) + 1] = "body"
  BY <1>4
<1> HIDE DEF b
<1>6. /\ b \o en \in Seq(Part) /\ Len(b \o en) = Len(b) + Len(en) /\ Len(en) \in Nat
      /\ \A k \in 1 .. Len(b) + Len(en) :
           (b \o en)[k] = IF k <= Len(b) THEN b[k] ELSE en[k - Len(b)]
  BY <1>2, <1>5, ConcatProperties, LenProperties
<1>7. Len(ch) + 1 \in DOMAIN (b \o en) /\ (b \o en)[Len(ch) + 1] = "body"
  BY <1>4, <1>5, <1>6, LenProperties
<1> QED BY <1>3, <1>7 DEF b

LEMMA BodyOrAccounted ==
  ASSUME TypeOK, NEW i \in Id, content[i] \in Content
  PROVE  HasBody(i) \/ Accounted(i)
<1>1. content[i].kind \in Spoken \cup {"sound", "test"}
  BY DEF Content
<1>2. SUFFICES ASSUME ~HasBody(i), content[i].kind = "sound"
               PROVE  content[i].clip \notin files
  BY <1>1 DEF HasBody, IsSpoken, Accounted
<1> QED BY <1>2, NullAssumption DEF HasBody, ClipPath, TypeOK

(* What is accounted for stays so while the row is in the table.           *)
LEMMA AccountedStays ==
  ASSUME [Next]_vars, NEW i \in Id, Accounted(i), content'[i] = content[i]
  PROVE  Accounted(i)'
<1>1. heard \subseteq heard' /\ files' \subseteq files
  <2>1. CASE PlayPart \/ \E c \in Clip : DeleteSound(c)
    BY <2>1 DEF PlayPart, DeleteSound
  <2>2. CASE UNCHANGED <<heard, files>>
    BY <2>2
  <2>3. CASE PlayerStep
    BY <2>1, <2>2, <2>3 DEF PlayerStep, Claim, ExitLoop, Begin, Synthesize, OpenSession,
      OpenFails, PlayStopped, PlayUnavailable, PlayRaises, PlayCompleted, FinishStopped,
      FinishDone, RecordSpeechRate, FinishFailed, Release, Backoff, Cleanup
  <2>4. CASE PlayerFault \/ TimerStep \/ EnvironmentStep
    BY <2>2, <2>4 DEF PlayerFault, SynthesizeFails, WriteRaisesInBody, WriteRaisesInHandler,
      TimerStep, ScheduleDue, SpeakAddress, EnvironmentStep, Start, Shutdown, Exit, Crash,
      ProcessEnds, Unplug, Replug
  <2>5. CASE WebStep
    BY <2>1, <2>2, <2>5 DEF WebStep, Announce, TestAudio, PlaySound, StopRead, StopPlaying,
      StopQueued, StopCurrent, Purge
  <2>6. CASE UNCHANGED vars
    BY <2>2, <2>6 DEF vars
  <2> QED BY <2>3, <2>4, <2>5, <2>6 DEF Next
<1> QED BY <1>1 DEF Accounted

(* A row becomes done only by the end of the attempt that plays it.        *)
LEMMA DoneByThread ==
  ASSUME TypeOK, RowsOK, ThreadOK, TableEffect, NEW i \in Id, state'[i] = "done"
  PROVE  state[i] = "done" \/ (pc = "finish_done" /\ item = i)
<1> USE DEF TypeOK, TableTypeOK
<1>1. CASE UNCHANGED table
  BY <1>1 DEF table
<1>2. ASSUME NEW c \in Content, Enqueue(c) PROVE state[i] = "done"
  BY <1>2 DEF Enqueue
<1>3. ASSUME NEW k \in Id, ClaimNext(k) PROVE state[i] = "done"
  BY <1>3 DEF ClaimNext
<1>4. CASE pc = "release" /\ ReleaseToQueue(item)
  BY <1>4, ItemHeld DEF ReleaseToQueue
<1>5. ASSUME NEW s \in Given, NEW by \in Person \cup {Unknown, None}, Finish(item, s, by),
             pc \in {"finish_stopped", "finish_done", "fail"}, s = "done" => FinishDone
      PROVE  state[i] = "done" \/ (pc = "finish_done" /\ item = i)
  <2>1. item \in Id
    BY <1>5, ItemHeld
  <2>2. CASE s = "done"
    BY <1>5, <2>1, <2>2 DEF FinishDone, Finish
  <2>3. CASE s # "done"
    BY <1>5, <2>1, <2>3 DEF Finish
  <2> QED BY <2>2, <2>3
<1>6. ASSUME NEW k \in Id, NEW by \in Person, CancelQueued(k, by) PROVE state[i] = "done"
  BY <1>6 DEF CancelQueued
<1>7. CASE RecoverOrphanedItems
  BY <1>7 DEF RecoverOrphanedItems
<1>8. ASSUME NEW last \in Id, PurgeAnnouncements(last) PROVE state[i] = "done"
  BY <1>8 DEF PurgeAnnouncements
<1> QED BY <1>1, <1>2, <1>3, <1>4, <1>5, <1>6, <1>7, <1>8 DEF TableEffect

(* What the thread has still to play.                                      *)
PlaysOn ==
  \/ pc' \notin {"synth", "open", "play", "finish_done"}
  \/ Begin
  \/ PlayPart
  \/ PlayCompleted
  \/ /\ UNCHANGED <<item, parts>>
     /\ pc' = pc \/ (pc \in {"synth", "open", "play"} /\ pc' \in {"synth", "open", "play"})

LEMMA PlaysOnStep ==
  ASSUME [Next]_vars PROVE PlaysOn
<1> USE DEF PlaysOn, thread
<1>1. CASE UNCHANGED vars
  BY <1>1 DEF vars
<1>2. CASE PlayerStep
  <2>1. CASE (\E i \in Id : Claim(i)) \/ ExitLoop \/ OpenFails \/ PlayStopped
    BY <2>1 DEF Claim, ExitLoop, OpenFails, PlayStopped
  <2>2. CASE PlayUnavailable \/ PlayRaises \/ FinishStopped \/ FinishDone \/ RecordSpeechRate
    BY <2>2 DEF PlayUnavailable, PlayRaises, FinishStopped, FinishDone, RecordSpeechRate
  <2>3. CASE FinishFailed \/ Release \/ Backoff \/ Cleanup
    BY <2>3 DEF FinishFailed, Release, Backoff, Cleanup
  <2>4. CASE Synthesize \/ OpenSession
    BY <2>4 DEF Synthesize, OpenSession
  <2> QED BY <1>2, <2>1, <2>2, <2>3, <2>4 DEF PlayerStep
<1>3. CASE PlayerFault
  BY <1>3 DEF PlayerFault, SynthesizeFails, WriteRaisesInBody, WriteRaisesInHandler
<1>4. CASE WebStep
  BY <1>4 DEF WebStep, Announce, TestAudio, PlaySound, DeleteSound, Purge, StopRead,
    StopPlaying, StopQueued, StopCurrent
<1>5. CASE TimerStep
  BY <1>5 DEF TimerStep, ScheduleDue, SpeakAddress
<1>6. CASE EnvironmentStep
  BY <1>6 DEF EnvironmentStep, Start, Shutdown, Exit, Crash, ProcessEnds, Unplug, Replug
<1> QED BY <1>1, <1>2, <1>3, <1>4, <1>5, <1>6 DEF Next

LEMMA HeardStep == Inv /\ HeardOK /\ [Next]_vars => HeardOK'
<1> SUFFICES ASSUME Inv, HeardOK, [Next]_vars PROVE HeardOK'
  OBVIOUS
<1>0. /\ TypeOK /\ RowsOK /\ ThreadOK /\ TableEffect /\ Kept
      /\ TypeOK' /\ RowsOK' /\ ThreadOK'
  <2>1. TypeOK /\ RowsOK /\ ThreadOK /\ AskersOK
    BY DEF Inv
  <2>2. TableEffect
    BY <2>1, EffectOfStep
  <2>3. Inv'
    BY InvStep
  <2>4. TypeOK' /\ RowsOK' /\ ThreadOK'
    BY <2>3 DEF Inv
  <2> QED BY <2>1, <2>2, <2>4, RowsKept
<1>1. PlaysOn
  BY PlaysOnStep
<1>2. ASSUME NEW i \in Id, state'[i] = "done", content'[i].kind # "test"
      PROVE  \/ i \in heard'
             \/ content'[i].kind = "sound" /\ content'[i].clip \notin files'
  <2>1. state[i] = "done" \/ (pc = "finish_done" /\ item = i /\ state[i] = "playing")
    BY <1>0, <1>2, DoneByThread DEF ThreadOK, Held
  <2>2. content'[i] = content[i]
    BY <1>0, <1>2, <2>1 DEF Kept, Present
  <2>3. Accounted(i)
    BY <1>2, <2>1, <2>2 DEF HeardOK, DoneWasHeard, Accounted
  <2>4. Accounted(i)'
    BY <2>2, <2>3, AccountedStays
  <2> QED BY <1>2, <2>4 DEF Accounted
<1>3. /\ pc' \in {"synth", "open", "play"} => BodyAhead' \/ Accounted(item)'
      /\ pc' = "finish_done" => Accounted(item)'
  <2> SUFFICES ASSUME pc' \in {"synth", "open", "play", "finish_done"}
               PROVE  /\ pc' \in {"synth", "open", "play"} => BodyAhead' \/ Accounted(item)'
                      /\ pc' = "finish_done" => Accounted(item)'
    OBVIOUS
  <2>1. CASE Begin
    <3>1. /\ pc = "begin" /\ item' = item /\ parts' = PartsOf(item) /\ pc' \in {"synth", "open"}
          /\ content' = content /\ files' = files /\ heard' = heard
      BY <2>1 DEF Begin, table
    <3>2. item \in Id /\ content[item] \in Content
      BY <1>0, <3>1 DEF ThreadOK, Held, TypeOK, TableTypeOK, RowsOK, Present
    <3>3. CASE HasBody(item)
      <4>1. \E k \in DOMAIN PartsOf(item) : PartsOf(item)[k] = "body"
        BY <3>3, PartsHaveBody
      <4> QED BY <3>1, <4>1 DEF BodyAhead
    <3>4. CASE Accounted(item)
      BY <3>1, <3>4 DEF Accounted
    <3> QED BY <1>0, <3>2, <3>3, <3>4, BodyOrAccounted
  <2>2. CASE PlayPart
    <3>1. /\ pc = "play" /\ pc' = "play" /\ item' = item /\ parts # <<>> /\ parts' = Tail(parts)
          /\ content' = content /\ files' = files
          /\ heard' = IF Head(parts) = "body" THEN heard \cup {item} ELSE heard
      BY <2>2 DEF PlayPart, table
    <3>2. CASE Accounted(item)
      BY <3>1, <3>2 DEF Accounted
    <3>3. CASE BodyAhead
      <4>1. PICK k \in DOMAIN parts : parts[k] = "body"
        BY <3>3 DEF BodyAhead
      <4>2. /\ parts \in Seq(Part) /\ Len(parts) \in Nat /\ DOMAIN parts = 1 .. Len(parts)
            /\ Head(parts) = parts[1] /\ Len(Tail(parts)) = Len(parts) - 1
            /\ Tail(parts) \in Seq(Part)
            /\ \A j \in 1 .. Len(Tail(parts)) : Tail(parts)[j] = parts[j + 1]
        BY <1>0, <3>1, HeadTailProperties, LenProperties DEF TypeOK
      <4>3. CASE k = 1
        BY <3>1, <4>1, <4>2, <4>3 DEF Accounted
      <4>4. CASE k # 1
        <5>1. k - 1 \in 1 .. Len(Tail(parts)) /\ (k - 1) + 1 = k
          BY <4>2, <4>4
        <5>2. Tail(parts)[k - 1] = "body"
          BY <4>1, <4>2, <5>1
        <5>3. DOMAIN Tail(parts) = 1 .. Len(Tail(parts))
          BY <4>2, LenProperties
        <5> QED BY <3>1, <5>1, <5>2, <5>3 DEF BodyAhead
      <4> QED BY <4>3, <4>4
    <3> QED BY <3>1, <3>2, <3>3 DEF HeardOK
  <2>3. CASE PlayCompleted
    <3>1. /\ pc = "play" /\ parts = <<>> /\ pc' = "finish_done" /\ item' = item
          /\ content' = content /\ files' = files /\ heard' = heard
      BY <2>3 DEF PlayCompleted, table
    <3>2. Accounted(item)
      BY <3>1 DEF HeardOK, BodyAhead
    <3> QED BY <3>1, <3>2 DEF Accounted
  <2>4. CASE /\ UNCHANGED <<item, parts>>
             /\ pc' = pc \/ (pc \in {"synth", "open", "play"} /\ pc' \in {"synth", "open", "play"})
    <3>1. item \in Id /\ state[item] = "playing" /\ state'[item] = "playing"
      BY <1>0, <2>4 DEF ThreadOK, Held, TypeOK
    <3>2. content'[item] = content[item]
      BY <1>0, <3>1 DEF Kept, Present
    <3>3. Accounted(item) => Accounted(item)'
      <4>1. ASSUME NEW i \in Id, i = item, i = item', Accounted(i) PROVE Accounted(i)'
        BY <3>2, <4>1, AccountedStays
      <4> QED BY <2>4, <3>1, <4>1 DEF Accounted
    <3>4. BodyAhead => BodyAhead'
      BY <2>4 DEF BodyAhead
    <3> QED BY <2>4, <3>3, <3>4 DEF HeardOK
  <2> QED BY <1>1, <2>1, <2>2, <2>3, <2>4 DEF PlaysOn
<1> QED BY <1>2, <1>3 DEF HeardOK, DoneWasHeard

(* "done" means heard: whatever is stopped, deleted, unplugged or killed   *)
(* meanwhile, a row that says done was played to the end of its body, was  *)
(* a test, or is a sound whose file was deleted.                           *)
THEOREM DoneMeansHeard == Spec => []DoneWasHeard
<1>1. Init => Inv /\ HeardOK
  <2>1. Init => HeardOK
    BY DEF Init, TableInit, HeardOK, DoneWasHeard
  <2> QED BY <2>1, InvInit
<1>2. (Inv /\ HeardOK) /\ [Next]_vars => (Inv /\ HeardOK)'
  BY InvStep, HeardStep
<1>3. Inv /\ HeardOK => DoneWasHeard
  BY DEF HeardOK
<1> QED BY <1>1, <1>2, <1>3, PTL DEF Spec
=============================================================================
