---------------------------- MODULE StatusProofs ----------------------------
(***************************************************************************)
(* Proofs about Status, for every number of rows, handlers and browsers,   *)
(* every length of their queues and every fault of the speakers: the type  *)
(* invariant, and that the browsers agree with the broadcaster.            *)
(***************************************************************************)
EXTENDS Status, SequenceTheorems, TLAPS

(* The player thread has a row at hand until it looks for the next one.    *)
ItemOK == pc # "loop" => item \in Id

(* Nobody publishes twice at a time.                                       *)
OrderOK == \A j, k \in DOMAIN order : order[j] = order[k] => j = k

(* What was kept last is what its publisher is about to send.              *)
KeptOK == at[keptBy] = "send" => draft[keptBy] = latest

(* Once the snapshot that was kept last was sent, and last of all, it is   *)
(* on its way to every browser, or there.                                  *)
Arriving(b) ==
  /\ buffer[b] # <<>> => buffer[b][Len(buffer[b])] = latest
  /\ buffer[b] = <<>> /\ stream[b] = "open" => shown[b] = latest

AgreeOK ==
  keptBy = sentBy /\ at[keptBy] # "send" =>
    /\ calls # <<>> => calls[Len(calls)] = latest
    /\ calls = <<>> =>
         \A b \in Browser : stream[b] # "closed" /\ b \notin dropped => Arriving(b)

(* The inductive invariant.                                                *)
IInv == TypeOK /\ ItemOK /\ OrderOK /\ KeptOK /\ AgreeOK

----------------------------------------------------------------------------
(* What the table is told to do keeps its type.                            *)
LEMMA TableTypes ==
  ASSUME TableTypeOK
  PROVE  /\ \A c \in Content : Enqueue(c) => TableTypeOK'
         /\ \A i \in Id : ClaimNext(i) \/ ReleaseToQueue(i) => TableTypeOK'
         /\ \A i \in Id, s \in Terminal : Finish(i, s, None) => TableTypeOK'
         /\ \A i \in Id, p \in Person : CancelQueued(i, p) => TableTypeOK'
         /\ \A last \in Id : PurgeAnnouncements(last) => TableTypeOK'
<1> USE DEF TableTypeOK, RowState, Terminal
<1>1. ASSUME NEW c \in Content, Enqueue(c) PROVE TableTypeOK'
  BY <1>1, RowsAssumption DEF Enqueue, Id
<1>2. ASSUME NEW i \in Id, ClaimNext(i) \/ ReleaseToQueue(i) PROVE TableTypeOK'
  BY <1>2 DEF ClaimNext, ReleaseToQueue
<1>3. ASSUME NEW i \in Id, NEW s \in Terminal, Finish(i, s, None) PROVE TableTypeOK'
  BY <1>3 DEF Finish
<1>4. ASSUME NEW i \in Id, NEW p \in Person, CancelQueued(i, p) PROVE TableTypeOK'
  BY <1>4 DEF CancelQueued
<1>5. ASSUME NEW last \in Id, PurgeAnnouncements(last) PROVE TableTypeOK'
  BY <1>5 DEF PurgeAnnouncements
<1> HIDE DEF TableTypeOK, RowState, Terminal
<1> QED
  BY <1>1, <1>2, <1>3, <1>4, <1>5

(* What a publisher reads is of the type of a snapshot.                    *)
LEMMA BlankType == Blank \in Snapshot
BY DEF Blank, Snapshot

LEMMA ReadTypes ==
  /\ PlayingItem \in Id \cup {None} /\ Queued \in SUBSET Id /\ Problems \in SUBSET Id
  /\ \A p : StatusOf(p) \in {"idle", "playing", "error"}
BY DEF PlayingItem, Queued, Problems, StatusOf

(* What is left of a sequence when one of its elements is taken out.       *)
LEMMA TakeOut ==
  ASSUME NEW S, NEW s \in Seq(S), NEW k \in 1 .. Len(s), NEW r,
         r = SubSeq(s, 1, k - 1) \o SubSeq(s, k + 1, Len(s))
  PROVE  /\ r \in Seq(S) /\ Len(r) = Len(s) - 1
         /\ \A j \in 1 .. Len(s) - 1 : r[j] = IF j < k THEN s[j] ELSE s[j + 1]
<1> DEFINE a == SubSeq(s, 1, k - 1)
           b == SubSeq(s, k + 1, Len(s))
<1>0. Len(s) \in Nat /\ \A i \in 1 .. Len(s) : s[i] \in S
  BY LenProperties, ElementOfSeq
<1>1. a \in Seq(S) /\ Len(a) = k - 1 /\ \A i \in 1 .. k - 1 : a[i] = s[i]
  <2>1. \A i \in 1 .. k - 1 : s[i] \in S
    BY <1>0
  <2> QED
    BY <1>0, <2>1, SubSeqProperties
<1>2. b \in Seq(S) /\ Len(b) = Len(s) - k /\ \A i \in 1 .. Len(s) - k : b[i] = s[k + i]
  <2>1. \A i \in k + 1 .. Len(s) : s[i] \in S
    BY <1>0
  <2> QED
    BY <1>0, <2>1, SubSeqProperties
<1> HIDE DEF a, b
<1>3. /\ a \o b \in Seq(S) /\ Len(a \o b) = Len(s) - 1
      /\ \A j \in 1 .. Len(s) - 1 : (a \o b)[j] = IF j < k THEN s[j] ELSE s[j + 1]
  <2>1. /\ a \o b \in Seq(S) /\ Len(a \o b) = Len(a) + Len(b)
        /\ \A j \in 1 .. Len(a) + Len(b) : (a \o b)[j] = IF j <= Len(a) THEN a[j] ELSE b[j - Len(a)]
    BY <1>1, <1>2, ConcatProperties
  <2>2. Len(a) + Len(b) = Len(s) - 1
    BY <1>0, <1>1, <1>2
  <2>3. ASSUME NEW j \in 1 .. Len(s) - 1
        PROVE  (a \o b)[j] = IF j < k THEN s[j] ELSE s[j + 1]
    <3>1. (a \o b)[j] = IF j <= k - 1 THEN a[j] ELSE b[j - (k - 1)]
      BY <1>1, <2>1, <2>2
    <3>2. CASE j < k
      BY <1>0, <1>1, <3>1, <3>2
    <3>3. CASE ~(j < k)
      <4>1. j - (k - 1) \in 1 .. Len(s) - k
        BY <1>0, <3>3
      <4>2. b[j - (k - 1)] = s[k + (j - (k - 1))]
        BY <1>2, <4>1
      <4>3. k + (j - (k - 1)) = j + 1
        OBVIOUS
      <4> QED
        BY <3>1, <3>3, <4>2, <4>3
    <3> QED
      BY <3>2, <3>3
  <2> QED
    BY <2>1, <2>2, <2>3
<1> QED
  BY <1>3 DEF a, b

----------------------------------------------------------------------------
(* What a step does to the publishers: nothing, the beginning of a         *)
(* snapshot, one of its reads, keeping it, sending it, or passing on what  *)
(* was sent.                                                               *)
Reads(t) == ReadPlaying(t) \/ ReadQueued(t) \/ ReadHeld(t) \/ ReadRest(t)
Starts(t) == at[t] = "idle" /\ PublishStatus(t) /\ UNCHANGED page
Browses(b) == Subscribe(b) \/ FirstEvent(b) \/ NextEvent(b) \/ Disconnect(b)

LEMMA StepCases ==
  ASSUME [Next]_vars
  PROVE  \/ UNCHANGED <<publish, page>>
         \/ \E t \in Publisher : Starts(t) \/ Reads(t) \/ Keep(t) \/ Send(t)
         \/ Deliver
         \/ \E b \in Browser : Browses(b)
<1> DEFINE Cases == \/ UNCHANGED <<publish, page>>
                    \/ \E t \in Publisher : Starts(t) \/ Reads(t) \/ Keep(t) \/ Send(t)
                    \/ Deliver
                    \/ \E b \in Browser : Browses(b)
<1>1. CASE UNCHANGED vars
  BY <1>1 DEF vars
<1>2. CASE \E t \in Publisher : PublishStep(t)
  BY <1>2 DEF PublishStep, Reads
<1>3. CASE PlayerStep
  <2>1. CASE UNCHANGED <<publish, page>>
    BY <2>1
  <2>2. CASE Starts(Pa)
    BY <2>2 DEF Publisher
  <2>3. UNCHANGED <<publish, page>> \/ Starts(Pa)
    BY <1>3 DEF PlayerStep, Claim, Begin, SynthesizeFails, OpenSession, MarkAudioOk,
      MarkAudioFailed, Release, PlayOut, CleanUp, Turn, Quietly, SaysSo, Starts
  <2> QED
    BY <2>1, <2>2, <2>3
<1>4. ASSUME NEW h \in Handler, Request(h) PROVE Cases
  BY <1>4 DEF Request, Submit, Cancel, Purge, SaysSo, Starts, Publisher
<1>5. CASE Deliver
  BY <1>5
<1>6. CASE \E b \in Browser : Browses(b)
  BY <1>6
<1> HIDE DEF Cases
<1>7. Cases
  <2>1. UNCHANGED <<publish, page>> => Cases
    BY DEF Cases
  <2>2. (\E t \in Publisher : Starts(t) \/ Reads(t) \/ Keep(t) \/ Send(t)) => Cases
    BY DEF Cases
  <2>3. Deliver => Cases
    BY DEF Cases
  <2>4. (\E b \in Browser : Browses(b)) => Cases
    BY DEF Cases
  <2> QED
    BY <1>1, <1>2, <1>3, <1>4, <1>5, <2>1, <2>2, <2>3, <2>4 DEF Next, Browses
<1> QED
  BY <1>7 DEF Cases

----------------------------------------------------------------------------
(* The table keeps its type, and so does the player thread, which has a    *)
(* row at hand until it looks for the next one.                            *)
LEMMA PlayerTypeStep ==
  TypeOK /\ ItemOK /\ [Next]_vars => TableTypeOK' /\ PlayerTypeOK' /\ ItemOK'
<1> SUFFICES ASSUME TypeOK, ItemOK, [Next]_vars PROVE TableTypeOK' /\ PlayerTypeOK' /\ ItemOK'
  OBVIOUS
<1> USE DEF PlayerTypeOK, ItemOK
<1>0. TableTypeOK /\ PlayerTypeOK
  BY DEF TypeOK
<1>1. CASE UNCHANGED <<table, player>>
  BY <1>0, <1>1 DEF table, player, TableTypeOK
<1>2. ASSUME NEW i \in Id, Claim(i) PROVE TableTypeOK' /\ PlayerTypeOK' /\ ItemOK'
  BY <1>0, <1>2, TableTypes DEF Claim
<1>3. CASE Begin \/ OpenSession \/ MarkAudioOk \/ MarkAudioFailed \/ CleanUp
  <2>1. TableTypeOK'
    BY <1>0, <1>3 DEF Begin, OpenSession, MarkAudioOk, MarkAudioFailed, CleanUp, table,
      TableTypeOK
  <2>2. PlayerTypeOK' /\ ItemOK'
    <3>1. CASE Begin \/ OpenSession \/ MarkAudioOk
      BY <1>0, <3>1 DEF Begin, OpenSession, MarkAudioOk, Turn
    <3>2. CASE MarkAudioFailed
      <4>1. pc # "loop" /\ faults < MaxFaults /\ faults' = faults + 1
            /\ audioOk' = FALSE /\ pc' = "unavailable" /\ item' = item
        BY <3>2 DEF MarkAudioFailed, Turn
      <4>2. faults' \in 0 .. MaxFaults
        BY <1>0, <4>1, StatusBounds
      <4> QED
        BY <1>0, <4>1, <4>2
    <3>3. CASE CleanUp
      BY <1>0, <3>3 DEF CleanUp, Turn
    <3> QED
      BY <1>3, <3>1, <3>2, <3>3
  <2> QED
    BY <2>1, <2>2
<1>4. CASE SynthesizeFails \/ PlayOut
  <2>1. item \in Id
    BY <1>4 DEF SynthesizeFails, PlayOut, Turn
  <2>2. "failed" \in Terminal /\ "done" \in Terminal
    BY DEF Terminal
  <2> QED
    BY <1>0, <1>4, <2>1, <2>2, TableTypes DEF SynthesizeFails, PlayOut
<1>5. CASE Release
  <2>1. item \in Id
    BY <1>5 DEF Release, Turn
  <2> QED
    BY <1>0, <1>5, <2>1, TableTypes DEF Release
<1>6. ASSUME NEW h \in Handler, Submit(h) PROVE TableTypeOK' /\ PlayerTypeOK' /\ ItemOK'
  <2>1. \A p \in Person : Row(p, 0, "announcement", None, FALSE) \in Content
    BY DEF Row, Content, Spoken
  <2> QED
    BY <1>0, <1>6, <2>1, TableTypes DEF Submit, player
<1>7. ASSUME NEW h \in Handler, Cancel(h) \/ Purge(h)
      PROVE  TableTypeOK' /\ PlayerTypeOK' /\ ItemOK'
  BY <1>0, <1>7, TableTypes DEF Cancel, Purge, player
<1>8. \/ UNCHANGED <<table, player>>
      \/ \E i \in Id : Claim(i)
      \/ Begin \/ OpenSession \/ MarkAudioOk \/ MarkAudioFailed \/ CleanUp
      \/ SynthesizeFails \/ PlayOut \/ Release
      \/ \E h \in Handler : Submit(h) \/ Cancel(h) \/ Purge(h)
  <2>1. CASE \E t \in Publisher : PublishStep(t)
    BY <2>1 DEF PublishStep, ReadPlaying, ReadQueued, ReadHeld, ReadRest, Build, Keep, Send
  <2>2. CASE Deliver \/ \E b \in Browser : Browses(b)
    BY <2>2 DEF Deliver, Browses, Subscribe, FirstEvent, NextEvent, Disconnect
  <2> QED
    BY <2>1, <2>2 DEF Next, vars, PlayerStep, Request, Browses
<1> QED
  BY <1>1, <1>2, <1>3, <1>4, <1>5, <1>6, <1>7, <1>8

(* The next read of a publisher is of the type of a snapshot.              *)
LEMMA ReadsAreTyped ==
  ASSUME TypeOK, NEW t \in Publisher, Reads(t)
  PROVE  \E next \in {"queued", "held", "rest", "keep"}, snapshot \in Snapshot :
           /\ at[t] \in {"playing", "queued", "held", "rest"}
           /\ at' = [at EXCEPT ![t] = next] /\ draft' = [draft EXCEPT ![t] = snapshot]
           /\ UNCHANGED <<latest, calls, order, passed, outdated, keptBy, sentBy, page>>
<1>0. draft[t] \in Snapshot /\ draft[t].playing \in Id \cup {None}
  BY DEF TypeOK, PublishTypeOK, Snapshot
<1>1. CASE ReadPlaying(t)
  <2>1. [Blank EXCEPT !.playing = PlayingItem] \in Snapshot
    BY BlankType, ReadTypes DEF Snapshot
  <2> QED
    BY <1>1, <2>1, Zenon DEF ReadPlaying, Build
<1>2. CASE ReadQueued(t)
  <2>1. [draft[t] EXCEPT !.queue = Queued] \in Snapshot
    BY <1>0, ReadTypes DEF Snapshot
  <2> QED
    BY <1>2, <2>1, Zenon DEF ReadQueued, Build
<1>3. CASE ReadHeld(t)
  <2>1. (IF audioOk THEN draft[t]
         ELSE [draft[t] EXCEPT !.held = draft[t].playing, !.playing = None]) \in Snapshot
    BY <1>0 DEF Snapshot
  <2> QED
    BY <1>3, <2>1, Zenon DEF ReadHeld, Build
<1>4. CASE ReadRest(t)
  <2>1. [draft[t] EXCEPT !.status = StatusOf(draft[t].playing), !.problems = Problems] \in Snapshot
    BY <1>0, ReadTypes DEF Snapshot
  <2> QED
    BY <1>4, <2>1, Zenon DEF ReadRest, Build
<1> QED
  BY <1>1, <1>2, <1>3, <1>4 DEF Reads

(* The publishers' data keep their types, and those under way stay in the  *)
(* order in which they began.                                              *)
LEMMA PublishTypeStep ==
  TypeOK /\ OrderOK /\ [Next]_vars => PublishTypeOK' /\ OrderOK'
<1> SUFFICES ASSUME TypeOK, OrderOK, [Next]_vars PROVE PublishTypeOK' /\ OrderOK'
  OBVIOUS
<1> USE DEF PublishTypeOK, OrderOK
<1>0. PublishTypeOK
  BY DEF TypeOK
<1>1. CASE UNCHANGED publish
  BY <1>0, <1>1 DEF publish
<1>2. ASSUME NEW t \in Publisher, Starts(t) PROVE PublishTypeOK' /\ OrderOK'
  <2>1. at[t] = "idle" /\ at' = [at EXCEPT ![t] = "playing"] /\ order' = Append(order, t)
        /\ UNCHANGED <<draft, latest, calls, passed, outdated, keptBy, sentBy>>
    BY <1>2 DEF Starts, PublishStatus
  <2>2. \A k \in DOMAIN order : order[k] # t
    BY <1>0, <2>1
  <2>3. /\ order' \in Seq(Publisher) /\ Len(order') = Len(order) + 1
        /\ \A k \in 1 .. Len(order) : order'[k] = order[k]
        /\ order'[Len(order) + 1] = t
    BY <1>0, <2>1, AppendProperties
  <2>4. Len(order) \in Nat /\ DOMAIN order = 1 .. Len(order)
        /\ DOMAIN order' = 1 .. Len(order) + 1
    BY <1>0, <2>3, LenProperties
  <2>5. \A s \in Publisher : at'[s] # "idle" <=> at[s] # "idle" \/ s = t
    BY <1>0, <2>1
  <2>6. \A s \in Publisher : (\E k \in DOMAIN order' : order'[k] = s)
                               <=> (\E k \in DOMAIN order : order[k] = s) \/ s = t
    BY <2>3, <2>4
  <2>7. OrderOK'
    BY <2>2, <2>3, <2>4
  <2> QED
    BY <1>0, <2>1, <2>3, <2>5, <2>6, <2>7
<1>3. ASSUME NEW t \in Publisher, Reads(t) PROVE PublishTypeOK' /\ OrderOK'
  <2>1. PICK next \in {"queued", "held", "rest", "keep"}, snapshot \in Snapshot :
          /\ at[t] \in {"playing", "queued", "held", "rest"}
          /\ at' = [at EXCEPT ![t] = next] /\ draft' = [draft EXCEPT ![t] = snapshot]
          /\ UNCHANGED <<latest, calls, order, passed, outdated, keptBy, sentBy, page>>
    BY <1>3, ReadsAreTyped
  <2> QED
    BY <1>0, <2>1
<1>4. ASSUME NEW t \in Publisher, Keep(t) PROVE PublishTypeOK' /\ OrderOK'
  BY <1>0, <1>4 DEF Keep
<1>5. ASSUME NEW t \in Publisher, Send(t) PROVE PublishTypeOK' /\ OrderOK'
  <2> DEFINE k == CHOOSE j \in DOMAIN order : order[j] = t
  <2>1. Len(order) \in Nat /\ DOMAIN order = 1 .. Len(order)
    BY <1>0, LenProperties
  <2>2. k \in 1 .. Len(order) /\ order[k] = t
    <3>1. \E j \in DOMAIN order : order[j] = t
      BY <1>0, <1>5 DEF Send
    <3> QED
      BY <2>1, <3>1
  <2>3. /\ at' = [at EXCEPT ![t] = "idle"] /\ draft' = [draft EXCEPT ![t] = Blank]
        /\ calls' = Append(calls, draft[t]) /\ sentBy' = t
        /\ outdated' = (t \in passed)
        /\ passed' = (passed \ {t}) \cup {order[j] : j \in 1 .. k - 1}
        /\ order' = SubSeq(order, 1, k - 1) \o SubSeq(order, k + 1, Len(order))
        /\ UNCHANGED <<latest, keptBy>>
    BY <1>5, Zenon DEF Send
  <2> HIDE DEF k
  <2>4. /\ order' \in Seq(Publisher) /\ Len(order') = Len(order) - 1
        /\ \A j \in 1 .. Len(order) - 1 : order'[j] = IF j < k THEN order[j] ELSE order[j + 1]
    <3>1. order \in Seq(Publisher) /\ k \in 1 .. Len(order)
      BY <1>0, <2>2
    <3>2. order' = SubSeq(order, 1, k - 1) \o SubSeq(order, k + 1, Len(order))
      BY <2>3
    <3> HIDE DEF PublishTypeOK, OrderOK
    <3> QED
      BY ONLY <3>1, <3>2, TakeOut
  <2>5. DOMAIN order' = 1 .. Len(order) - 1
    BY <2>4, LenProperties
  <2>6. ASSUME NEW s \in Publisher
        PROVE  (\E j \in DOMAIN order' : order'[j] = s)
                 <=> s # t /\ \E j \in DOMAIN order : order[j] = s
    <3>1. ASSUME NEW j \in DOMAIN order', order'[j] = s
          PROVE  s # t /\ \E i \in DOMAIN order : order[i] = s
      BY <2>1, <2>2, <2>4, <2>5, <3>1
    <3>2. ASSUME NEW j \in DOMAIN order, order[j] = s, s # t
          PROVE  \E i \in DOMAIN order' : order'[i] = s
      <4>1. CASE j < k
        BY <2>1, <2>2, <2>4, <2>5, <3>2, <4>1
      <4>2. CASE j > k
        <5>1. j - 1 \in 1 .. Len(order) - 1 /\ ~(j - 1 < k) /\ (j - 1) + 1 = j
          BY <2>1, <2>2, <4>2
        <5>2. order'[j - 1] = order[j]
          BY <2>4, <5>1
        <5> QED
          BY <2>5, <3>2, <5>1, <5>2
      <4>3. j # k
        BY <2>2, <3>2
      <4> QED
        BY <2>1, <2>2, <4>1, <4>2, <4>3
    <3> QED
      BY <3>1, <3>2
  <2>7. OrderOK'
    BY <2>1, <2>2, <2>4, <2>5
  <2>8. \A s \in Publisher : at'[s] # "idle" <=> at[s] # "idle" /\ s # t
    BY <1>0, <2>3
  <2>9. \A s \in Publisher : at'[s] # "idle" <=> \E j \in DOMAIN order' : order'[j] = s
    BY <1>0, <2>6, <2>8
  <2>10. calls' \in Seq(Snapshot) /\ draft' \in [Publisher -> Snapshot]
    BY <1>0, <2>3, BlankType, AppendProperties
  <2>11. passed' \in SUBSET Publisher
    BY <1>0, <2>1, <2>2, <2>3
  <2>12. outdated' \in BOOLEAN
    BY <2>3
  <2> QED
    BY <1>0, <2>3, <2>4, <2>7, <2>9, <2>10, <2>11, <2>12
<1>6. CASE Deliver
  BY <1>0, <1>6, HeadTailProperties DEF Deliver
<1>7. CASE \E b \in Browser : Browses(b)
  <2>1. UNCHANGED publish
    BY <1>7 DEF Browses, Subscribe, FirstEvent, NextEvent, Disconnect
  <2> QED
    BY <1>1, <2>1
<1> QED
  BY <1>1, <1>2, <1>3, <1>4, <1>5, <1>6, <1>7, StepCases

(* So do the pages and their queues, which never grow over QUEUE_SIZE.     *)
LEMMA PageTypeStep == TypeOK /\ [Next]_vars => PageTypeOK'
<1> SUFFICES ASSUME TypeOK, [Next]_vars PROVE PageTypeOK'
  OBVIOUS
<1> USE DEF PageTypeOK
<1>0. PageTypeOK /\ PublishTypeOK
  BY DEF TypeOK
<1>1. CASE UNCHANGED page
  BY <1>0, <1>1 DEF page
<1>2. CASE Deliver
  <2> DEFINE in == {b \in Browser : stream[b] # "closed"}
             room == {b \in in : Len(buffer[b]) < QueueSize}
  <2>1. calls # <<>> /\ Head(calls) \in Snapshot
    BY <1>0, <1>2, HeadTailProperties DEF Deliver, PublishTypeOK
  <2>2. /\ buffer' = [b \in Browser |-> IF b \in room THEN Append(buffer[b], Head(calls))
                                                      ELSE buffer[b]]
        /\ dropped' = (dropped \ room) \cup (in \ room)
        /\ UNCHANGED <<stream, shown, connects>>
    BY <1>2 DEF Deliver
  <2>3. ASSUME NEW b \in Browser
        PROVE  buffer'[b] \in Seq(Snapshot) /\ Len(buffer'[b]) <= QueueSize
    <3>1. CASE b \in room
      <4>1. buffer'[b] = Append(buffer[b], Head(calls)) /\ Len(buffer[b]) < QueueSize
        BY <2>2, <3>1
      <4>2. buffer'[b] \in Seq(Snapshot) /\ Len(buffer'[b]) = Len(buffer[b]) + 1
        BY <1>0, <2>1, <4>1, AppendProperties
      <4>3. Len(buffer[b]) \in Nat
        BY <1>0, LenProperties
      <4> QED
        BY <4>1, <4>2, <4>3, StatusBounds
    <3>2. CASE b \notin room
      BY <1>0, <2>2, <3>2
    <3> QED
      BY <3>1, <3>2
  <2>4. buffer' \in [Browser -> Seq(Snapshot)]
    BY <2>2, <2>3
  <2> QED
    BY <1>0, <2>2, <2>3, <2>4
<1>3. ASSUME NEW b \in Browser, Subscribe(b) \/ Disconnect(b) PROVE PageTypeOK'
  <2>1. <<>> \in Seq(Snapshot) /\ Len(<<>>) = 0
    BY EmptySeq
  <2>2. stream' \in [Browser -> {"closed", "subscribed", "open"}]
        /\ connects' \in [Browser -> 0 .. MaxConnects]
        /\ dropped' \in SUBSET Browser
    <3>1. \E way \in {"closed", "subscribed"} : stream' = [stream EXCEPT ![b] = way]
      BY <1>3, Zenon DEF Subscribe, Disconnect
    <3>2. stream' \in [Browser -> {"closed", "subscribed", "open"}]
      BY <1>0, <3>1
    <3>3. CASE Subscribe(b)
      <4>1. connects[b] < MaxConnects /\ connects' = [connects EXCEPT ![b] = @ + 1]
        BY <3>3 DEF Subscribe
      <4>2. connects[b] + 1 \in 0 .. MaxConnects
        BY <1>0, <4>1, StatusBounds
      <4>3. connects' \in [Browser -> 0 .. MaxConnects]
        BY <1>0, <4>1, <4>2
      <4> QED
        BY <1>0, <3>2, <3>3, <4>3 DEF Subscribe
    <3>4. CASE Disconnect(b)
      BY <1>0, <3>2, <3>4 DEF Disconnect
    <3> QED
      BY <1>3, <3>3, <3>4
  <2>3. buffer' = [buffer EXCEPT ![b] = <<>>] /\ shown' \in [Browser -> Snapshot]
    BY <1>0, <1>3, BlankType DEF Subscribe, Disconnect
  <2> QED
    BY <1>0, <2>1, <2>2, <2>3, StatusBounds
<1>4. ASSUME NEW b \in Browser, FirstEvent(b) PROVE PageTypeOK'
  BY <1>0, <1>4 DEF FirstEvent, PublishTypeOK
<1>5. ASSUME NEW b \in Browser, NextEvent(b) PROVE PageTypeOK'
  <2>1. /\ Head(buffer[b]) \in Snapshot /\ Tail(buffer[b]) \in Seq(Snapshot)
        /\ Len(Tail(buffer[b])) = Len(buffer[b]) - 1 /\ Len(buffer[b]) \in Nat
    BY <1>0, <1>5, HeadTailProperties, LenProperties DEF NextEvent
  <2> QED
    BY <1>0, <1>5, <2>1, StatusBounds DEF NextEvent
<1> QED
  BY <1>1, <1>2, <1>3, <1>4, <1>5, StepCases DEF Starts, Keep, Send, Reads, ReadPlaying,
    ReadQueued, ReadHeld, ReadRest, Build, Browses

----------------------------------------------------------------------------
(* The last element of a sequence, when one is added to it or the first is *)
(* taken from it.                                                          *)
LEMMA LastOfAppend ==
  ASSUME NEW S, NEW s \in Seq(S), NEW x \in S
  PROVE  Append(s, x) # <<>> /\ Append(s, x)[Len(Append(s, x))] = x
<1>1. /\ Append(s, x) \in Seq(S) /\ Len(Append(s, x)) = Len(s) + 1
      /\ Append(s, x)[Len(s) + 1] = x /\ Len(s) \in Nat
  BY AppendProperties, LenProperties
<1>2. Append(s, x) # <<>>
  BY <1>1, EmptySeq
<1> QED
  BY <1>1, <1>2

LEMMA LastOfTail ==
  ASSUME NEW S, NEW s \in Seq(S), s # <<>>
  PROVE  /\ Tail(s) = <<>> => s[Len(s)] = Head(s)
         /\ Tail(s) # <<>> => Tail(s)[Len(Tail(s))] = s[Len(s)]
<1>1. /\ Head(s) = s[1] /\ Tail(s) \in Seq(S) /\ Len(Tail(s)) = Len(s) - 1
      /\ \A i \in 1 .. Len(Tail(s)) : Tail(s)[i] = s[i + 1]
      /\ Len(s) \in Nat
  BY HeadTailProperties, LenProperties
<1>2. Tail(s) = <<>> <=> Len(Tail(s)) = 0
  BY <1>1, EmptySeq
<1>3. Len(s) # 0
  BY EmptySeq
<1>4. CASE Tail(s) = <<>>
  <2>1. Len(s) = 1
    BY <1>1, <1>2, <1>4
  <2> QED
    BY <1>1, <1>4, <2>1
<1>5. CASE Tail(s) # <<>>
  <2>1. Len(s) - 1 \in 1 .. Len(Tail(s)) /\ (Len(s) - 1) + 1 = Len(s)
    BY <1>1, <1>2, <1>3, <1>5
  <2>2. Tail(s)[Len(s) - 1] = s[(Len(s) - 1) + 1]
    BY <1>1, <2>1
  <2> QED
    BY <1>1, <1>5, <2>1, <2>2
<1> QED
  BY <1>4, <1>5

(* A snapshot put on the loop by its keeper, or one that a browser takes   *)
(* from its queue, is the one the broadcaster keeps.                       *)
LEMMA AgreeStep ==
  TypeOK /\ KeptOK /\ AgreeOK /\ [Next]_vars => KeptOK' /\ AgreeOK'
<1> SUFFICES ASSUME TypeOK, KeptOK, AgreeOK, [Next]_vars PROVE KeptOK' /\ AgreeOK'
  OBVIOUS
<1>0. PageTypeOK /\ PublishTypeOK
  BY DEF TypeOK
<1>1. CASE UNCHANGED <<publish, page>>
  BY <1>1 DEF publish, page, KeptOK, AgreeOK, Arriving
<1>2. ASSUME NEW t \in Publisher, Starts(t) \/ Reads(t) PROVE KeptOK' /\ AgreeOK'
  <2>1. at[t] # "send" /\ at'[t] # "send"
        /\ (\A s \in Publisher \ {t} : at'[s] = at[s] /\ draft'[s] = draft[s])
        /\ UNCHANGED <<latest, calls, keptBy, sentBy, page>>
    <3>1. CASE Starts(t)
      BY <1>0, <3>1 DEF Starts, PublishStatus, PublishTypeOK
    <3>2. CASE Reads(t)
      <4>1. PICK next \in {"queued", "held", "rest", "keep"}, snapshot \in Snapshot :
              /\ at[t] \in {"playing", "queued", "held", "rest"}
              /\ at' = [at EXCEPT ![t] = next] /\ draft' = [draft EXCEPT ![t] = snapshot]
              /\ UNCHANGED <<latest, calls, order, passed, outdated, keptBy, sentBy, page>>
        BY <3>2, ReadsAreTyped
      <4> QED
        BY <1>0, <4>1 DEF PublishTypeOK
    <3> QED
      BY <1>2, <3>1, <3>2
  <2>2. keptBy \in Publisher
    BY <1>0 DEF PublishTypeOK
  <2>3. at'[keptBy] = "send" => at[keptBy] = "send" /\ draft'[keptBy] = draft[keptBy]
    BY <2>1, <2>2
  <2>4. at[keptBy] = "send" => at'[keptBy] = "send"
    BY <2>1, <2>2
  <2> QED
    BY <2>1, <2>3, <2>4 DEF KeptOK, AgreeOK, Arriving, page
<1>3. ASSUME NEW t \in Publisher, Keep(t) PROVE KeptOK' /\ AgreeOK'
  <2>1. at'[t] = "send" /\ keptBy' = t /\ latest' = draft[t] /\ draft' = draft
    BY <1>0, <1>3 DEF Keep, PublishTypeOK
  <2> QED
    BY <2>1 DEF KeptOK, AgreeOK
<1>4. ASSUME NEW t \in Publisher, Send(t) PROVE KeptOK' /\ AgreeOK'
  <2>1. /\ at[t] = "send" /\ at' = [at EXCEPT ![t] = "idle"]
        /\ draft' = [draft EXCEPT ![t] = Blank]
        /\ calls' = Append(calls, draft[t]) /\ sentBy' = t
        /\ UNCHANGED <<latest, keptBy, page>>
    BY <1>4, Zenon DEF Send
  <2>2. /\ keptBy \in Publisher /\ calls \in Seq(Snapshot) /\ draft[t] \in Snapshot
        /\ at'[t] = "idle"
        /\ \A s \in Publisher \ {t} : at'[s] = at[s] /\ draft'[s] = draft[s]
    BY <1>0, <2>1 DEF PublishTypeOK
  <2>3. CASE keptBy = t
    <3>1. draft[t] = latest
      BY <2>1, <2>3 DEF KeptOK
    <3>2. calls' # <<>> /\ calls'[Len(calls')] = latest'
      BY <2>1, <2>2, <3>1, LastOfAppend
    <3> QED
      BY <2>1, <2>2, <2>3, <3>2 DEF KeptOK, AgreeOK
  <2>4. CASE keptBy # t
    BY <2>1, <2>2, <2>4 DEF KeptOK, AgreeOK
  <2> QED
    BY <2>3, <2>4
<1>5. CASE Deliver
  <2> DEFINE in == {b \in Browser : stream[b] # "closed"}
             room == {b \in in : Len(buffer[b]) < QueueSize}
  <2>1. /\ calls # <<>> /\ calls' = Tail(calls)
        /\ buffer' = [b \in Browser |-> IF b \in room THEN Append(buffer[b], Head(calls))
                                                      ELSE buffer[b]]
        /\ dropped' = (dropped \ room) \cup (in \ room)
        /\ UNCHANGED <<at, draft, latest, keptBy, sentBy, stream, shown>>
    BY <1>5 DEF Deliver
  <2>2. calls \in Seq(Snapshot) /\ Head(calls) \in Snapshot
    BY <1>0, <2>1, HeadTailProperties DEF PublishTypeOK
  <2>3. KeptOK'
    BY <2>1 DEF KeptOK
  <2>4. SUFFICES ASSUME keptBy = sentBy, at[keptBy] # "send"
                 PROVE  /\ calls' # <<>> => calls'[Len(calls')] = latest
                        /\ calls' = <<>> =>
                             \A b \in Browser : stream[b] # "closed" /\ b \notin dropped' =>
                               Arriving(b)'
    BY <2>1, <2>3 DEF AgreeOK
  <2>5. calls[Len(calls)] = latest
    BY <2>1, <2>4 DEF AgreeOK
  <2>6. calls' # <<>> => calls'[Len(calls')] = latest
    BY <2>1, <2>2, <2>5, LastOfTail
  <2>7. ASSUME calls' = <<>>, NEW b \in Browser, stream[b] # "closed", b \notin dropped'
        PROVE  Arriving(b)'
    <3>1. Head(calls) = latest
      BY <2>1, <2>2, <2>5, <2>7, LastOfTail
    <3>2. b \in room
      BY <2>1, <2>7
    <3>3. buffer'[b] = Append(buffer[b], Head(calls)) /\ buffer[b] \in Seq(Snapshot)
      BY <1>0, <2>1, <3>2 DEF PageTypeOK
    <3>4. buffer'[b] # <<>> /\ buffer'[b][Len(buffer'[b])] = latest'
      BY <2>1, <2>2, <3>1, <3>3, LastOfAppend
    <3> QED
      BY <3>4 DEF Arriving
  <2> QED
    BY <2>6, <2>7
<1>6. ASSUME NEW b \in Browser, Browses(b) PROVE KeptOK' /\ AgreeOK'
  <2>1. UNCHANGED <<at, draft, latest, calls, keptBy, sentBy>>
    BY <1>6 DEF Browses, Subscribe, FirstEvent, NextEvent, Disconnect, publish
  <2>2. \A c \in Browser \ {b} : /\ stream'[c] = stream[c] /\ buffer'[c] = buffer[c]
                                 /\ shown'[c] = shown[c] /\ (c \in dropped' <=> c \in dropped)
    BY <1>0, <1>6 DEF Browses, Subscribe, FirstEvent, NextEvent, Disconnect, PageTypeOK
  <2>3. stream'[b] # "closed" /\ b \notin dropped' =>
          \/ Arriving(b)'
          \/ stream[b] # "closed" /\ b \notin dropped /\ (Arriving(b) => Arriving(b)')
    <3>1. CASE Subscribe(b)
      BY <1>0, <3>1 DEF Subscribe, PageTypeOK, Arriving
    <3>2. CASE FirstEvent(b)
      BY <1>0, <2>1, <3>2 DEF FirstEvent, PageTypeOK, Arriving
    <3>3. CASE NextEvent(b)
      <4>1. /\ buffer[b] # <<>> /\ buffer[b] \in Seq(Snapshot) /\ stream[b] = "open"
            /\ buffer'[b] = Tail(buffer[b]) /\ shown'[b] = Head(buffer[b])
            /\ stream' = stream /\ dropped' = dropped
        BY <1>0, <3>3 DEF NextEvent, PageTypeOK
      <4>2. /\ Tail(buffer[b]) = <<>> => buffer[b][Len(buffer[b])] = Head(buffer[b])
            /\ Tail(buffer[b]) # <<>> =>
                 Tail(buffer[b])[Len(Tail(buffer[b]))] = buffer[b][Len(buffer[b])]
        BY <4>1, LastOfTail
      <4> QED
        BY <2>1, <4>1, <4>2 DEF Arriving
    <3>4. CASE Disconnect(b)
      BY <1>0, <3>4 DEF Disconnect, PageTypeOK
    <3> QED
      BY <1>6, <3>1, <3>2, <3>3, <3>4 DEF Browses
  <2>4. ASSUME keptBy = sentBy, at[keptBy] # "send", calls = <<>>, NEW c \in Browser,
               stream'[c] # "closed", c \notin dropped'
        PROVE  Arriving(c)'
    <3>1. stream[c] # "closed" /\ c \notin dropped => Arriving(c)
      BY <2>4 DEF AgreeOK
    <3>2. CASE c = b
      BY <2>3, <2>4, <3>1, <3>2
    <3>3. CASE c # b
      BY <2>1, <2>2, <2>4, <3>1, <3>3 DEF Arriving
    <3> QED
      BY <3>2, <3>3
  <2> QED
    BY <2>1, <2>4 DEF KeptOK, AgreeOK
<1> QED
  BY <1>1, <1>2, <1>3, <1>4, <1>5, <1>6, StepCases

----------------------------------------------------------------------------
LEMMA IInvInit == Init => IInv
<1> SUFFICES ASSUME Init PROVE IInv
  OBVIOUS
<1> USE DEF Init
<1>0. <<>> \in Seq(Snapshot) /\ <<>> \in Seq(Publisher) /\ Len(<<>>) = 0 /\ DOMAIN <<>> = {}
  BY EmptySeq
<1>1. TableTypeOK
  BY RowsAssumption DEF TableInit, TableTypeOK, RowState
<1>2. PlayerTypeOK /\ ItemOK
  BY StatusBounds DEF PlayerTypeOK, ItemOK
<1>3. PublishTypeOK /\ OrderOK
  BY <1>0, BlankType DEF PublishTypeOK, OrderOK, Publisher
<1>4. PageTypeOK
  BY <1>0, BlankType, StatusBounds DEF PageTypeOK
<1>5. KeptOK /\ AgreeOK
  BY DEF KeptOK, AgreeOK, Publisher
<1> QED
  BY <1>1, <1>2, <1>3, <1>4, <1>5 DEF IInv, TypeOK

LEMMA IInvStep == IInv /\ [Next]_vars => IInv'
BY PlayerTypeStep, PublishTypeStep, PageTypeStep, AgreeStep DEF IInv, TypeOK

LEMMA Agreement == IInv => BrowsersAgree
<1> SUFFICES ASSUME IInv, NEW b \in Browser, AllPublished, CaughtUp(b), keptBy = sentBy,
                    b \notin dropped
             PROVE  shown[b] = latest
  BY DEF BrowsersAgree
<1>1. at[keptBy] # "send"
  BY DEF IInv, TypeOK, PublishTypeOK, AllPublished
<1>2. calls = <<>> /\ stream[b] = "open" /\ buffer[b] = <<>>
  BY DEF CaughtUp
<1>3. Arriving(b)
  BY <1>1, <1>2 DEF IInv, AgreeOK
<1> QED
  BY <1>2, <1>3 DEF Arriving

(* Nobody publishes twice at a time, what was kept last is what its        *)
(* publisher is about to send, and a snapshot that was kept and sent last  *)
(* is the last one on its way to every browser that had room for it: the   *)
(* invariant behind events.py and build_snapshot.                          *)
THEOREM StatusInvariance == Spec => []IInv
<1>1. Init => IInv
  BY IInvInit
<1>2. IInv /\ [Next]_vars => IInv'
  BY IInvStep
<1> QED
  BY <1>1, <1>2, PTL DEF Spec

(* The snapshots, the broadcaster's calls and the browsers' queues keep    *)
(* their types: no queue of a browser grows over QUEUE_SIZE, and a thread  *)
(* that is in publish_status is among those that publish.                  *)
THEOREM StatusTypes == Spec => []TypeOK
<1>1. IInv => TypeOK
  BY DEF IInv
<1> QED
  BY <1>1, StatusInvariance, PTL

(* Whatever the threads and the event loop do, a browser that caught up    *)
(* shows what the broadcaster would give to one that connects now, unless  *)
(* two publishers crossed or its queue was full for the last snapshot.     *)
THEOREM OpenPagesAgree == Spec => []BrowsersAgree
<1>1. IInv => BrowsersAgree
  BY Agreement
<1> QED
  BY <1>1, StatusInvariance, PTL

=============================================================================
