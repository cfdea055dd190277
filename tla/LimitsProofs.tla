---------------------------- MODULE LimitsProofs ----------------------------
(***************************************************************************)
(* Proofs about Limits, for every number of people, threads, announcements *)
(* and wrong passwords, every limit, window and lockout: the type          *)
(* invariant, what the counter of wrong passwords counts, how many         *)
(* announcements one person gets into the window, and that the wait they   *)
(* are told is long enough.                                                *)
(***************************************************************************)
EXTENDS Limits, FiniteSetTheorems, TLAPS

(* What a handler knows of the person it serves.                           *)
Known(work) ==
  /\ work.at # "idle" => work.who \in Person
  /\ work.at = "wrong" => work.failed < MaxWrong

JobOK == \A t \in Thread : Known(job[t])

(* There is room for the wrong passwords that are still to be counted.     *)
RoomOK == \A p \in Person : wrong[p] + Cardinality(Counting(p)) <= MaxWrong

(* A copy of a counter is the counter, unless another was written over it. *)
CopiesOK ==
  \A p \in Person \ mixed : \A t \in Counting(p) : job[t].failed = failed[p]

(* Whoever was told when they can send again is below the limit, or has an *)
(* announcement that leaves the window by then, give or take a second.     *)
ToldOK ==
  \A p \in Person : told[p] # None =>
    \/ Used(p) < Limit
    \/ /\ Used(p) = Limit
       /\ \E r \in Recent(p) : sent[p][r] + Second * Window < told[p] + Second

(* The inductive invariant.                                                *)
IInv == TypeOK /\ JobOK /\ RoomOK /\ CountIsExact /\ CopiesOK /\ RateKept /\ ToldOK

----------------------------------------------------------------------------
(* The second that a tick is in begins at the tick or one tick before.     *)
LEMMA WholeSecondFacts ==
  ASSUME NEW n \in Nat
  PROVE  WholeSecond(n) \in Nat /\ WholeSecond(n) <= n /\ n <= WholeSecond(n) + 1
BY DEF WholeSecond, Second

(* The answer to a request that is refused lies within the bounds of the   *)
(* clock, and less than a second short of the end of the window.           *)
LEMMA RetryAfterFacts ==
  ASSUME now \in 0 .. LastTick, NEW oldest \in 0 .. LastTick
  PROVE  /\ now + Second * RetryAfter(oldest) \in 0 .. LastTick + Second * Window
         /\ oldest + Second * Window < now + Second * RetryAfter(oldest) + Second
<1>1. Window \in Nat \ {0} /\ LastTick \in Nat
  BY SettingsAssumption, LimitBounds
<1> DEFINE rest == oldest + Second * Window
<1>2. CASE rest < now + Second
  BY <1>1, <1>2 DEF RetryAfter, Second
<1>3. CASE ~(rest < now + Second)
  <2>1. rest - now \in Nat
    BY <1>1, <1>3 DEF Second
  <2>2. WholeSecond(rest - now) = Second * RetryAfter(oldest)
    BY <1>3 DEF RetryAfter, WholeSecond
  <2> QED
    BY <1>1, <2>1, <2>2, WholeSecondFacts DEF Second
<1> QED
  BY <1>2, <1>3

(* The handlers of one person are finitely many, no more than the threads. *)
LEMMA ThreadsOf ==
  ASSUME NEW S \in SUBSET Thread
  PROVE  IsFiniteSet(S) /\ Cardinality(S) \in Nat /\ Cardinality(S) <= Cardinality(Thread)
BY ThreadAssumption, FS_Subset, FS_CardinalityType

LEMMA ThreadCount == Cardinality(Thread) \in Nat
BY ThreadAssumption, FS_CardinalityType

(* So are the announcements of one person.                                 *)
LEMMA RowsOf ==
  ASSUME NEW S \in SUBSET Row
  PROVE  IsFiniteSet(S) /\ Cardinality(S) \in Nat
<1>1. IsFiniteSet(Row)
  BY LimitBounds, FS_Interval DEF Row
<1> QED
  BY <1>1, FS_Subset, FS_CardinalityType

(* A handler that begins joins those that do the same for the same person. *)
LEMMA Begins ==
  ASSUME TypeOK, NEW t \in Thread, NEW work \in Job, Begin(t, work), NEW p \in Person
  PROVE  /\ job' \in [Thread -> Job] /\ job'[t] = work
         /\ \A o \in Thread \ {t} : job'[o] = job[o]
         /\ t \notin Counting(p) /\ t \notin Sending(p)
         /\ Counting(p)' = Counting(p) \cup (IF work.at = "wrong" /\ work.who = p THEN {t} ELSE {})
         /\ Sending(p)' = Sending(p) \cup (IF work.at = "insert" /\ work.who = p THEN {t} ELSE {})
BY DEF TypeOK, Begin, NoJob, Counting, Sending

(* One that is done leaves them.                                           *)
LEMMA Ends ==
  ASSUME TypeOK, NEW t \in Thread, Done(t), NEW p \in Person
  PROVE  /\ job' \in [Thread -> Job] /\ job'[t] = NoJob
         /\ \A o \in Thread \ {t} : job'[o] = job[o]
         /\ Counting(p)' = Counting(p) \ {t} /\ Sending(p)' = Sending(p) \ {t}
<1>1. NoJob \in Job
  BY LimitBounds DEF NoJob, Job
<1> QED
  BY <1>1 DEF TypeOK, Done, NoJob, Counting, Sending

(* The handler of p that holds a copy is one of those that are counted.    *)
LEMMA OneIsCounting ==
  ASSUME JobOK, RoomOK, TypeOK, NEW t \in Thread, NEW p \in Person,
         job[t].at = "wrong", job[t].who = p
  PROVE  /\ wrong[p] + 1 <= MaxWrong
         /\ Cardinality(Counting(p)) \in Nat
         /\ Cardinality(Counting(p) \ {t}) = Cardinality(Counting(p)) - 1
<1>1. t \in Counting(p) /\ Counting(p) \in SUBSET Thread
  BY DEF Counting
<1>2. IsFiniteSet(Counting(p)) /\ Cardinality(Counting(p)) \in Nat
  BY <1>1, ThreadsOf
<1>3. Cardinality(Counting(p) \ {t}) = Cardinality(Counting(p)) - 1
  BY <1>1, <1>2, FS_RemoveElement
<1>4. Cardinality(Counting(p) \ {t}) \in Nat
  BY <1>1, ThreadsOf
<1>5. wrong[p] + Cardinality(Counting(p)) <= MaxWrong
  BY DEF RoomOK
<1> QED
  BY <1>2, <1>3, <1>4, <1>5, LimitBounds DEF TypeOK

(* What the handlers that begin have to do.                                *)
LEMMA WorkTypes ==
  ASSUME NEW p \in Person
  PROVE  /\ [at |-> "welcome", who |-> p, failed |-> 0] \in Job
         /\ [at |-> "insert", who |-> p, failed |-> 0] \in Job
         /\ \A n \in 0 .. MaxWrong : [at |-> "wrong", who |-> p, failed |-> n] \in Job
BY LimitBounds DEF Job

----------------------------------------------------------------------------
(* Every step preserves TypeOK.                                            *)
LEMMA TypeStep == TypeOK /\ JobOK /\ RoomOK /\ [Next]_vars => TypeOK'
<1> SUFFICES ASSUME TypeOK, JobOK, RoomOK, [Next]_vars PROVE TypeOK'
  OBVIOUS
<1>1. CASE UNCHANGED vars
  BY <1>1 DEF vars, TypeOK
<1>2. CASE Tick
  BY <1>2, LimitBounds DEF Tick, TypeOK, lock, rate
<1>3. ASSUME NEW t \in Thread, NEW p \in Person, GuessWrong(t, p) PROVE TypeOK'
  <2>1. [at |-> "wrong", who |-> p, failed |-> failed[p]] \in Job
    BY WorkTypes DEF TypeOK
  <2> QED
    BY <1>3, <2>1, Begins DEF GuessWrong, TypeOK, lock, rate
<1>4. ASSUME NEW t \in Thread, NEW p \in Person, GuessRight(t, p) PROVE TypeOK'
  BY <1>4, WorkTypes, Begins DEF GuessRight, TypeOK, lock, rate
<1>5. ASSUME NEW t \in Thread, NEW p \in Person, CheckRate(t, p) PROVE TypeOK'
  BY <1>5, WorkTypes, Begins DEF CheckRate, TypeOK, lock, rate
<1>6. ASSUME NEW t \in Thread, NEW p \in Person, RefuseRate(t, p) PROVE TypeOK'
  <2>1. PICK first \in Recent(p) :
          told' = [told EXCEPT ![p] = IF Used(p) = Limit
                                      THEN now + Second * RetryAfter(sent[p][first]) ELSE None]
    BY <1>6 DEF RefuseRate
  <2>2. sent[p][first] \in 0 .. LastTick
    BY DEF Recent, Rows, TypeOK
  <2>3. now + Second * RetryAfter(sent[p][first]) \in 0 .. LastTick + Second * Window
    BY <2>2, RetryAfterFacts DEF TypeOK
  <2> QED
    BY <1>6, <2>1, <2>3 DEF RefuseRate, TypeOK, lock
<1>7. ASSUME NEW t \in Thread, RegisterFailure(t) PROVE TypeOK'
  <2>1. PICK p \in Person : p = job[t].who
    BY <1>7 DEF RegisterFailure, JobOK, Known
  <2>2. Failures(t) \in 0 .. MaxWrong /\ wrong[p] + 1 \in 0 .. MaxWrong
    <3>1. job[t].at = "wrong" /\ job[t].who = p
      BY <1>7, <2>1 DEF RegisterFailure
    <3>2. wrong[p] + 1 <= MaxWrong
      BY <3>1, OneIsCounting
    <3>3. job[t].failed \in 0 .. MaxWrong /\ job[t].failed < MaxWrong
      BY <3>1 DEF JobOK, Known, TypeOK, Job
    <3> QED
      BY <3>2, <3>3, LimitBounds DEF Failures, TypeOK
  <2>3. WholeSecond(now + Second * Lockout) \in 0 .. LastTick + Second * Lockout
    BY WholeSecondFacts, SettingsAssumption, LimitBounds DEF TypeOK, Second
  <2>4. 0 \in 0 .. LastTick + Second * Lockout
    BY SettingsAssumption, LimitBounds DEF Second
  <2> HIDE DEF Failures
  <2> QED
    BY <1>7, <2>1, <2>2, <2>3, <2>4, Ends DEF RegisterFailure, TypeOK, rate
<1>8. ASSUME NEW t \in Thread, Welcome(t) PROVE TypeOK'
  <2>1. PICK p \in Person : p = job[t].who
    BY <1>8 DEF Welcome, JobOK, Known
  <2>2. 0 \in 0 .. LastTick + Second * Lockout /\ 0 \in 0 .. MaxWrong
    BY SettingsAssumption, LimitBounds DEF Second
  <2> QED
    BY <1>8, <2>1, <2>2, Ends DEF Welcome, ClearFailures, TypeOK, rate
<1>9. ASSUME NEW t \in Thread, Enqueue(t) PROVE TypeOK'
  <2>1. PICK p \in Person : p = job[t].who
    BY <1>9 DEF Enqueue, JobOK, Known
  <2>2. PICK r \in Row : sent' = [sent EXCEPT ![p][r] = WholeSecond(now)]
    BY <1>9, <2>1 DEF Enqueue
  <2>3. WholeSecond(now) \in 0 .. LastTick
    BY WholeSecondFacts, LimitBounds DEF TypeOK
  <2> QED
    BY <1>9, <2>1, <2>2, <2>3, Ends DEF Enqueue, TypeOK, lock
<1>10. ASSUME NEW t \in Thread, Abort(t) PROVE TypeOK'
  <2>1. job' \in [Thread -> Job]
    <3>1. NoJob \in Job
      BY LimitBounds DEF NoJob, Job
    <3> QED
      BY <1>10, <3>1 DEF Abort, Done, TypeOK
  <2> QED
    BY <1>10, <2>1 DEF Abort, TypeOK, lock, rate
<1>11. ASSUME NEW p \in Person, Unlock(p) PROVE TypeOK'
  <2>1. 0 \in 0 .. LastTick + Second * Lockout /\ 0 \in 0 .. MaxWrong
    BY SettingsAssumption, LimitBounds DEF Second
  <2> QED
    BY <1>11, <2>1 DEF Unlock, ClearFailures, TypeOK, rate
<1>12. ASSUME NEW p \in Person, NEW gone, Purge(p, gone) PROVE TypeOK'
  BY <1>12 DEF Purge, TypeOK, lock
<1> QED
  BY <1>1, <1>2, <1>3, <1>4, <1>5, <1>6, <1>7, <1>8, <1>9, <1>10, <1>11, <1>12 DEF Next

(* Every step preserves JobOK.                                             *)
LEMMA JobStep == TypeOK /\ JobOK /\ [Next]_vars => JobOK'
<1> SUFFICES ASSUME TypeOK, JobOK, [Next]_vars, NEW o \in Thread PROVE Known(job'[o])
  BY DEF JobOK, Known
<1>1. CASE job' = job
  BY <1>1 DEF JobOK
<1>2. ASSUME NEW t \in Thread, NEW work, Known(work), Begin(t, work) PROVE Known(job'[o])
  BY <1>2 DEF Begin, JobOK, TypeOK
<1>3. ASSUME NEW t \in Thread, NEW p \in Person, GuessWrong(t, p) PROVE Known(job'[o])
  <2>1. Known([at |-> "wrong", who |-> p, failed |-> failed[p]])
    BY <1>3 DEF GuessWrong, Known
  <2> QED
    BY <1>2, <1>3, <2>1 DEF GuessWrong
<1>4. ASSUME NEW t \in Thread, NEW p \in Person, GuessRight(t, p) \/ CheckRate(t, p)
      PROVE  Known(job'[o])
  <2>1. /\ Known([at |-> "welcome", who |-> p, failed |-> 0])
        /\ Known([at |-> "insert", who |-> p, failed |-> 0])
    BY DEF Known
  <2> QED
    BY <1>2, <1>4, <2>1 DEF GuessRight, CheckRate
<1>5. ASSUME NEW t \in Thread, Done(t) PROVE Known(job'[o])
  BY <1>5 DEF Done, NoJob, JobOK, Known, TypeOK
<1>6. \/ job' = job
      \/ \E t \in Thread, p \in Person : GuessWrong(t, p)
      \/ \E t \in Thread, p \in Person : GuessRight(t, p) \/ CheckRate(t, p)
      \/ \E t \in Thread : Done(t)
  BY DEF Next, Tick, RefuseRate, Unlock, Purge, vars, RegisterFailure, Welcome, Enqueue, Abort
<1> QED
  BY <1>1, <1>3, <1>4, <1>5, <1>6

----------------------------------------------------------------------------
(* A step that changes nothing about the counters but the number of copies *)
(* that are held keeps them, when the copies become fewer.                 *)
LEMMA CountersKept ==
  ASSUME TypeOK, RoomOK, CountIsExact, CopiesOK, UNCHANGED lock,
         \A t \in Thread : job'[t].at = "wrong" => job'[t] = job[t]
  PROVE  RoomOK' /\ CountIsExact' /\ CopiesOK'
<1>1. \A p \in Person : Counting(p)' \subseteq Counting(p)
  BY DEF Counting
<1>2. ASSUME NEW p \in Person
      PROVE  Cardinality(Counting(p)') <= Cardinality(Counting(p))
             /\ Cardinality(Counting(p)') \in Nat /\ Cardinality(Counting(p)) \in Nat
  <2>1. Counting(p) \in SUBSET Thread /\ Counting(p)' \in SUBSET Counting(p)
    BY <1>1 DEF Counting
  <2> QED
    BY <2>1, ThreadsOf, FS_Subset
<1>3. RoomOK'
  <2> SUFFICES ASSUME NEW p \in Person
               PROVE  wrong'[p] + Cardinality(Counting(p)') <= MaxWrong
    BY DEF RoomOK
  <2>1. wrong[p] + Cardinality(Counting(p)) <= MaxWrong
    BY DEF RoomOK
  <2> QED
    BY <1>2, <2>1, LimitBounds DEF lock, TypeOK
<1>4. CountIsExact'
  BY DEF CountIsExact, lock
<1>5. CopiesOK'
  BY <1>1 DEF CopiesOK, Counting, lock
<1> QED
  BY <1>3, <1>4, <1>5

(* A counter that is cleared is zero, and every copy of it is stale.       *)
LEMMA CountersCleared ==
  ASSUME TypeOK, RoomOK, CountIsExact, CopiesOK, NEW p \in Person, ClearFailures(p),
         \A t \in Thread : job'[t].at = "wrong" => job'[t] = job[t]
  PROVE  RoomOK' /\ CountIsExact' /\ CopiesOK'
<1>1. \A q \in Person : Counting(q)' \subseteq Counting(q)
  BY DEF Counting
<1>2. ASSUME NEW q \in Person
      PROVE  Cardinality(Counting(q)') <= Cardinality(Counting(q))
             /\ Cardinality(Counting(q)') \in Nat /\ Cardinality(Counting(q)) \in Nat
  <2>1. Counting(q) \in SUBSET Thread /\ Counting(q)' \in SUBSET Counting(q)
    BY <1>1 DEF Counting
  <2> QED
    BY <2>1, ThreadsOf, FS_Subset
<1>3. RoomOK'
  <2> SUFFICES ASSUME NEW q \in Person
               PROVE  wrong'[q] + Cardinality(Counting(q)') <= MaxWrong
    BY DEF RoomOK
  <2>1. wrong[q] + Cardinality(Counting(q)) <= MaxWrong /\ wrong'[q] <= wrong[q]
        /\ wrong'[q] \in Nat /\ wrong[q] \in Nat
    BY LimitBounds DEF RoomOK, ClearFailures, TypeOK
  <2> QED
    BY <1>2, <2>1, LimitBounds
<1>4. \A q \in Person \ mixed' : q # p => q \notin mixed
  BY DEF ClearFailures
<1>5. CountIsExact'
  BY <1>4, SettingsAssumption DEF CountIsExact, ClearFailures, TypeOK
<1>6. CopiesOK'
  <2> SUFFICES ASSUME NEW q \in Person, q \notin mixed', NEW t \in Counting(q)'
               PROVE  job'[t].failed = failed'[q]
    BY DEF CopiesOK
  <2>1. t \in Counting(q) /\ job'[t] = job[t]
    BY <1>1 DEF Counting
  <2>2. q # p
    BY <2>1 DEF ClearFailures
  <2> QED
    BY <1>4, <2>1, <2>2 DEF CopiesOK, ClearFailures, TypeOK
<1> QED
  BY <1>3, <1>5, <1>6

(* Every step preserves what is known of the counters.                     *)
LEMMA CountStep ==
  TypeOK /\ JobOK /\ RoomOK /\ CountIsExact /\ CopiesOK /\ [Next]_vars
    => RoomOK' /\ CountIsExact' /\ CopiesOK'
<1> SUFFICES ASSUME TypeOK, JobOK, RoomOK, CountIsExact, CopiesOK, [Next]_vars
             PROVE  RoomOK' /\ CountIsExact' /\ CopiesOK'
  OBVIOUS
<1>1. CASE UNCHANGED <<job, lock>>
  BY <1>1, CountersKept
<1>2. ASSUME NEW t \in Thread, NEW p \in Person, GuessRight(t, p) \/ CheckRate(t, p)
      PROVE  RoomOK' /\ CountIsExact' /\ CopiesOK'
  <2>1. \A o \in Thread : job'[o].at = "wrong" => job'[o] = job[o]
    BY <1>2 DEF GuessRight, CheckRate, Begin, TypeOK
  <2> QED
    BY <1>2, <2>1, CountersKept DEF GuessRight, CheckRate
<1>3. ASSUME NEW t \in Thread, Enqueue(t) \/ Abort(t)
      PROVE  RoomOK' /\ CountIsExact' /\ CopiesOK'
  <2>1. \A o \in Thread : job'[o].at = "wrong" => job'[o] = job[o]
    BY <1>3 DEF Enqueue, Abort, Done, NoJob, TypeOK
  <2> QED
    BY <1>3, <2>1, CountersKept DEF Enqueue, Abort
<1>4. ASSUME NEW t \in Thread, Welcome(t) PROVE RoomOK' /\ CountIsExact' /\ CopiesOK'
  <2>1. \A o \in Thread : job'[o].at = "wrong" => job'[o] = job[o]
    BY <1>4 DEF Welcome, Done, NoJob, TypeOK
  <2>2. PICK p \in Person : p = job[t].who
    BY <1>4 DEF Welcome, JobOK, Known
  <2> QED
    BY <1>4, <2>1, <2>2, CountersCleared DEF Welcome
<1>5. ASSUME NEW p \in Person, Unlock(p) PROVE RoomOK' /\ CountIsExact' /\ CopiesOK'
  BY <1>5, CountersCleared DEF Unlock
<1>6. ASSUME NEW t \in Thread, NEW p \in Person, GuessWrong(t, p)
      PROVE  RoomOK' /\ CountIsExact' /\ CopiesOK'
  <2> DEFINE work == [at |-> "wrong", who |-> p, failed |-> failed[p]]
  <2>1. work \in Job /\ Begin(t, work)
    BY <1>6, WorkTypes DEF GuessWrong, TypeOK
  <2>2. \A q \in Person \ {p} : Counting(q)' = Counting(q)
    BY <2>1, Begins
  <2>3. Counting(p)' = Counting(p) \cup {t} /\ t \notin Counting(p)
    BY <2>1, Begins
  <2>4. Cardinality(Counting(p)') = Cardinality(Counting(p)) + 1
    <3>1. IsFiniteSet(Counting(p))
      BY ThreadsOf DEF Counting
    <3> QED
      BY <2>3, <3>1, FS_AddElement
  <2>5. Cardinality(Counting(p)) \in Nat
    BY ThreadsOf DEF Counting
  <2>6. UNCHANGED lock /\ wrong[p] + Cardinality(Counting(p)) < MaxWrong
    BY <1>6 DEF GuessWrong
  <2>7. RoomOK'
    BY <2>2, <2>4, <2>5, <2>6, LimitBounds DEF RoomOK, lock, TypeOK
  <2>8. CountIsExact'
    BY <2>6 DEF CountIsExact, lock
  <2>9. job'[t].failed = failed[p] /\ \A o \in Thread \ {t} : job'[o] = job[o]
    BY <2>1, Begins
  <2>10. CopiesOK'
    <3> SUFFICES ASSUME NEW q \in Person \ mixed, NEW o \in Counting(q)'
                 PROVE  job'[o].failed = failed[q]
      BY <2>6 DEF CopiesOK, lock
    <3>1. CASE o = t
      BY <2>2, <2>3, <2>9, <3>1 DEF Counting, TypeOK, GuessWrong, Begin, NoJob
    <3>2. CASE o # t
      <4>1. o \in Counting(q) /\ o \in Thread
        BY <2>2, <2>3, <3>2 DEF Counting
      <4> QED
        BY <2>9, <3>2, <4>1 DEF CopiesOK
    <3> QED
      BY <3>1, <3>2
  <2> QED
    BY <2>7, <2>8, <2>10
<1>7. ASSUME NEW t \in Thread, RegisterFailure(t) PROVE RoomOK' /\ CountIsExact' /\ CopiesOK'
  <2>1. PICK p \in Person : p = job[t].who
    BY <1>7 DEF RegisterFailure, JobOK, Known
  <2>2. job[t].at = "wrong" /\ t \in Counting(p)
    BY <1>7, <2>1 DEF RegisterFailure, Counting
  <2>3. \A q \in Person : Counting(q)' = Counting(q) \ {t}
    BY <1>7, Ends DEF RegisterFailure
  <2>4. \A q \in Person \ {p} : t \notin Counting(q)
    BY <2>1 DEF Counting
  <2>5. \A q \in Person \ {p} : /\ failed'[q] = failed[q] /\ lockedUntil'[q] = lockedUntil[q]
                                /\ wrong'[q] = wrong[q]
    BY <1>7, <2>1 DEF RegisterFailure, TypeOK
  <2>6. failed'[p] = Failures(t) /\ wrong'[p] = wrong[p] + 1
        /\ lockedUntil'[p] = IF Failures(t) >= MaxFailures
                             THEN WholeSecond(now + Second * Lockout) ELSE 0
    BY <1>7, <2>1 DEF RegisterFailure, TypeOK
  <2>7. mixed \subseteq mixed' /\ (p \notin mixed' => Counting(p) = {t})
    BY <1>7, <2>1 DEF RegisterFailure
  <2>8. RoomOK'
    <3> SUFFICES ASSUME NEW q \in Person
                 PROVE  wrong'[q] + Cardinality(Counting(q)') <= MaxWrong
      BY DEF RoomOK
    <3>1. CASE q = p
      <4>1. /\ Cardinality(Counting(p)) \in Nat
            /\ Cardinality(Counting(p) \ {t}) = Cardinality(Counting(p)) - 1
        BY <2>1, <2>2, OneIsCounting
      <4>2. wrong[p] + Cardinality(Counting(p)) <= MaxWrong /\ wrong[p] \in Nat
        BY DEF RoomOK, TypeOK
      <4>3. Counting(p)' = Counting(p) \ {t}
        BY <2>3
      <4> QED
        BY <2>6, <3>1, <4>1, <4>2, <4>3, LimitBounds
    <3>2. CASE q # p
      BY <2>3, <2>4, <2>5, <3>2 DEF RoomOK
    <3> QED
      BY <3>1, <3>2
  <2>9. CountIsExact'
    <3> SUFFICES ASSUME NEW q \in Person \ mixed'
                 PROVE  /\ failed'[q] = wrong'[q]
                        /\ (lockedUntil'[q] # 0) <=> (wrong'[q] >= MaxFailures)
      BY DEF CountIsExact
    <3>1. CASE q = p
      <4>1. p \notin mixed
        BY <2>7, <3>1
      <4>2. job[t].failed = failed[p] /\ failed[p] = wrong[p]
        BY <2>2, <4>1 DEF CopiesOK, CountIsExact
      <4>3. WholeSecond(now + Second * Lockout) # 0
        <5>1. now + Second * Lockout \in Nat /\ now + Second * Lockout > 1
          BY SettingsAssumption, LimitBounds DEF TypeOK, Second
        <5> QED
          BY <5>1, WholeSecondFacts
      <4> QED
        BY <2>6, <3>1, <4>2, <4>3 DEF Failures
    <3>2. CASE q # p
      BY <2>5, <2>7, <3>2 DEF CountIsExact
    <3> QED
      BY <3>1, <3>2
  <2>10. CopiesOK'
    <3> SUFFICES ASSUME NEW q \in Person \ mixed', NEW o \in Counting(q)'
                 PROVE  job'[o].failed = failed'[q]
      BY DEF CopiesOK
    <3>1. o \in Counting(q) \ {t}
      BY <2>3
    <3>2. q # p
      BY <2>7, <3>1
    <3>3. job'[o] = job[o]
      BY <1>7, <3>1 DEF RegisterFailure, Done, Counting, TypeOK
    <3> QED
      BY <2>5, <2>7, <3>1, <3>2, <3>3 DEF CopiesOK
  <2> QED
    BY <2>8, <2>9, <2>10
<1>8. \/ UNCHANGED <<job, lock>>
      \/ \E t \in Thread, p \in Person : GuessRight(t, p) \/ CheckRate(t, p)
      \/ \E t \in Thread : Enqueue(t) \/ Abort(t)
      \/ \E t \in Thread : Welcome(t)
      \/ \E p \in Person : Unlock(p)
      \/ \E t \in Thread, p \in Person : GuessWrong(t, p)
      \/ \E t \in Thread : RegisterFailure(t)
  BY DEF Next, Tick, RefuseRate, Purge, vars, lock
<1> QED
  BY <1>1, <1>2, <1>3, <1>4, <1>5, <1>6, <1>7, <1>8

----------------------------------------------------------------------------
(* Unless announcements are added, the window only gets emptier.           *)
LEMMA WindowEmpties ==
  ASSUME TypeOK, [Next]_vars, \A t \in Thread : ~Enqueue(t), NEW p \in Person
  PROVE  /\ Recent(p)' \subseteq Recent(p)
         /\ \A r \in Recent(p)' : sent'[p][r] = sent[p][r]
<1>1. CASE UNCHANGED <<now, sent>>
  BY <1>1 DEF Recent, Rows, InWindow
<1>2. CASE Tick
  <2>1. now + 1 \in Nat /\ WholeSecond(now) <= WholeSecond(now + 1)
        /\ WholeSecond(now) \in Nat /\ WholeSecond(now + 1) \in Nat
    BY LimitBounds DEF TypeOK, WholeSecond, Second
  <2>2. now' = now + 1 /\ sent' = sent
    BY <1>2 DEF Tick, rate
  <2>3. ASSUME NEW r \in Row, sent[p][r] # None,
               sent[p][r] + Second * Window >= WholeSecond(now + 1)
        PROVE  sent[p][r] + Second * Window >= WholeSecond(now)
    <3>1. sent[p][r] \in Nat
      BY <2>3, LimitBounds DEF TypeOK
    <3> QED
      BY <2>1, <2>3, <3>1, SettingsAssumption DEF Second
  <2> QED
    BY <2>2, <2>3 DEF Recent, Rows, InWindow
<1>3. ASSUME NEW q \in Person, NEW gone, Purge(q, gone)
      PROVE  /\ Recent(p)' \subseteq Recent(p)
             /\ \A r \in Recent(p)' : sent'[p][r] = sent[p][r]
  <2>1. now' = now
    BY <1>3 DEF Purge
  <2>2. \A r \in Row : sent'[p][r] = None \/ sent'[p][r] = sent[p][r]
    BY <1>3 DEF Purge, TypeOK
  <2> QED
    BY <2>1, <2>2 DEF Recent, Rows, InWindow
<1>4. UNCHANGED <<now, sent>> \/ Tick \/ \E q \in Person : \E gone : Purge(q, gone)
  BY DEF Next, GuessWrong, GuessRight, CheckRate, RefuseRate, RegisterFailure, Welcome,
    Abort, Unlock, vars, rate
<1> QED
  BY <1>1, <1>2, <1>3, <1>4

(* Then fewer announcements are in it, or the same ones.                   *)
LEMMA UsedFalls ==
  ASSUME NEW p \in Person, Recent(p)' \subseteq Recent(p)
  PROVE  /\ Used(p) \in Nat /\ Used(p)' \in Nat /\ Used(p)' <= Used(p)
         /\ Used(p)' = Used(p) => Recent(p)' = Recent(p)
<1>1. Recent(p) \in SUBSET Row /\ Recent(p)' \in SUBSET Recent(p)
  BY DEF Recent, Rows
<1> QED
  BY <1>1, RowsOf, FS_Subset DEF Used

(* Storing an announcement puts one more into the window of its sender,    *)
(* and nothing into those of others.                                       *)
LEMMA OneMore ==
  ASSUME TypeOK, JobOK, NEW t \in Thread, Enqueue(t), NEW p \in Person
  PROVE  /\ Used(p) \in Nat /\ Used(p)' \in Nat
         /\ job[t].who = p => Used(p)' <= Used(p) + 1
         /\ job[t].who # p => /\ Recent(p)' = Recent(p) /\ sent'[p] = sent[p]
<1>1. PICK q \in Person : q = job[t].who
  BY DEF Enqueue, JobOK, Known
<1>2. PICK r \in Row : sent' = [sent EXCEPT ![q][r] = WholeSecond(now)]
  BY <1>1 DEF Enqueue
<1>3. now' = now
  BY DEF Enqueue
<1>4. q # p => sent'[p] = sent[p]
  BY <1>2 DEF TypeOK
<1>5. \A s \in Row \ {r} : sent'[p][s] = sent[p][s]
  BY <1>2 DEF TypeOK
<1>6. Recent(p)' \subseteq Recent(p) \cup {r}
  BY <1>3, <1>5 DEF Recent, Rows, InWindow
<1>7. q # p => Recent(p)' = Recent(p)
  BY <1>3, <1>4 DEF Recent, Rows, InWindow
<1>8. Used(p) \in Nat /\ Used(p)' \in Nat /\ IsFiniteSet(Recent(p))
  <2>1. Recent(p) \in SUBSET Row /\ Recent(p)' \in SUBSET Row
    BY DEF Recent, Rows
  <2> QED
    BY <2>1, RowsOf DEF Used
<1>9. Used(p)' <= Used(p) + 1
  <2>1. IsFiniteSet(Recent(p) \cup {r})
    BY <1>8, FS_AddElement
  <2>2. Cardinality(Recent(p) \cup {r}) \in Nat
    BY <2>1, FS_CardinalityType
  <2>3. Cardinality(Recent(p) \cup {r}) <= Used(p) + 1
    BY <1>8, FS_AddElement DEF Used
  <2>4. Cardinality(Recent(p)') <= Cardinality(Recent(p) \cup {r})
    BY <1>6, <2>1, FS_Subset
  <2> QED
    BY <1>8, <2>2, <2>3, <2>4 DEF Used
<1> QED
  BY <1>1, <1>4, <1>7, <1>8, <1>9

(* Every step preserves RateKept: a thread brings its announcement over    *)
(* the limit when the others have theirs still to store.                   *)
LEMMA RateStep == TypeOK /\ JobOK /\ RateKept /\ [Next]_vars => RateKept'
<1> SUFFICES ASSUME TypeOK, JobOK, RateKept, [Next]_vars, NEW p \in Person \ Admin
             PROVE  Used(p)' + Cardinality(Sending(p)') <= Limit - 1 + Cardinality(Thread)
  BY DEF RateKept
<1>1. /\ Used(p) + Cardinality(Sending(p)) <= Limit - 1 + Cardinality(Thread)
      /\ Limit \in Nat /\ Cardinality(Thread) \in Nat
  BY SettingsAssumption, ThreadCount DEF RateKept
<1>2. /\ Cardinality(Sending(p)) \in Nat /\ Cardinality(Sending(p)') \in Nat
      /\ Cardinality(Sending(p)') <= Cardinality(Thread)
      /\ Sending(p)' \subseteq Sending(p)
           => Cardinality(Sending(p)') <= Cardinality(Sending(p))
  <2>1. Sending(p) \in SUBSET Thread /\ Sending(p)' \in SUBSET Thread
    BY DEF Sending
  <2> QED
    BY <2>1, ThreadsOf, FS_Subset
<1>3. ASSUME \A t \in Thread : ~Enqueue(t)
      PROVE  Used(p) \in Nat /\ Used(p)' \in Nat /\ Used(p)' <= Used(p)
  BY <1>3, WindowEmpties, UsedFalls
<1>4. CASE Sending(p)' \subseteq Sending(p) /\ \A t \in Thread : ~Enqueue(t)
  BY <1>1, <1>2, <1>3, <1>4
<1>5. ASSUME NEW t \in Thread, CheckRate(t, p)
      PROVE  Used(p)' + Cardinality(Sending(p)') <= Limit - 1 + Cardinality(Thread)
  <2>1. Used(p) < Limit
    BY <1>5 DEF CheckRate, Allowed
  <2>2. Used(p) \in Nat /\ Used(p)' = Used(p)
    <3>1. Recent(p) \in SUBSET Row
      BY DEF Recent, Rows
    <3>2. Recent(p)' = Recent(p)
      BY <1>5 DEF CheckRate, rate, Recent, Rows, InWindow
    <3> QED
      BY <3>1, <3>2, RowsOf DEF Used
  <2> QED
    BY <1>1, <1>2, <2>1, <2>2
<1>6. ASSUME NEW t \in Thread, Enqueue(t)
      PROVE  Used(p)' + Cardinality(Sending(p)') <= Limit - 1 + Cardinality(Thread)
  <2>1. Sending(p)' = Sending(p) \ {t}
    BY <1>6, Ends DEF Enqueue
  <2>2. CASE job[t].who = p
    <3>1. t \in Sending(p)
      BY <1>6, <2>2 DEF Enqueue, Sending
    <3>2. IsFiniteSet(Sending(p))
      BY ThreadsOf DEF Sending
    <3>3. Cardinality(Sending(p)') = Cardinality(Sending(p)) - 1
      BY <2>1, <3>1, <3>2, FS_RemoveElement
    <3>4. Used(p) \in Nat /\ Used(p)' \in Nat /\ Used(p)' <= Used(p) + 1
      BY <1>6, <2>2, OneMore
    <3> QED
      BY <1>1, <1>2, <3>3, <3>4
  <2>3. CASE job[t].who # p
    <3>1. Used(p) \in Nat /\ Used(p)' = Used(p)
      BY <1>6, <2>3, OneMore DEF Used
    <3>2. Cardinality(Sending(p)') <= Cardinality(Sending(p))
      BY <1>2, <2>1
    <3> QED
      BY <1>1, <1>2, <3>1, <3>2
  <2> QED
    BY <2>2, <2>3
<1>7. \/ Sending(p)' \subseteq Sending(p) \/ \E t \in Thread : CheckRate(t, p)
      \/ \E t \in Thread : Enqueue(t)
  <2>1. CASE job' = job
    BY <2>1 DEF Sending
  <2>2. CASE \E t \in Thread : Done(t)
    BY <2>2, Ends
  <2>3. ASSUME NEW t \in Thread, NEW q \in Person, CheckRate(t, q), q # p
        PROVE  Sending(p)' \subseteq Sending(p)
    BY <2>3 DEF CheckRate, Begin, Sending, TypeOK
  <2>4. ASSUME NEW t \in Thread, NEW q \in Person, GuessWrong(t, q) \/ GuessRight(t, q)
        PROVE  Sending(p)' \subseteq Sending(p)
    BY <2>4 DEF GuessWrong, GuessRight, Begin, Sending, TypeOK
  <2>5. \/ job' = job \/ \E t \in Thread : Done(t)
        \/ \E t \in Thread, q \in Person : CheckRate(t, q) \/ GuessWrong(t, q) \/ GuessRight(t, q)
    BY DEF Next, Tick, RefuseRate, Unlock, Purge, vars, RegisterFailure, Welcome, Enqueue, Abort
  <2> QED
    BY <2>1, <2>2, <2>3, <2>4, <2>5
<1> QED
  BY <1>4, <1>5, <1>6, <1>7

(* Every step preserves ToldOK.                                            *)
LEMMA ToldStep == TypeOK /\ JobOK /\ ToldOK /\ [Next]_vars => ToldOK'
<1> DEFINE Soon(p) == \/ Used(p) < Limit
                      \/ /\ Used(p) = Limit
                         /\ \E r \in Recent(p) :
                              sent[p][r] + Second * Window < told[p] + Second
<1> SUFFICES ASSUME TypeOK, JobOK, ToldOK, [Next]_vars, NEW p \in Person, told'[p] # None
             PROVE  Soon(p)'
  BY DEF ToldOK
<1>1. ASSUME Recent(p)' \subseteq Recent(p), told'[p] = told[p],
             \A r \in Recent(p)' : sent'[p][r] = sent[p][r]
      PROVE  Soon(p)'
  <2>1. Soon(p) /\ Limit \in Nat
    BY <1>1, SettingsAssumption DEF ToldOK
  <2>2. /\ Used(p) \in Nat /\ Used(p)' \in Nat /\ Used(p)' <= Used(p)
        /\ Used(p)' = Used(p) => Recent(p)' = Recent(p)
    BY <1>1, UsedFalls
  <2> QED
    BY <1>1, <2>1, <2>2
<1>2. ASSUME NEW t \in Thread, Enqueue(t) PROVE Soon(p)'
  <2>1. PICK q \in Person : q = job[t].who
    BY <1>2 DEF Enqueue, JobOK, Known
  <2>2. told' = [told EXCEPT ![q] = None]
    BY <1>2, <2>1 DEF Enqueue
  <2>3. q # p /\ told'[p] = told[p]
    BY <2>2 DEF TypeOK
  <2>4. Recent(p)' = Recent(p) /\ sent'[p] = sent[p]
    BY <1>2, <2>1, <2>3, OneMore
  <2> QED
    BY <1>1, <2>3, <2>4
<1>3. ASSUME NEW t \in Thread, NEW q \in Person, RefuseRate(t, q) PROVE Soon(p)'
  <2>1. Recent(p)' = Recent(p) /\ sent' = sent /\ Used(p)' = Used(p)
    BY <1>3 DEF RefuseRate, Recent, Rows, InWindow, Used
  <2>2. PICK first \in Recent(q) :
          told' = [told EXCEPT ![q] = IF Used(q) = Limit
                                      THEN now + Second * RetryAfter(sent[q][first]) ELSE None]
    BY <1>3 DEF RefuseRate
  <2>3. CASE q # p
    <3>1. told'[p] = told[p]
      BY <2>2, <2>3 DEF TypeOK
    <3> QED
      BY <1>1, <2>1, <3>1
  <2>4. CASE q = p
    <3>1. Used(p) = Limit /\ told'[p] = now + Second * RetryAfter(sent[p][first])
      BY <2>2, <2>4 DEF TypeOK
    <3>2. sent[p][first] \in 0 .. LastTick
      BY <2>4 DEF Recent, Rows, TypeOK
    <3>3. sent[p][first] + Second * Window < told'[p] + Second
      BY <3>1, <3>2, RetryAfterFacts DEF TypeOK
    <3> QED
      BY <2>1, <2>2, <2>4, <3>1, <3>3
  <2> QED
    BY <2>3, <2>4
<1>4. CASE told' = told /\ \A t \in Thread : ~Enqueue(t)
  BY <1>1, <1>4, WindowEmpties
<1>5. \/ told' = told \/ \E t \in Thread : Enqueue(t)
      \/ \E t \in Thread, q \in Person : RefuseRate(t, q)
  BY DEF Next, Tick, GuessWrong, GuessRight, CheckRate, RegisterFailure, Welcome,
    Abort, Unlock, Purge, vars, rate
<1> QED
  BY <1>2, <1>3, <1>4, <1>5

----------------------------------------------------------------------------
(* Nobody has tried anything in the initial state.                         *)
LEMMA IInvInit == Init => IInv
<1> SUFFICES ASSUME Init PROVE IInv
  OBVIOUS
<1>1. TypeOK
  <2>1. NoJob \in Job
    BY LimitBounds DEF NoJob, Job
  <2>2. 0 \in 0 .. LastTick + Second * Lockout /\ 0 \in 0 .. MaxWrong /\ 0 \in 0 .. LastTick
    BY SettingsAssumption, LimitBounds DEF Second
  <2> QED
    BY <2>1, <2>2 DEF Init, TypeOK
<1>2. \A p \in Person : Counting(p) = {} /\ Sending(p) = {} /\ Recent(p) = {}
  BY DEF Init, NoJob, Counting, Sending, Recent, Rows
<1>3. \A p \in Person : Cardinality(Counting(p)) = 0 /\ Cardinality(Sending(p)) = 0
                        /\ Used(p) = 0
  BY <1>2, FS_EmptySet DEF Used
<1>4. JobOK
  BY DEF Init, NoJob, JobOK, Known
<1>5. RoomOK /\ CountIsExact /\ CopiesOK
  BY <1>2, <1>3, LimitBounds, SettingsAssumption DEF Init, RoomOK, CountIsExact, CopiesOK
<1>6. RateKept
  BY <1>3, ThreadCount, SettingsAssumption DEF RateKept
<1>7. ToldOK
  BY <1>3, SettingsAssumption DEF ToldOK
<1> QED
  BY <1>1, <1>4, <1>5, <1>6, <1>7 DEF IInv

(* Every step preserves the inductive invariant.                           *)
LEMMA IInvStep == IInv /\ [Next]_vars => IInv'
BY TypeStep, JobStep, CountStep, RateStep, ToldStep DEF IInv

(* Once the wait is over, with two seconds for the rounding, the oldest     *)
(* announcement has left the window.                                       *)
LEMMA WaitedEnough == TypeOK /\ ToldOK => WaitIsEnough
<1> SUFFICES ASSUME TypeOK, ToldOK, NEW p \in Person, told[p] # None,
                    now >= told[p] + 2 * Second
             PROVE  Used(p) < Limit
  BY DEF WaitIsEnough
<1> SUFFICES ASSUME NEW r \in Recent(p), sent[p][r] + Second * Window < told[p] + Second
             PROVE  FALSE
  BY DEF ToldOK
<1>1. sent[p][r] \in Nat /\ told[p] \in Nat /\ now \in Nat /\ Window \in Nat
  BY LimitBounds, SettingsAssumption DEF TypeOK, Recent, Rows, Second
<1>2. sent[p][r] + Second * Window >= WholeSecond(now)
  BY DEF Recent, InWindow
<1>3. WholeSecond(now) \in Nat /\ now <= WholeSecond(now) + 1
  BY <1>1, WholeSecondFacts
<1> QED
  BY <1>1, <1>2, <1>3 DEF Second

(* The inductive invariant holds in every state that can be reached.       *)
THEOREM LimitsInvariance == Spec => []IInv
<1>1. Init => IInv
  BY IInvInit
<1>2. IInv /\ [Next]_vars => IInv'
  BY IInvStep
<1> QED
  BY <1>1, <1>2, PTL DEF Spec

(* The counters, the locks, the announcements and the waits have their     *)
(* types: no lock lasts longer than login_lockout_seconds from now.        *)
THEOREM LimitsTypes == Spec => []TypeOK
<1>1. IInv => TypeOK
  BY DEF IInv
<1> QED
  BY <1>1, LimitsInvariance, PTL

(* failed_logins counts the wrong passwords, and the account is locked     *)
(* exactly from login_max_failures on, unless the counter was written while *)
(* another sign-in held a copy of it.                                      *)
THEOREM CountingIsExact == Spec => []CountIsExact
<1>1. IInv => CountIsExact
  BY DEF IInv
<1> QED
  BY <1>1, LimitsInvariance, PTL

(* However many requests come at once, a person gets at most one more than *)
(* the limit into the window for each thread but one.                      *)
THEOREM RateIsKept == Spec => []RateKept
<1>1. IInv => RateKept
  BY DEF IInv
<1> QED
  BY <1>1, LimitsInvariance, PTL

(* Whoever waits as long as they were told, and two seconds, can send.     *)
THEOREM WaitingIsEnough == Spec => []WaitIsEnough
<1>1. IInv => WaitIsEnough
  BY WaitedEnough DEF IInv
<1> QED
  BY <1>1, LimitsInvariance, PTL
=============================================================================
