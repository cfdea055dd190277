--------------------------- MODULE ListenerProofs ---------------------------
(***************************************************************************)
(* Proofs about Words and Listener, by induction over numbers and texts.   *)
(* The induction is over sets, from WFMin: what is to be shown of every    *)
(* number is made a set, and the set shown to hold them all.               *)
(***************************************************************************)
EXTENDS Listener, SequenceTheorems, WellFoundedInduction, TLAPS

(* A set with zero and with the successor of each of its numbers has all.  *)
LEMMA SetInduction ==
  ASSUME NEW S, 0 \in S, \A n \in Nat : n \in S => n + 1 \in S
  PROVE  Nat \subseteq S
<1> SUFFICES ASSUME Nat \ S # {} PROVE FALSE
  OBVIOUS
<1>1. IsWellFoundedOn(OpToRel(<, Nat), Nat)
  BY NatLessThanWellFounded
<1>2. PICK n \in Nat \ S : \A m \in Nat \ S : ~ (<<m, n>> \in OpToRel(<, Nat))
  BY <1>1, WFMin
<1>3. n - 1 \in Nat /\ n - 1 \notin S
  BY SMT
<1>4. <<n - 1, n>> \in OpToRel(<, Nat)
  BY <1>3 DEF OpToRel
<1> QED BY <1>2, <1>3, <1>4

(* A set with each number that comes after members only has all numbers.   *)
LEMMA StrongInduction ==
  ASSUME NEW S, \A n \in Nat : (\A m \in Nat : m < n => m \in S) => n \in S
  PROVE  Nat \subseteq S
<1> DEFINE Below == {n \in Nat : \A m \in Nat : m < n => m \in S}
<1>1. 0 \in Below
  OBVIOUS
<1>2. ASSUME NEW n \in Nat, n \in Below PROVE n + 1 \in Below
  <2>1. n \in S
    BY <1>2
  <2>2. \A m \in Nat : m < n + 1 => m < n \/ m = n
    OBVIOUS
  <2> QED BY <1>2, <2>1, <2>2
<1> HIDE DEF Below
<1>3. Nat \subseteq Below
  BY <1>1, <1>2, SetInduction
<1> QED BY <1>3 DEF Below

(* f is worked out step by step from a.                                    *)
Stepped(f, a, n, step) == f[0] = a /\ \A k \in 1 .. n : f[k] = step[k][f[k - 1]]

LEMMA StepByStep ==
  ASSUME NEW T, NEW a \in T, NEW n \in Nat, NEW step \in [1 .. n -> [T -> T]]
  PROVE  \E f \in [0 .. n -> T] : Stepped(f, a, n, step)
<1> DEFINE S == {m \in Nat : m <= n => \E f \in [0 .. m -> T] : Stepped(f, a, m, step)}
<1>1. 0 \in S
  <2>1. [k \in 0 .. 0 |-> a] \in [0 .. 0 -> T] /\ Stepped([k \in 0 .. 0 |-> a], a, 0, step)
    BY DEF Stepped
  <2> QED BY <2>1
<1>2. ASSUME NEW m \in Nat, m \in S PROVE m + 1 \in S
  <2> SUFFICES ASSUME m + 1 <= n PROVE \E f \in [0 .. m + 1 -> T] : Stepped(f, a, m + 1, step)
    OBVIOUS
  <2>1. PICK f \in [0 .. m -> T] : Stepped(f, a, m, step)
    BY <1>2
  <2> DEFINE g == [k \in 0 .. m + 1 |-> IF k = m + 1 THEN step[m + 1][f[m]] ELSE f[k]]
  <2>2. g \in [0 .. m + 1 -> T]
    OBVIOUS
  <2>3. Stepped(g, a, m + 1, step)
    BY <2>1 DEF Stepped
  <2> QED BY <2>2, <2>3
<1> HIDE DEF S
<1>3. n \in S
  BY <1>1, <1>2, SetInduction
<1> QED BY <1>3 DEF S

LEMMA StaysIn ==
  ASSUME NEW T, NEW n \in Nat, NEW f, f[0] \in T, \A k \in 1 .. n : f[k - 1] \in T => f[k] \in T
  PROVE  \A k \in 0 .. n : f[k] \in T
<1> DEFINE S == {k \in Nat : k <= n => f[k] \in T}
<1>1. 0 \in S
  OBVIOUS
<1>2. ASSUME NEW k \in Nat, k \in S PROVE k + 1 \in S
  <2> SUFFICES ASSUME k + 1 <= n PROVE f[k + 1] \in T
    OBVIOUS
  <2>1. f[k] \in T /\ k + 1 \in 1 .. n /\ (k + 1) - 1 = k
    BY <1>2
  <2> QED BY <2>1, Zenon
<1> HIDE DEF S
<1>3. Nat \subseteq S
  BY <1>1, <1>2, SetInduction
<1> QED BY <1>3 DEF S

(* f is worked out up to n, each value from those of smaller numbers.      *)
Worked(f, n, step) == \A k \in Nat : k < n => f[k] = step[k][f]
Same(f, g, n) == \A k \in Nat : k < n => f[k] = g[k]
Local(step, T) ==
  \A k \in Nat : \A f, g \in [Nat -> T] : Same(f, g, k) => step[k][f] = step[k][g]
Solves(f, step) == \A k \in Nat : f[k] = step[k][f]

LEMMA WorkedIsUnique ==
  ASSUME NEW T, NEW step \in [Nat -> [[Nat -> T] -> T]], Local(step, T),
         NEW n \in Nat, NEW f \in [Nat -> T], NEW g \in [Nat -> T],
         Worked(f, n, step), Worked(g, n, step)
  PROVE  Same(f, g, n)
<1> DEFINE S == {k \in Nat : k < n => f[k] = g[k]}
<1>1. ASSUME NEW k \in Nat, \A m \in Nat : m < k => m \in S PROVE k \in S
  <2> SUFFICES ASSUME k < n PROVE f[k] = g[k]
    OBVIOUS
  <2>1. Same(f, g, k)
    BY <1>1 DEF Same
  <2> QED BY <2>1 DEF Worked, Local
<1> HIDE DEF S
<1>2. Nat \subseteq S
  BY <1>1, StrongInduction
<1> QED BY <1>2 DEF S, Same

LEMMA WorkedOut ==
  ASSUME NEW T, NEW a \in T, NEW step \in [Nat -> [[Nat -> T] -> T]], Local(step, T)
  PROVE  \E f \in [Nat -> T] : Solves(f, step)
<1> DEFINE S == {n \in Nat : \E f \in [Nat -> T] : Worked(f, n, step)}
<1>1. 0 \in S
  <2>1. [k \in Nat |-> a] \in [Nat -> T] /\ Worked([k \in Nat |-> a], 0, step)
    BY DEF Worked
  <2> QED BY <2>1
<1>2. ASSUME NEW n \in Nat, n \in S PROVE n + 1 \in S
  <2>1. PICK f \in [Nat -> T] : Worked(f, n, step)
    BY <1>2
  <2> DEFINE g == [f EXCEPT ![n] = step[n][f]]
  <2>2. g \in [Nat -> T]
    OBVIOUS
  <2>3. ASSUME NEW k \in Nat, k < n + 1 PROVE g[k] = step[k][g]
    <3>1. Same(f, g, k)
      BY <2>3 DEF Same
    <3>2. step[k][f] = step[k][g]
      BY <2>2, <3>1 DEF Local
    <3>3. g[k] = step[k][f]
      BY <2>1, <2>3 DEF Worked
    <3> QED BY <3>2, <3>3
  <2>4. Worked(g, n + 1, step)
    BY <2>3 DEF Worked
  <2> HIDE DEF g
  <2> QED BY <2>2, <2>4
<1> HIDE DEF S
<1>3. Nat \subseteq S
  BY <1>1, <1>2, SetInduction
<1> DEFINE upto(n) == CHOOSE f \in [Nat -> T] : Worked(f, n, step)
<1>4. ASSUME NEW n \in Nat PROVE upto(n) \in [Nat -> T] /\ Worked(upto(n), n, step)
  <2>1. \E f \in [Nat -> T] : Worked(f, n, step)
    BY <1>3 DEF S
  <2> QED BY <2>1
<1> HIDE DEF upto
<1> DEFINE all == [n \in Nat |-> upto(n + 1)[n]]
<1>5. all \in [Nat -> T]
  BY <1>4
<1>6. ASSUME NEW n \in Nat PROVE Same(upto(n + 1), all, n + 1)
  <2> SUFFICES ASSUME NEW k \in Nat, k < n + 1 PROVE upto(n + 1)[k] = upto(k + 1)[k]
    BY DEF Same
  <2>1. Worked(upto(n + 1), k + 1, step)
    BY <1>4 DEF Worked
  <2>2. Same(upto(n + 1), upto(k + 1), k + 1)
    <3>1. /\ upto(n + 1) \in [Nat -> T] /\ upto(k + 1) \in [Nat -> T]
          /\ Worked(upto(k + 1), k + 1, step) /\ k + 1 \in Nat
      BY <1>4
    <3> QED BY <2>1, <3>1, WorkedIsUnique, Zenon
  <2> QED BY <2>2 DEF Same
<1>7. ASSUME NEW n \in Nat PROVE all[n] = step[n][all]
  <2>1. all[n] = step[n][upto(n + 1)]
    BY <1>4 DEF Worked
  <2>2. Same(upto(n + 1), all, n)
    BY <1>6 DEF Same
  <2>3. upto(n + 1) \in [Nat -> T]
    BY <1>4
  <2>4. step[n][upto(n + 1)] = step[n][all]
    BY <1>5, <2>2, <2>3, Zenon DEF Local
  <2> QED BY <2>1, <2>4, Zenon
<1> QED BY <1>5, <1>7 DEF Solves
----------------------------------------------------------------------------
(* What numbers.py says is defined for every number.                       *)

WordSeq == {s \in Seq(NumberVocabulary) : Len(s) > 0}

LEMMA WordSeqOne == ASSUME NEW x \in NumberVocabulary PROVE <<x>> \in WordSeq
<1>1. <<x>> \in Seq(NumberVocabulary)
  BY SMT
<1>2. Len(<<x>>) > 0
  BY SMT
<1> QED BY <1>1, <1>2, Zenon DEF WordSeq

LEMMA WordSeqTwo ==
  ASSUME NEW s \in WordSeq, NEW t, t \in WordSeq \/ t = <<>>
  PROVE  s \o t \in WordSeq
<1>1. s \in Seq(NumberVocabulary) /\ Len(s) > 0 /\ t \in Seq(NumberVocabulary)
  <2>1. <<>> \in Seq(NumberVocabulary)
    BY SMT
  <2> QED BY <2>1, Zenon DEF WordSeq
<1>2. s \o t \in Seq(NumberVocabulary) /\ Len(s \o t) > 0
  BY <1>1, SMT
<1> QED BY <1>2, Zenon DEF WordSeq

Scaling(f, n, unit, name) ==
  f[n \div unit] \o <<name>> \o (IF n % unit = 0 THEN <<>> ELSE f[n % unit])

(* What is said of n, once every smaller number can be said.               *)
NumberBody(f, n) ==
  IF n < 20 THEN <<One(n)>>
  ELSE IF n < 100 THEN <<Tens[n \div 10]>> \o (IF n % 10 = 0 THEN <<>> ELSE <<One(n % 10)>>)
  ELSE IF n < Thousand THEN Scaling(f, n, 100, "hundred")
  ELSE IF n < Million THEN Scaling(f, n, Thousand, "thousand")
  ELSE IF n < Billion THEN Scaling(f, n, Million, "million")
  ELSE Scaling(f, n, Billion, "billion")

(* The units, and the numbers that are said with them.                     *)
Units == {<<100, "hundred">>, <<Thousand, "thousand">>, <<Million, "million">>,
          <<Billion, "billion">>}

LEMMA Sizes ==
  /\ Thousand \in Nat /\ Million \in Nat /\ Billion \in Nat
  /\ Thousand > 100 /\ Million > Thousand /\ Billion > Million
BY SMT DEF Thousand, Million, Billion

SaidByUnit(n, unit, name) ==
  unit <= n /\ \A f : NumberBody(f, n) = Scaling(f, n, unit, name)
SaidByTens(n) ==
  \A f : NumberBody(f, n) = <<Tens[n \div 10]>> \o (IF n % 10 = 0 THEN <<>> ELSE <<One(n % 10)>>)

LEMMA NumberBodyCases ==
  ASSUME NEW n \in Nat
  PROVE  \/ n < 20 /\ \A f : NumberBody(f, n) = <<One(n)>>
         \/ n \in 20 .. 99 /\ SaidByTens(n)
         \/ n \in 100 .. Thousand - 1 /\ SaidByUnit(n, 100, "hundred")
         \/ n \in Thousand .. Million - 1 /\ SaidByUnit(n, Thousand, "thousand")
         \/ n \in Million .. Billion - 1 /\ SaidByUnit(n, Million, "million")
         \/ n >= Billion /\ SaidByUnit(n, Billion, "billion")
<1>1. CASE n < 20
  BY <1>1, SMT DEF NumberBody
<1>2. CASE n \in 20 .. 99
  BY <1>2, SMT DEF NumberBody, SaidByTens
<1>3. CASE n \in 100 .. Thousand - 1
  BY <1>3, Sizes, SMT DEF NumberBody, SaidByUnit
<1>4. CASE n \in Thousand .. Million - 1
  BY <1>4, Sizes, SMT DEF NumberBody, SaidByUnit
<1>5. CASE n \in Million .. Billion - 1
  BY <1>5, Sizes, SMT DEF NumberBody, SaidByUnit
<1>6. CASE n >= Billion
  BY <1>6, Sizes, SMT DEF NumberBody, SaidByUnit
<1> QED BY <1>1, <1>2, <1>3, <1>4, <1>5, <1>6, Sizes, SMT

LEMMA NumberBodyUnit ==
  ASSUME NEW n \in Nat
  PROVE  \/ n < 20 /\ \A f : NumberBody(f, n) = <<One(n)>>
         \/ n \in 20 .. 99 /\ SaidByTens(n)
         \/ \E u \in Units : SaidByUnit(n, u[1], u[2])
<1>1. \A u, w : <<u, w>>[1] = u /\ <<u, w>>[2] = w
  OBVIOUS
<1>2. /\ <<100, "hundred">> \in Units /\ <<Thousand, "thousand">> \in Units
      /\ <<Million, "million">> \in Units /\ <<Billion, "billion">> \in Units
  BY DEF Units
<1> QED BY <1>1, <1>2, NumberBodyCases, Zenon

LEMMA DivMod ==
  ASSUME NEW n \in Nat, NEW b \in Nat \ {0}
  PROVE  n = b * (n \div b) + (n % b) /\ n \div b \in Nat /\ n % b \in 0 .. b - 1
BY SMT

LEMMA UnitFacts ==
  ASSUME NEW n \in Nat, NEW u \in Units, u[1] <= n
  PROVE  /\ u[1] \in Nat \ {0} /\ u[2] \in NumberVocabulary
         /\ n \div u[1] \in Nat \ {0} /\ n \div u[1] < n
         /\ n % u[1] \in Nat /\ n % u[1] < u[1]
<1>1. u[1] \in Nat /\ u[1] > 1
  BY Sizes, SMT DEF Units
<1>2. u[2] \in {"hundred", "thousand", "million", "billion"}
  BY DEF Units
<1>3. n \div u[1] > 0 /\ n \div u[1] < n
  BY <1>1, SMT
<1>4. n \div u[1] \in Nat /\ n % u[1] \in 0 .. u[1] - 1
  <2>1. u[1] \in Nat \ {0}
    BY <1>1, SMT
  <2> QED BY <2>1, DivMod, Zenon
<1>5. u[2] \in NumberVocabulary
  BY <1>2 DEF NumberVocabulary
<1> QED BY <1>1, <1>3, <1>4, <1>5, SMT

LEMMA TensFacts ==
  ASSUME NEW n \in 20 .. 99
  PROVE  /\ n \div 10 \in 1 .. 9 /\ n % 10 \in 0 .. 9
         /\ Tens[n \div 10] \in NumberVocabulary /\ One(n % 10) \in NumberVocabulary
<1>1. n \div 10 \in 1 .. 9 /\ n % 10 \in 0 .. 9 /\ n % 10 \in 0 .. 19
  BY SMT
<1> QED BY <1>1 DEF NumberVocabulary

LEMMA ScalingType ==
  ASSUME NEW f, NEW n \in Nat, NEW unit \in Nat \ {0}, NEW name \in NumberVocabulary,
         f[n \div unit] \in WordSeq, f[n % unit] \in WordSeq
  PROVE  Scaling(f, n, unit, name) \in WordSeq
<1>1. f[n \div unit] \o <<name>> \in WordSeq
  BY WordSeqOne, WordSeqTwo
<1> QED BY <1>1, WordSeqTwo DEF Scaling

LEMMA NumberBodyType ==
  ASSUME NEW n \in Nat, NEW f, \A m \in Nat : m < n => f[m] \in WordSeq
  PROVE  NumberBody(f, n) \in WordSeq
<1>1. CASE n < 20 /\ \A g : NumberBody(g, n) = <<One(n)>>
  <2>1. One(n) \in NumberVocabulary
    BY <1>1 DEF NumberVocabulary
  <2> QED BY <1>1, <2>1, WordSeqOne
<1>2. CASE n \in 20 .. 99 /\ SaidByTens(n)
  <2>1. <<Tens[n \div 10]>> \in WordSeq /\ <<One(n % 10)>> \in WordSeq
    BY <1>2, TensFacts, WordSeqOne
  <2>2. <<Tens[n \div 10]>> \o (IF n % 10 = 0 THEN <<>> ELSE <<One(n % 10)>>) \in WordSeq
    BY <2>1, WordSeqTwo
  <2> QED BY <1>2, <2>2, Zenon DEF SaidByTens
<1>3. ASSUME NEW u \in Units, SaidByUnit(n, u[1], u[2])
      PROVE  NumberBody(f, n) \in WordSeq
  <2>1. u[1] <= n /\ NumberBody(f, n) = Scaling(f, n, u[1], u[2])
    BY <1>3 DEF SaidByUnit
  <2>2. f[n \div u[1]] \in WordSeq /\ f[n % u[1]] \in WordSeq
    BY <2>1, UnitFacts
  <2>3. Scaling(f, n, u[1], u[2]) \in WordSeq
    BY <2>1, <2>2, UnitFacts, ScalingType
  <2> QED BY <2>1, <2>3
<1> QED BY <1>1, <1>2, <1>3, NumberBodyUnit

LEMMA NumberBodyLocal ==
  ASSUME NEW n \in Nat, NEW f, NEW g, Same(f, g, n)
  PROVE  NumberBody(f, n) = NumberBody(g, n)
<1>1. ASSUME NEW u \in Units, SaidByUnit(n, u[1], u[2])
      PROVE  NumberBody(f, n) = NumberBody(g, n)
  <2>1. u[1] <= n
    BY <1>1 DEF SaidByUnit
  <2>2. f[n \div u[1]] = g[n \div u[1]] /\ f[n % u[1]] = g[n % u[1]]
    BY <2>1, UnitFacts DEF Same
  <2>3. Scaling(f, n, u[1], u[2]) = Scaling(g, n, u[1], u[2])
    BY <2>2, Zenon DEF Scaling
  <2> QED BY <1>1, <2>3, Zenon DEF SaidByUnit
<1>2. CASE n \in 20 .. 99 /\ SaidByTens(n)
  BY <1>2, Zenon DEF SaidByTens
<1> QED BY <1>1, <1>2, NumberBodyUnit

LEMMA NumberWordsDef == NumberWords = [n \in Nat |-> NumberBody(NumberWords, n)]
<1>1. \E f : f = [n \in Nat |-> NumberBody(f, n)]
  <2> DEFINE step == [n \in Nat |-> [f \in [Nat -> WordSeq] |-> NumberBody(f, n)]]
  <2>1. step \in [Nat -> [[Nat -> WordSeq] -> WordSeq]]
    BY NumberBodyType
  <2>2. ASSUME NEW k \in Nat, NEW f \in [Nat -> WordSeq], NEW g \in [Nat -> WordSeq],
               Same(f, g, k)
        PROVE  step[k][f] = step[k][g]
    BY <2>2, NumberBodyLocal
  <2>3. \A k \in Nat, f \in [Nat -> WordSeq] : step[k][f] = NumberBody(f, k)
    OBVIOUS
  <2>4. <<"hundred">> \in WordSeq
    BY WordSeqOne DEF NumberVocabulary
  <2> HIDE DEF step
  <2>5. Local(step, WordSeq)
    BY <2>2 DEF Local
  <2>6. \E f \in [Nat -> WordSeq] : Solves(f, step)
    BY <2>1, <2>4, <2>5, WorkedOut, Zenon
  <2>7. PICK f \in [Nat -> WordSeq] : Solves(f, step)
    BY <2>6
  <2>8. f = [n \in Nat |-> NumberBody(f, n)]
    BY <2>3, <2>7 DEF Solves
  <2> QED BY <2>8
<1> DEFINE chosen == CHOOSE f : f = [n \in Nat |-> NumberBody(f, n)]
<1>2. chosen = [n \in Nat |-> NumberBody(chosen, n)]
  BY <1>1, Zenon
<1>3. NumberWords = chosen
  BY Zenon DEF NumberWords, NumberBody, Scaling
<1> HIDE DEF chosen
<1> QED BY <1>2, <1>3

LEMMA NumberWordsType == \A n \in Nat : NumberWords[n] \in WordSeq
<1> DEFINE S == {n \in Nat : NumberWords[n] \in WordSeq}
<1>1. ASSUME NEW n \in Nat, \A m \in Nat : m < n => m \in S PROVE n \in S
  <2>1. NumberBody(NumberWords, n) \in WordSeq
    BY <1>1, NumberBodyType
  <2>2. NumberWords[n] = NumberBody(NumberWords, n)
    BY NumberWordsDef, Zenon
  <2> QED BY <2>1, <2>2
<1> HIDE DEF S
<1>2. Nat \subseteq S
  BY <1>1, StrongInduction
<1> QED BY <1>2 DEF S
----------------------------------------------------------------------------
(* What is heard can be worked out word by word.                           *)

Sums == Int \X Int
Hearing(f, sum, words) ==
  f[0] = sum /\ \A k \in 1 .. Len(words) : f[k] = Hear(f[k - 1], words[k])

LEMMA SmallType == \A word : Small(word) \in Int
<1> SUFFICES ASSUME NEW word PROVE Small(word) \in Int
  OBVIOUS
<1>1. CASE \E n \in 0 .. 99 : SmallWords[n] = <<word>>
  <2> DEFINE m == CHOOSE n \in 0 .. 99 : SmallWords[n] = <<word>>
  <2>1. m \in 0 .. 99
    BY <1>1, Zenon
  <2>2. Small(word) = 0 \/ Small(word) = m
    BY <1>1, Zenon DEF Small
  <2> HIDE DEF m
  <2> QED BY <2>1, <2>2, SMT
<1>2. CASE ~ \E n \in 0 .. 99 : SmallWords[n] = <<word>>
  <2>1. Small(word) = 0 \/ Small(word) = -1
    BY <1>2, Zenon DEF Small
  <2> QED BY <2>1, SMT
<1> QED BY <1>1, <1>2

LEMMA HearType == ASSUME NEW sum \in Sums, NEW word PROVE Hear(sum, word) \in Sums
<1>1. sum[1] \in Int /\ sum[2] \in Int /\ Small(word) \in Int
  BY SmallType DEF Sums
<1>2. \A x, y \in Int : <<x, y>> \in Sums
  BY DEF Sums
<1> HIDE DEF Sums
<1>3. /\ 100 * sum[2] \in Int /\ sum[1] + Thousand * sum[2] \in Int /\ 0 \in Int
      /\ sum[1] + Million * sum[2] \in Int /\ Billion * (sum[1] + sum[2]) \in Int
      /\ sum[2] + Small(word) \in Int
  BY <1>1, Sizes, SMT
<1> QED BY <1>1, <1>2, <1>3, Zenon DEF Hear

LEMMA ListenFunction ==
  ASSUME NEW A, NEW words \in Seq(A), NEW sum \in Sums
  PROVE  \E f : /\ f \in [0 .. Len(words) -> Sums] /\ Hearing(f, sum, words)
                /\ Listen(sum, words) = f[Len(words)]
<1> DEFINE n == Len(words)
           Body(f) == [k \in 0 .. n |-> IF k = 0 THEN sum ELSE Hear(f[k - 1], words[k])]
           up == CHOOSE f : f = Body(f)
           step == [k \in 1 .. n |-> [s \in Sums |-> Hear(s, words[k])]]
<1>1. n \in Nat
  OBVIOUS
<1>2. step \in [1 .. n -> [Sums -> Sums]]
  BY HearType
<1>3. \A k \in 1 .. n, s \in Sums : step[k][s] = Hear(s, words[k])
  OBVIOUS
<1> HIDE DEF step, n
<1>4. \E f : f = Body(f)
  <2>1. PICK f \in [0 .. n -> Sums] : Stepped(f, sum, n, step)
    BY <1>1, <1>2, StepByStep, Zenon
  <2>2. ASSUME NEW k \in 1 .. n PROVE f[k] = Hear(f[k - 1], words[k])
    <3>1. f[k - 1] \in Sums
      BY <1>1
    <3> QED BY <1>3, <2>1, <3>1, Zenon DEF Stepped
  <2>3. f = Body(f)
    BY <1>1, <2>1, <2>2 DEF Stepped
  <2> QED BY <2>3
<1>5. up = Body(up)
  BY <1>4, Zenon
<1>6. Listen(sum, words) = up[n]
  BY Zenon DEF Listen, n
<1> HIDE DEF up
<1>7. up[0] = sum /\ \A k \in 1 .. n : up[k] = Hear(up[k - 1], words[k])
  <2>1. 0 \in 0 .. n /\ \A k \in 1 .. n : k \in 0 .. n /\ k # 0
    BY <1>1, SMT
  <2> QED BY <1>5, <2>1, Zenon
<1>8. \A k \in 0 .. n : up[k] \in Sums
  <2>1. \A k \in 1 .. n : up[k - 1] \in Sums => up[k] \in Sums
    BY <1>7, HearType, Zenon
  <2> QED BY <1>1, <1>7, <2>1, StaysIn, Zenon
<1>9. up \in [0 .. n -> Sums]
  BY <1>5, <1>8, Zenon
<1> QED BY <1>6, <1>7, <1>9, Zenon DEF Hearing, n

LEMMA ListenNone == ASSUME NEW sum \in Sums PROVE Listen(sum, <<>>) = sum
<1>1. <<>> \in Seq(Int) /\ Len(<<>>) = 0
  BY SMT
<1> QED BY <1>1, ListenFunction, Zenon DEF Hearing

LEMMA ListenOne == ASSUME NEW sum \in Sums, NEW word PROVE Listen(sum, <<word>>) = Hear(sum, word)
<1>1. <<word>> \in Seq({word}) /\ Len(<<word>>) = 1 /\ <<word>>[1] = word /\ 1 \in 1 .. 1 /\ 1 - 1 = 0
  BY SMT
<1>2. PICK f : Hearing(f, sum, <<word>>) /\ Listen(sum, <<word>>) = f[1]
  BY <1>1, ListenFunction, Zenon
<1> QED BY <1>1, <1>2, Zenon DEF Hearing

(* To hear two runs of words is to hear the second after the first.        *)
LEMMA ListenBoth ==
  ASSUME NEW A, NEW s \in Seq(A), NEW t \in Seq(A), NEW sum \in Sums
  PROVE  /\ Listen(sum, s) \in Sums
         /\ Listen(sum, s \o t) = Listen(Listen(sum, s), t)
<1> DEFINE a == Len(s)
           b == Len(t)
<1>1. a \in Nat /\ b \in Nat /\ s \o t \in Seq(A) /\ Len(s \o t) = a + b
  BY SMT
<1>2. /\ \A k \in 1 .. a : (s \o t)[k] = s[k]
      /\ \A k \in 1 .. b : (s \o t)[a + k] = t[k]
  BY SMT
<1>3. PICK f : f \in [0 .. a -> Sums] /\ Hearing(f, sum, s) /\ Listen(sum, s) = f[a]
  BY ListenFunction, Zenon
<1>4. f[a] \in Sums
  BY <1>1, <1>3, SMT
<1>5. PICK g : g \in [0 .. b -> Sums] /\ Hearing(g, f[a], t) /\ Listen(f[a], t) = g[b]
  BY <1>4, ListenFunction, Zenon
<1>6. PICK h : /\ Hearing(h, sum, s \o t)
               /\ Listen(sum, s \o t) = h[Len(s \o t)]
  BY <1>1, ListenFunction, Zenon
<1>7. h[0] = sum /\ \A k \in 1 .. a + b : h[k] = Hear(h[k - 1], (s \o t)[k])
  BY <1>1, <1>6, Zenon DEF Hearing
<1>8. f[0] = sum /\ \A k \in 1 .. a : f[k] = Hear(f[k - 1], s[k])
  BY <1>3, Zenon DEF Hearing
<1>9. g[0] = f[a] /\ \A k \in 1 .. b : g[k] = Hear(g[k - 1], t[k])
  BY <1>5, Zenon DEF Hearing
<1> HIDE DEF a, b
<1>10. h[a] = f[a]
  <2> DEFINE S == {k \in Nat : k <= a => h[k] = f[k]}
  <2>1. 0 \in S
    BY <1>7, <1>8
  <2>2. ASSUME NEW k \in Nat, k \in S PROVE k + 1 \in S
    <3> SUFFICES ASSUME k + 1 <= a PROVE h[k + 1] = f[k + 1]
      OBVIOUS
    <3>1. h[k] = f[k] /\ k + 1 \in 1 .. a /\ k + 1 \in 1 .. a + b /\ (k + 1) - 1 = k
      BY <1>1, <2>2, SMT
    <3> QED BY <1>2, <1>7, <1>8, <3>1, Zenon
  <2> HIDE DEF S
  <2>3. Nat \subseteq S
    BY <2>1, <2>2, SetInduction
  <2> QED BY <1>1, <2>3 DEF S
<1>11. h[a + b] = g[b]
  <2> DEFINE S == {k \in Nat : k <= b => h[a + k] = g[k]}
  <2>1. 0 \in S
    BY <1>1, <1>9, <1>10
  <2>2. ASSUME NEW k \in Nat, k \in S PROVE k + 1 \in S
    <3> SUFFICES ASSUME k + 1 <= b PROVE h[a + (k + 1)] = g[k + 1]
      OBVIOUS
    <3>1. /\ h[a + k] = g[k] /\ k + 1 \in 1 .. b /\ a + (k + 1) \in 1 .. a + b
          /\ (k + 1) - 1 = k /\ (a + (k + 1)) - 1 = a + k
      BY <1>1, <2>2, SMT
    <3> QED BY <1>2, <1>7, <1>9, <3>1, Zenon
  <2> HIDE DEF S
  <2>3. Nat \subseteq S
    BY <2>1, <2>2, SetInduction
  <2> QED BY <1>1, <2>3 DEF S
<1> QED BY <1>1, <1>3, <1>4, <1>5, <1>6, <1>11, Zenon
----------------------------------------------------------------------------
(* Read back, the words of a number are the number.                        *)

LEMMA OnesAre ==
  /\ One(0) = "zero" /\ One(1) = "one" /\ One(2) = "two" /\ One(3) = "three"
  /\ One(4) = "four" /\ One(5) = "five" /\ One(6) = "six" /\ One(7) = "seven"
  /\ One(8) = "eight" /\ One(9) = "nine" /\ One(10) = "ten" /\ One(11) = "eleven"
  /\ One(12) = "twelve" /\ One(13) = "thirteen" /\ One(14) = "fourteen" /\ One(15) = "fifteen"
  /\ One(16) = "sixteen" /\ One(17) = "seventeen" /\ One(18) = "eighteen" /\ One(19) = "nineteen"
BY SMT DEF One, Ones

LEMMA TensAre ==
  /\ Tens[1] = "ten" /\ Tens[2] = "twenty" /\ Tens[3] = "thirty" /\ Tens[4] = "forty"
  /\ Tens[5] = "fifty" /\ Tens[6] = "sixty" /\ Tens[7] = "seventy" /\ Tens[8] = "eighty"
  /\ Tens[9] = "ninety"
BY SMT DEF Tens

Scales == {"oh", "hundred", "thousand", "million", "billion"}

LEMMA OnesDiffer ==
  ASSUME NEW n \in 0 .. 19
  PROVE  /\ One(n) \notin Scales
         /\ \A m \in 0 .. 19 : One(m) = One(n) => m = n
<1>1. \/ n = 0 \/ n = 1 \/ n = 2 \/ n = 3 \/ n = 4 \/ n = 5 \/ n = 6 \/ n = 7 \/ n = 8 \/ n = 9
      \/ n = 10 \/ n = 11 \/ n = 12 \/ n = 13 \/ n = 14 \/ n = 15 \/ n = 16 \/ n = 17 \/ n = 18 \/ n = 19
  BY SMT
<1>2. ASSUME NEW m \in 0 .. 19, One(m) = One(n) PROVE m = n
  <2>1. \/ m = 0 \/ m = 1 \/ m = 2 \/ m = 3 \/ m = 4 \/ m = 5 \/ m = 6 \/ m = 7 \/ m = 8 \/ m = 9
        \/ m = 10 \/ m = 11 \/ m = 12 \/ m = 13 \/ m = 14 \/ m = 15 \/ m = 16 \/ m = 17 \/ m = 18 \/ m = 19
    BY SMT
  <2> QED BY <1>1, <1>2, <2>1, OnesAre, SMT
<1>3. One(n) \notin Scales
  BY <1>1, OnesAre, SMT DEF Scales
<1> QED BY <1>2, <1>3

LEMMA TensDiffer ==
  ASSUME NEW n \in 2 .. 9
  PROVE  /\ Tens[n] \notin Scales
         /\ \A m \in 2 .. 9 : Tens[m] = Tens[n] => m = n
         /\ \A m \in 0 .. 19 : One(m) # Tens[n]
<1>1. \/ n = 2 \/ n = 3 \/ n = 4 \/ n = 5 \/ n = 6 \/ n = 7 \/ n = 8 \/ n = 9
  BY SMT
<1>2. ASSUME NEW m \in 2 .. 9, Tens[m] = Tens[n] PROVE m = n
  <2>1. \/ m = 2 \/ m = 3 \/ m = 4 \/ m = 5 \/ m = 6 \/ m = 7 \/ m = 8 \/ m = 9
    BY SMT
  <2> QED BY <1>1, <1>2, <2>1, TensAre, SMT
<1>3. ASSUME NEW m \in 0 .. 19, One(m) = Tens[n] PROVE FALSE
  <2>1. \/ m = 0 \/ m = 1 \/ m = 2 \/ m = 3 \/ m = 4 \/ m = 5 \/ m = 6 \/ m = 7 \/ m = 8 \/ m = 9
        \/ m = 10 \/ m = 11 \/ m = 12 \/ m = 13 \/ m = 14 \/ m = 15 \/ m = 16 \/ m = 17 \/ m = 18 \/ m = 19
    BY SMT
  <2> QED BY <1>1, <1>3, <2>1, OnesAre, TensAre, SMT
<1>4. Tens[n] \notin Scales
  BY <1>1, TensAre, SMT DEF Scales
<1> QED BY <1>2, <1>3, <1>4

LEMMA NumberWordsOne ==
  ASSUME NEW n \in 0 .. 19 PROVE NumberWords[n] = <<One(n)>>
<1>1. n \in Nat /\ n < 20
  BY SMT
<1>2. NumberWords[n] = NumberBody(NumberWords, n)
  BY <1>1, NumberWordsDef, Zenon
<1> QED BY <1>1, <1>2, SMT DEF NumberBody

LEMMA NumberWordsTens ==
  ASSUME NEW n \in 20 .. 99
  PROVE  NumberWords[n] = IF n % 10 = 0 THEN <<Tens[n \div 10]>>
                          ELSE <<Tens[n \div 10]>> \o <<One(n % 10)>>
<1>1. n \in Nat
  OBVIOUS
<1>2. NumberWords[n] = NumberBody(NumberWords, n)
  BY <1>1, NumberWordsDef, Zenon
<1>3. SaidByTens(n)
  BY <1>1, NumberBodyCases, Sizes, SMT DEF SaidByUnit
<1>4. <<Tens[n \div 10]>> \o <<>> = <<Tens[n \div 10]>>
  OBVIOUS
<1> QED BY <1>2, <1>3, <1>4, Zenon DEF SaidByTens

(* A word that is the whole of one number below a hundred stands for it.   *)
LEMMA SmallIs ==
  ASSUME NEW n \in 0 .. 99, NEW word, word # "oh", NumberWords[n] = <<word>>,
         \A m \in 0 .. 99 : NumberWords[m] = <<word>> => m = n
  PROVE  Small(word) = n
<1>1. \A m \in 0 .. 99 : SmallWords[m] = NumberWords[m]
  BY Zenon DEF SmallWords
<1>2. (CHOOSE m \in 0 .. 99 : SmallWords[m] = <<word>>) = n
  BY <1>1, Zenon
<1> QED BY <1>1, <1>2, Zenon DEF Small

LEMMA SingleWords ==
  ASSUME NEW m \in 0 .. 99, NEW word, NumberWords[m] = <<word>>
  PROVE  \/ m \in 0 .. 19 /\ word = One(m)
         \/ \E k \in 2 .. 9 : m = 10 * k /\ word = Tens[k]
<1>1. CASE m \in 0 .. 19
  BY <1>1, NumberWordsOne, SMT
<1>2. CASE m \in 20 .. 99
  <2>1. m \div 10 \in 2 .. 9 /\ m = 10 * (m \div 10) + (m % 10)
    BY <1>2, SMT
  <2>2. m % 10 = 0
    <3> SUFFICES ASSUME m % 10 # 0 PROVE FALSE
      OBVIOUS
    <3>1. <<word>> = <<Tens[m \div 10]>> \o <<One(m % 10)>>
      BY <1>2, NumberWordsTens, Zenon
    <3>2. Len(<<Tens[m \div 10]>> \o <<One(m % 10)>>) = 2 /\ Len(<<word>>) = 1
      BY SMT
    <3> QED BY <3>1, <3>2, SMT
  <2>3. <<word>> = <<Tens[m \div 10]>>
    BY <1>2, <2>2, NumberWordsTens, Zenon
  <2>4. word = Tens[m \div 10]
    BY <2>3, SMT
  <2>5. m = 10 * (m \div 10)
    BY <2>1, <2>2, SMT
  <2> QED BY <2>1, <2>4, <2>5, Zenon
<1> QED BY <1>1, <1>2, SMT

LEMMA SmallOne == ASSUME NEW n \in 0 .. 19 PROVE Small(One(n)) = n
<1>1. n \in 0 .. 99 /\ NumberWords[n] = <<One(n)>> /\ One(n) # "oh"
  BY NumberWordsOne, OnesDiffer, SMT DEF Scales
<1>2. ASSUME NEW m \in 0 .. 99, NumberWords[m] = <<One(n)>> PROVE m = n
  <2>1. \/ m \in 0 .. 19 /\ One(n) = One(m)
        \/ \E k \in 2 .. 9 : m = 10 * k /\ One(n) = Tens[k]
    BY <1>2, SingleWords, Zenon
  <2>2. \A k \in 2 .. 9 : One(n) # Tens[k]
    BY TensDiffer, Zenon
  <2> QED BY <2>1, <2>2, OnesDiffer, Zenon
<1> QED BY <1>1, <1>2, SmallIs, Zenon

LEMMA SmallTens == ASSUME NEW k \in 2 .. 9 PROVE Small(Tens[k]) = 10 * k
<1>1. /\ 10 * k \in 0 .. 99 /\ 10 * k \in 20 .. 99 /\ (10 * k) % 10 = 0
      /\ (10 * k) \div 10 = k
  BY SMT
<1>2. NumberWords[10 * k] = <<Tens[k]>>
  BY <1>1, NumberWordsTens, Zenon
<1>3. Tens[k] # "oh"
  BY TensDiffer, SMT DEF Scales
<1>4. ASSUME NEW m \in 0 .. 99, NumberWords[m] = <<Tens[k]>> PROVE m = 10 * k
  <2>1. \/ m \in 0 .. 19 /\ Tens[k] = One(m)
        \/ \E j \in 2 .. 9 : m = 10 * j /\ Tens[k] = Tens[j]
    BY <1>4, SingleWords, Zenon
  <2>2. ~ (m \in 0 .. 19 /\ Tens[k] = One(m))
    BY TensDiffer, Zenon
  <2>3. \A j \in 2 .. 9 : Tens[j] = Tens[k] => j = k
    BY TensDiffer, Zenon
  <2> QED BY <2>1, <2>2, <2>3, Zenon
<1> QED BY <1>1, <1>2, <1>3, <1>4, SmallIs, Zenon

LEMMA HearSmall ==
  ASSUME NEW a \in Int, NEW b \in Int, NEW word, word \notin Scales
  PROVE  Hear(<<a, b>>, word) = <<a, b + Small(word)>>
BY SMT DEF Hear, Scales

(* Below a hundred: added to what the next unit will multiply.             *)
LEMMA HearBelowHundred ==
  ASSUME NEW n \in 0 .. 99, NEW a \in Int, NEW b \in Int
  PROVE  Listen(<<a, b>>, NumberWords[n]) = <<a, b + n>>
<1>1. \A x, y \in Int : <<x, y>> \in Sums
  BY DEF Sums
<1>2. ASSUME NEW m \in 0 .. 19, NEW y \in Int
      PROVE  Listen(<<a, y>>, <<One(m)>>) = <<a, y + m>>
  <2>1. Listen(<<a, y>>, <<One(m)>>) = Hear(<<a, y>>, One(m))
    BY <1>1, <1>2, ListenOne, Zenon
  <2>2. Hear(<<a, y>>, One(m)) = <<a, y + Small(One(m))>>
    BY <1>2, HearSmall, OnesDiffer, Zenon
  <2> QED BY <1>2, <2>1, <2>2, SmallOne, Zenon
<1>3. ASSUME NEW k \in 2 .. 9
      PROVE  Listen(<<a, b>>, <<Tens[k]>>) = <<a, b + 10 * k>>
  <2>1. Listen(<<a, b>>, <<Tens[k]>>) = Hear(<<a, b>>, Tens[k])
    BY <1>1, ListenOne, Zenon
  <2>2. Hear(<<a, b>>, Tens[k]) = <<a, b + Small(Tens[k])>>
    BY HearSmall, TensDiffer, Zenon
  <2> QED BY <2>1, <2>2, SmallTens, Zenon
<1>4. CASE n \in 0 .. 19
  BY <1>2, <1>4, NumberWordsOne, Zenon
<1>5. CASE n \in 20 .. 99
  <2> DEFINE k == n \div 10
             r == n % 10
  <2>1. /\ k \in 2 .. 9 /\ r \in 0 .. 19 /\ n = 10 * k + r
        /\ b + 10 * k \in Int /\ (b + 10 * k) + r = b + n
    BY <1>5, SMT
  <2>2. NumberWords[n] = IF r = 0 THEN <<Tens[k]>> ELSE <<Tens[k]>> \o <<One(r)>>
    BY <1>5, NumberWordsTens, Zenon
  <2> HIDE DEF k, r
  <2>3. Listen(<<a, b>>, <<Tens[k]>>) = <<a, b + 10 * k>>
    BY <1>3, <2>1, Zenon
  <2>4. CASE r = 0
    <3>1. b + 10 * k = b + n
      BY <2>1, <2>4, SMT
    <3> QED BY <2>2, <2>3, <2>4, <3>1, Zenon
  <2>5. CASE r # 0
    <3>1. <<Tens[k]>> \in Seq({Tens[k], One(r)}) /\ <<One(r)>> \in Seq({Tens[k], One(r)})
      BY SMT
    <3>2. Listen(<<a, b>>, <<Tens[k]>> \o <<One(r)>>)
            = Listen(Listen(<<a, b>>, <<Tens[k]>>), <<One(r)>>)
      BY <1>1, <3>1, ListenBoth, Zenon
    <3>3. Listen(<<a, b + 10 * k>>, <<One(r)>>) = <<a, (b + 10 * k) + r>>
      BY <1>2, <2>1, Zenon
    <3> QED BY <2>1, <2>2, <2>3, <2>5, <3>2, <3>3, Zenon
  <2> QED BY <2>4, <2>5, Zenon
<1> QED BY <1>4, <1>5, SMT

LEMMA ListenScaled ==
  ASSUME NEW n \in Nat, NEW unit, NEW name, <<unit, name>> \in Units,
         SaidByUnit(n, unit, name), NEW sum \in Sums
  PROVE  Listen(sum, NumberWords[n])
           = Listen(Hear(Listen(sum, NumberWords[n \div unit]), name), NumberWords[n % unit])
<1> DEFINE q == n \div unit
           r == n % unit
           rest == IF r = 0 THEN <<>> ELSE NumberWords[r]
<1>1. q \in Nat /\ r \in Nat /\ name \in NumberVocabulary
  <2>1. <<unit, name>>[1] = unit /\ <<unit, name>>[2] = name
    OBVIOUS
  <2>2. unit <= n
    BY DEF SaidByUnit
  <2>3. /\ unit \in Nat \ {0} /\ name \in NumberVocabulary
        /\ n \div unit \in Nat \ {0} /\ n % unit \in Nat
    BY <2>1, <2>2, UnitFacts, Zenon
  <2> QED BY <2>3
<1>2. NumberWords[n] = NumberWords[q] \o <<name>> \o rest
  <2>1. NumberWords[n] = NumberBody(NumberWords, n)
    BY NumberWordsDef, Zenon
  <2> QED BY <2>1, Zenon DEF SaidByUnit, Scaling
<1> HIDE DEF q, r
<1>3. /\ NumberWords[q] \in Seq(NumberVocabulary) /\ NumberWords[r] \in Seq(NumberVocabulary)
  BY <1>1, NumberWordsType, Zenon DEF WordSeq
<1>4. <<name>> \in Seq(NumberVocabulary)
  BY <1>1, SMT
<1>5. rest \in Seq(NumberVocabulary)
  <2>1. <<>> \in Seq(NumberVocabulary)
    BY SMT
  <2> QED BY <1>3, <2>1, Zenon
<1>6. NumberWords[q] \o <<name>> \in Seq(NumberVocabulary)
  BY <1>3, <1>4, SMT
<1> DEFINE first == Listen(sum, NumberWords[q])
           second == Hear(first, name)
<1>7. first \in Sums /\ Listen(first, <<name>>) = second
  BY <1>3, <1>4, ListenBoth, ListenOne, Zenon
<1>8. second \in Sums
  BY <1>7, HearType, Zenon
<1>9. Listen(sum, NumberWords[q] \o <<name>>) = second
  BY <1>3, <1>4, <1>7, ListenBoth, Zenon
<1>10. Listen(sum, NumberWords[n]) = Listen(second, rest)
  <2> HIDE DEF rest, second
  <2>1. Listen(sum, (NumberWords[q] \o <<name>>) \o rest)
          = Listen(Listen(sum, NumberWords[q] \o <<name>>), rest)
    BY <1>5, <1>6, ListenBoth, Zenon
  <2> QED BY <1>2, <1>9, <2>1, Zenon
<1>11. Listen(second, rest) = Listen(second, NumberWords[r])
  <2>1. CASE r = 0
    <3>1. PICK x \in Int, y \in Int : second = <<x, y>>
      BY <1>8 DEF Sums
    <3>2. Listen(<<x, y>>, NumberWords[0]) = <<x, y + 0>> /\ y + 0 = y
      <4>1. 0 \in 0 .. 99
        OBVIOUS
      <4>2. y + 0 = y
        BY SMT
      <4> QED BY <4>1, <4>2, HearBelowHundred, Zenon
    <3>3. Listen(second, <<>>) = second
      BY <1>8, ListenNone, Zenon
    <3>4. Listen(second, NumberWords[0]) = second
      BY <3>1, <3>2, Zenon
    <3> QED BY <2>1, <3>3, <3>4, Zenon
  <2> QED BY <2>1, Zenon
<1> QED BY <1>10, <1>11, Zenon DEF q, r

(* Below a thousand.                                                       *)
LEMMA HearBelowThousand ==
  ASSUME NEW n \in 0 .. Thousand - 1, NEW a \in Int
  PROVE  Listen(<<a, 0>>, NumberWords[n]) = <<a, n>>
<1>1. \A x, y \in Int : <<x, y>> \in Sums
  BY DEF Sums
<1>2. CASE n \in 0 .. 99
  <2>1. 0 + n = n /\ 0 \in Int
    BY SMT
  <2> QED BY <1>2, <2>1, HearBelowHundred, Zenon
<1>3. CASE n \in 100 .. Thousand - 1
  <2> DEFINE q == n \div 100
             r == n % 100
  <2>1. /\ q \in 0 .. 99 /\ r \in 0 .. 99 /\ 100 * q \in Int /\ 100 * q + r = n
        /\ 0 \in Int /\ 0 + q = q /\ q \in Int
    BY <1>3, SMT DEF Thousand
  <2>2. n \in Nat /\ SaidByUnit(n, 100, "hundred") /\ <<100, "hundred">> \in Units
    <3>1. n \in Nat /\ n >= 100 /\ n < Thousand
      BY <1>3, Sizes, SMT
    <3>2. SaidByUnit(n, 100, "hundred")
      BY <3>1, Sizes, NumberBodyCases, SMT DEF SaidByUnit
    <3> QED BY <3>1, <3>2 DEF Units
  <2>3. Listen(<<a, 0>>, NumberWords[n])
          = Listen(Hear(Listen(<<a, 0>>, NumberWords[q]), "hundred"), NumberWords[r])
    BY <1>1, <2>1, <2>2, ListenScaled, Zenon
  <2> HIDE DEF q, r
  <2>4. Listen(<<a, 0>>, NumberWords[q]) = <<a, q>>
    BY <2>1, HearBelowHundred, Zenon
  <2>5. Hear(<<a, q>>, "hundred") = <<a, 100 * q>>
    BY SMT DEF Hear
  <2>6. Listen(<<a, 100 * q>>, NumberWords[r]) = <<a, 100 * q + r>>
    BY <2>1, HearBelowHundred, Zenon
  <2> QED BY <2>1, <2>3, <2>4, <2>5, <2>6, Zenon
<1> QED BY <1>2, <1>3, Sizes, SMT

Adds(sum, v) == sum \in Sums /\ sum[1] + sum[2] = v

LEMMA AddsPair == ASSUME NEW x \in Int, NEW y \in Int PROVE Adds(<<x, y>>, x + y)
BY DEF Adds, Sums

LEMMA Powers == Million = Thousand * Thousand /\ Billion = Thousand * Million
BY Zenon DEF Thousand, Million, Billion

LEMMA Quotient ==
  ASSUME NEW n \in Nat, NEW b \in Nat \ {0}, n < Thousand * b
  PROVE  n \div b \in 0 .. Thousand - 1
<1>1. n = b * (n \div b) + (n % b) /\ n \div b \in Nat /\ n % b \in Nat
  BY DivMod, SMT
<1> DEFINE q == n \div b
<1> HIDE DEF q
<1>2. b * q <= n
  BY <1>1, SMT DEF q
<1>3. q < Thousand
  <2> SUFFICES ASSUME q >= Thousand PROVE FALSE
    BY <1>1, Sizes, SMT DEF q
  <2>1. b * q >= Thousand * b
    BY <1>1, Sizes, SMT DEF q
  <2> QED BY <1>1, <1>2, <2>1, Sizes, SMT DEF q
<1> QED BY <1>1, <1>3, Sizes, SMT DEF q

(* Below a million, and below a billion: added to what is complete.        *)
LEMMA HearBelowMillion ==
  ASSUME NEW n \in 0 .. Million - 1, NEW a \in Int
  PROVE  Adds(Listen(<<a, 0>>, NumberWords[n]), a + n)
<1>1. \A x, y \in Int : <<x, y>> \in Sums /\ <<x, y>>[1] = x /\ <<x, y>>[2] = y
  BY DEF Sums
<1>2. CASE n \in 0 .. Thousand - 1
  <2>1. n \in Int
    BY SMT
  <2> QED BY <1>2, <2>1, HearBelowThousand, AddsPair, Zenon
<1>3. CASE n \in Thousand .. Million - 1
  <2> DEFINE q == n \div Thousand
             r == n % Thousand
  <2>1. q \in 0 .. Thousand - 1 /\ r \in 0 .. Thousand - 1 /\ Thousand * q + r = n
    <3>1. n \in Nat /\ Thousand \in Nat \ {0} /\ n < Million
      BY <1>3, Sizes, SMT
    <3> QED BY <3>1, Powers, DivMod, Quotient, Zenon
  <2>2. n \in Nat /\ SaidByUnit(n, Thousand, "thousand") /\ <<Thousand, "thousand">> \in Units
    <3>1. n \in Nat /\ n >= Thousand /\ n < Million
      BY <1>3, Sizes, SMT
    <3>2. SaidByUnit(n, Thousand, "thousand")
      BY <3>1, Sizes, NumberBodyCases, SMT DEF SaidByUnit
    <3> QED BY <3>1, <3>2 DEF Units
  <2>3. Listen(<<a, 0>>, NumberWords[n])
          = Listen(Hear(Listen(<<a, 0>>, NumberWords[q]), "thousand"), NumberWords[r])
    <3>1. 0 \in Int
      OBVIOUS
    <3> QED BY <1>1, <2>2, <3>1, ListenScaled, Zenon
  <2> HIDE DEF q, r
  <2>4. Listen(<<a, 0>>, NumberWords[q]) = <<a, q>>
    BY <2>1, HearBelowThousand, Zenon
  <2>5. Hear(<<a, q>>, "thousand") = <<a + Thousand * q, 0>>
    BY SMT DEF Hear
  <2>6. a + Thousand * q \in Int /\ r \in Int /\ (a + Thousand * q) + r = a + n
    BY <2>1, Sizes, SMT
  <2>7. Listen(<<a + Thousand * q, 0>>, NumberWords[r]) = <<a + Thousand * q, r>>
    BY <2>1, <2>6, HearBelowThousand, Zenon
  <2>8. Adds(<<a + Thousand * q, r>>, (a + Thousand * q) + r)
    BY <2>6, AddsPair, Zenon
  <2> QED BY <2>3, <2>4, <2>5, <2>6, <2>7, <2>8, Zenon
<1> QED BY <1>2, <1>3, Sizes, SMT

LEMMA HearBelowBillion ==
  ASSUME NEW n \in 0 .. Billion - 1, NEW a \in Int
  PROVE  Adds(Listen(<<a, 0>>, NumberWords[n]), a + n)
<1>1. \A x, y \in Int : <<x, y>> \in Sums
  BY DEF Sums
<1>2. CASE n \in 0 .. Million - 1
  BY <1>2, HearBelowMillion, Zenon
<1>3. CASE n \in Million .. Billion - 1
  <2> DEFINE q == n \div Million
             r == n % Million
  <2>1. q \in 0 .. Thousand - 1 /\ r \in 0 .. Million - 1 /\ Million * q + r = n
    <3>1. n \in Nat /\ Million \in Nat \ {0} /\ n < Billion
      BY <1>3, Sizes, SMT
    <3> QED BY <3>1, Powers, DivMod, Quotient, Zenon
  <2>2. n \in Nat /\ SaidByUnit(n, Million, "million") /\ <<Million, "million">> \in Units
    <3>1. n \in Nat /\ n >= Million /\ n < Billion
      BY <1>3, Sizes, SMT
    <3>2. SaidByUnit(n, Million, "million")
      BY <3>1, Sizes, NumberBodyCases, SMT DEF SaidByUnit
    <3> QED BY <3>1, <3>2 DEF Units
  <2>3. Listen(<<a, 0>>, NumberWords[n])
          = Listen(Hear(Listen(<<a, 0>>, NumberWords[q]), "million"), NumberWords[r])
    <3>1. 0 \in Int
      OBVIOUS
    <3> QED BY <1>1, <2>2, <3>1, ListenScaled, Zenon
  <2> HIDE DEF q, r
  <2>4. Listen(<<a, 0>>, NumberWords[q]) = <<a, q>>
    BY <2>1, HearBelowThousand, Zenon
  <2>5. Hear(<<a, q>>, "million") = <<a + Million * q, 0>>
    BY SMT DEF Hear
  <2>6. a + Million * q \in Int /\ (a + Million * q) + r = a + n
    BY <2>1, Sizes, SMT
  <2>7. Adds(Listen(<<a + Million * q, 0>>, NumberWords[r]), (a + Million * q) + r)
    BY <2>1, <2>6, HearBelowMillion, Zenon
  <2> QED BY <2>3, <2>4, <2>5, <2>6, <2>7, Zenon
<1> QED BY <1>2, <1>3, Sizes, SMT

(* What number_to_words says of a number, however large, is understood to  *)
(* be that number: no two numbers sound the same.                          *)
THEOREM NumbersReadBack == \A n \in Nat : Value(NumberWords[n]) = n
<1> DEFINE S == {n \in Nat : Adds(Listen(<<0, 0>>, NumberWords[n]), n)}
<1>1. <<0, 0>> \in Sums
  BY DEF Sums
<1>2. ASSUME NEW n \in Nat, \A m \in Nat : m < n => m \in S PROVE n \in S
  <2>1. CASE n \in 0 .. Billion - 1
    <3>1. 0 + n = n /\ 0 \in Int
      OBVIOUS
    <3> QED BY <2>1, <3>1, HearBelowBillion, Zenon
  <2>2. CASE n >= Billion
    <3> DEFINE q == n \div Billion
               r == n % Billion
    <3>1. /\ q \in Nat /\ q < n /\ r \in 0 .. Billion - 1 /\ Billion * q + r = n
          /\ Billion * q \in Int
      <4>1. Billion \in Nat \ {0} /\ Billion > 1 /\ n \in Nat
        BY Sizes, SMT
      <4>2. n = Billion * q + r /\ q \in Nat /\ r \in 0 .. Billion - 1
        BY <4>1, DivMod, Zenon
      <4>3. q < n
        BY <2>2, <4>1, SMT
      <4> HIDE DEF q, r
      <4>4. Billion * q \in Int
        BY <4>1, <4>2, SMT
      <4> QED BY <4>2, <4>3, <4>4, Zenon
    <3>2. SaidByUnit(n, Billion, "billion") /\ <<Billion, "billion">> \in Units
      <4>1. SaidByUnit(n, Billion, "billion")
        BY <2>2, Sizes, NumberBodyCases, SMT DEF SaidByUnit
      <4> QED BY <4>1 DEF Units
    <3>3. Listen(<<0, 0>>, NumberWords[n])
            = Listen(Hear(Listen(<<0, 0>>, NumberWords[q]), "billion"), NumberWords[r])
      BY <1>1, <3>2, ListenScaled, Zenon
    <3> HIDE DEF q, r
    <3> DEFINE first == Listen(<<0, 0>>, NumberWords[q])
    <3>4. Adds(first, q)
      BY <1>2, <3>1
    <3>5. Hear(first, "billion") = <<Billion * (first[1] + first[2]), 0>>
      BY SMT DEF Hear
    <3>6. Hear(first, "billion") = <<Billion * q, 0>>
      BY <3>4, <3>5, Zenon DEF Adds
    <3>7. Adds(Listen(<<Billion * q, 0>>, NumberWords[r]), Billion * q + r)
      BY <3>1, HearBelowBillion, Zenon
    <3> QED BY <3>1, <3>3, <3>6, <3>7, Zenon
  <2> QED BY <2>1, <2>2, Sizes, SMT
<1> HIDE DEF S
<1>3. Nat \subseteq S
  BY <1>2, StrongInduction
<1>4. ASSUME NEW n \in Nat PROVE Value(NumberWords[n]) = n
  <2>1. Adds(Listen(<<0, 0>>, NumberWords[n]), n)
    BY <1>3 DEF S
  <2> QED BY <2>1, Zenon DEF Value, Adds
<1> QED BY <1>4

(* And what digits_to_words says of a number, digit by digit.              *)
THEOREM DigitsReadBack == \A digits \in Seq(0 .. 9) : Digits(DigitWords(digits)) = digits
<1> SUFFICES ASSUME NEW digits \in Seq(0 .. 9) PROVE Digits(DigitWords(digits)) = digits
  OBVIOUS
<1>1. ASSUME NEW d \in 0 .. 9 PROVE Small(IF d = 0 THEN "oh" ELSE One(d)) = d
  <2>1. Small("oh") = 0
    BY Zenon DEF Small
  <2>2. d \in 0 .. 19
    OBVIOUS
  <2> QED BY <2>1, <2>2, SmallOne, Zenon
<1>2. \A k \in 1 .. Len(digits) : digits[k] \in 0 .. 9
  OBVIOUS
<1>3. Digits(DigitWords(digits)) = [k \in 1 .. Len(digits) |-> Small(IF digits[k] = 0 THEN "oh" ELSE One(digits[k]))]
  BY Zenon DEF Digits, DigitWords
<1>4. digits = [k \in 1 .. Len(digits) |-> digits[k]]
  OBVIOUS
<1>5. \A k \in 1 .. Len(digits) :
        Small(IF digits[k] = 0 THEN "oh" ELSE One(digits[k])) = digits[k]
  BY <1>1, <1>2, Zenon
<1>6. [k \in 1 .. Len(digits) |-> Small(IF digits[k] = 0 THEN "oh" ELSE One(digits[k]))]
        = [k \in 1 .. Len(digits) |-> digits[k]]
  BY <1>5, Zenon
<1> QED BY <1>3, <1>4, <1>6, Zenon

(* What is said of other things has words of its own.                      *)
LEMMA NumbersHaveTheirWords ==
  ASSUME NEW word \in NumberVocabulary PROVE word \notin {"oh", "o'clock", "point"}
<1>1. CASE \E n \in 0 .. 19 : word = One(n)
  <2>1. PICK n \in 0 .. 19 : word = One(n)
    BY <1>1
  <2>2. \/ n = 0 \/ n = 1 \/ n = 2 \/ n = 3 \/ n = 4 \/ n = 5 \/ n = 6 \/ n = 7 \/ n = 8 \/ n = 9
        \/ n = 10 \/ n = 11 \/ n = 12 \/ n = 13 \/ n = 14 \/ n = 15 \/ n = 16 \/ n = 17 \/ n = 18
        \/ n = 19
    BY SMT
  <2> QED BY <2>1, <2>2, OnesAre, SMT
<1>2. CASE \E k \in 1 .. 9 : word = Tens[k]
  <2>1. PICK k \in 1 .. 9 : word = Tens[k]
    BY <1>2
  <2>2. \/ k = 1 \/ k = 2 \/ k = 3 \/ k = 4 \/ k = 5 \/ k = 6 \/ k = 7 \/ k = 8 \/ k = 9
    BY SMT
  <2> QED BY <2>1, <2>2, TensAre, SMT
<1>3. CASE word \in {"hundred", "thousand", "million", "billion"}
  BY <1>3, SMT
<1> QED BY <1>1, <1>2, <1>3, Zenon DEF NumberVocabulary

(* A sequence put together from a first element and a rest, or two parts.  *)
LEMMA FirstAndRest ==
  ASSUME NEW A, NEW x \in A, NEW s \in Seq(A)
  PROVE  /\ <<x>> \in Seq(A) /\ <<x>> \o s \in Seq(A)
         /\ Len(<<x>>) = 1 /\ Len(<<x>> \o s) = 1 + Len(s) /\ Len(<<x>> \o s) > 0
         /\ (<<x>> \o s)[1] = x /\ Tail(<<x>> \o s) = s
BY SMT

LEMMA TwoParts ==
  ASSUME NEW A, NEW s \in Seq(A), NEW t \in Seq(A), Len(s) > 0
  PROVE  /\ s \o t \in Seq(A) /\ Len(s \o t) = Len(s) + Len(t)
         /\ SubSeq(s \o t, 1, Len(s)) = s
         /\ Len(t) > 0 => SubSeq(s \o t, Len(s) + 1, Len(s) + Len(t)) = t
<1>1. s \o t \in Seq(A) /\ Len(s \o t) = Len(s) + Len(t)
  BY SMT
<1>2. SubSeq(s \o t, 1, Len(s)) = s
  <2>1. 1 \in 1 .. Len(s) /\ Len(s) \in 1 .. Len(s)
    BY SMT
  <2> QED BY <2>1, SubSeqOfConcat1, SubSeqFull, Zenon
<1>3. ASSUME Len(t) > 0 PROVE SubSeq(s \o t, Len(s) + 1, Len(s) + Len(t)) = t
  <2> DEFINE m == Len(s) + 1
             n == Len(s) + Len(t)
  <2>1. /\ m \in Len(s) + 1 .. Len(s) + Len(t) /\ n \in Len(s) + 1 .. Len(s) + Len(t)
        /\ m - Len(s) = 1 /\ n - Len(s) = Len(t)
    BY <1>3, SMT
  <2>2. SubSeq(s \o t, m, n) = SubSeq(t, m - Len(s), n - Len(s))
    <3> HIDE DEF m, n
    <3> QED BY <2>1, SubSeqOfConcat2, Zenon DEF m, n
  <2> QED BY <2>1, <2>2, SubSeqFull, Zenon
<1> QED BY <1>1, <1>2, <1>3, Zenon

Parted(whole, s, x, t) ==
  /\ Len(whole) = Len(s) + 1 + Len(t)
  /\ \A k \in 1 .. Len(s) : whole[k] = s[k]
  /\ whole[Len(s) + 1] = x
  /\ \A k \in 1 .. Len(t) : whole[(Len(s) + 1) + k] = t[k]
  /\ SubSeq(whole, 1, Len(s)) = s
  /\ SubSeq(whole, Len(s) + 2, Len(s) + 1 + Len(t)) = t

LEMMA ThreeParts ==
  ASSUME NEW A, NEW s \in Seq(A), NEW x \in A, NEW t \in Seq(A), Len(s) > 0
  PROVE  s \o <<x>> \o t \in Seq(A) /\ Parted(s \o <<x>> \o t, s, x, t)
<1>1. /\ s \o <<x>> \o t \in Seq(A) /\ Len(s \o <<x>> \o t) = Len(s) + 1 + Len(t)
      /\ \A k \in 1 .. Len(s) : (s \o <<x>> \o t)[k] = s[k]
      /\ (s \o <<x>> \o t)[Len(s) + 1] = x
      /\ \A k \in 1 .. Len(t) : (s \o <<x>> \o t)[(Len(s) + 1) + k] = t[k]
  BY SMT
<1>2. SubSeq(s \o <<x>> \o t, 1, Len(s)) = s
  <2>1. <<x>> \o t \in Seq(A) /\ <<x>> \in Seq(A)
    BY FirstAndRest, Zenon
  <2>2. (s \o <<x>>) \o t = s \o (<<x>> \o t)
    BY SMT
  <2>3. SubSeq(s \o (<<x>> \o t), 1, Len(s)) = s
    BY <2>1, TwoParts, Zenon
  <2> QED BY <2>2, <2>3, Zenon
<1>3. SubSeq(s \o <<x>> \o t, Len(s) + 2, Len(s) + 1 + Len(t)) = t
  <2> DEFINE head == s \o <<x>>
  <2>1. head \in Seq(A) /\ Len(head) = Len(s) + 1 /\ Len(head) > 0 /\ Len(head) + 1 = Len(s) + 2
    BY SMT
  <2>2. s \o <<x>> \o t = head \o t
    OBVIOUS
  <2> HIDE DEF head
  <2>3. CASE Len(t) > 0
    <3>1. SubSeq(head \o t, Len(head) + 1, Len(head) + Len(t)) = t
      BY <2>1, <2>3, TwoParts, Zenon
    <3> QED BY <2>1, <2>2, <3>1, Zenon
  <2>4. CASE ~(Len(t) > 0)
    <3>1. t = <<>>
      BY <2>4, SMT
    <3>2. Len(s) + 1 + Len(t) < Len(s) + 2 /\ Len(s) + 1 + Len(t) \in Int /\ Len(s) + 2 \in Int
      BY <2>4, SMT
    <3> QED BY <3>1, <3>2, SubSeqEmpty, Zenon
  <2> QED BY <2>3, <2>4
<1> QED BY <1>1, <1>2, <1>3, Zenon DEF Parted

(* The first place of a word divides what was said.                        *)
LEMMA SplitAt ==
  ASSUME NEW A, NEW s \in Seq(A), NEW x \in A, NEW t \in Seq(A), Len(s) > 0,
         \A k \in 1 .. Len(s) : s[k] # x
  PROVE  /\ Says(s \o <<x>> \o t, x)
         /\ Until(s \o <<x>> \o t, x) = s /\ Since(s \o <<x>> \o t, x) = t
<1> DEFINE whole == s \o <<x>> \o t
           p == Len(s) + 1
<1>1. whole \in Seq(A) /\ Parted(whole, s, x, t)
  BY ThreeParts, Zenon
<1> HIDE DEF whole
<1>2. /\ Len(s) \in Nat /\ Len(t) \in Nat /\ DOMAIN whole = 1 .. Len(whole)
      /\ Len(whole) = Len(s) + 1 + Len(t)
  BY <1>1, LenProperties, Zenon DEF Parted
<1>3. p \in DOMAIN whole /\ p - 1 = Len(s) /\ p + 1 = Len(s) + 2
  BY <1>2, SMT
<1>4. whole[p] = x /\ \A k \in 1 .. p - 1 : whole[k] # x
  BY <1>1, <1>3, Zenon DEF Parted
<1>5. Place(whole, x) = p
  <2> DEFINE First(k) == whole[k] = x /\ \A j \in 1 .. k - 1 : whole[j] # x
             c == CHOOSE k \in DOMAIN whole : First(k)
  <2>1. c \in DOMAIN whole /\ First(c)
    BY <1>3, <1>4, Zenon
  <2>2. c \in Int /\ p \in Int /\ c \in 1 .. Len(whole)
    BY <1>2, <2>1, SMT
  <2>3. ~(c < p) /\ ~(p < c)
    <3>1. c < p => c \in 1 .. p - 1
      BY <2>2, SMT
    <3>2. p < c => p \in 1 .. c - 1
      BY <1>2, <2>2, SMT
    <3> HIDE DEF p, c
    <3> QED BY <1>4, <2>1, <3>1, <3>2, Zenon
  <2>4. c = p
    BY <2>2, <2>3, SMT
  <2> HIDE DEF p
  <2> QED BY <2>4, Zenon DEF Place
<1>6. SubSeq(whole, 1, p - 1) = s /\ SubSeq(whole, p + 1, Len(whole)) = t
  BY <1>1, <1>2, <1>3, Zenon DEF Parted
<1> HIDE DEF p
<1> QED BY <1>3, <1>4, <1>5, <1>6, Zenon DEF Says, Until, Since, whole

(* The minutes: "oh" before the small ones, and their number.              *)
LEMMA NumberWordsBegin ==
  ASSUME NEW n \in Nat
  PROVE  /\ NumberWords[n] \in Seq(NumberVocabulary) /\ Len(NumberWords[n]) > 0
         /\ NumberWords[n][1] \notin {"oh", "o'clock", "point"}
<1>1. NumberWords[n] \in Seq(NumberVocabulary) /\ Len(NumberWords[n]) > 0
  <2>1. NumberWords[n] \in WordSeq
    BY NumberWordsType, Zenon
  <2> QED BY <2>1, Zenon DEF WordSeq
<1>2. NumberWords[n][1] \in NumberVocabulary
  <2> HIDE DEF NumberVocabulary
  <2> QED BY <1>1, SMT
<1> QED BY <1>1, <1>2, NumbersHaveTheirWords, Zenon

LEMMA MinutesReadBack ==
  ASSUME NEW minute \in Nat, minute > 0, NEW words,
         words = (IF minute < 10 THEN <<"oh">> ELSE <<>>) \o NumberWords[minute]
  PROVE  /\ words \in Seq(NumberVocabulary \cup {"oh"}) /\ Len(words) > 0
         /\ words[1] # "o'clock" /\ (minute < 10 <=> words[1] = "oh")
         /\ Value(words) = minute
<1> DEFINE A == NumberVocabulary \cup {"oh"}
           number == NumberWords[minute]
<1>1. /\ number \in Seq(A) /\ Len(number) > 0 /\ number[1] \notin {"oh", "o'clock"}
      /\ Value(number) = minute
  <2>1. /\ number \in Seq(NumberVocabulary) /\ Len(number) > 0
        /\ number[1] \notin {"oh", "o'clock", "point"}
    BY NumberWordsBegin, Zenon
  <2>2. NumberVocabulary \subseteq A
    OBVIOUS
  <2>3. number \in Seq(A)
    BY <2>1, <2>2, SeqMonotonic, Zenon
  <2> QED BY <2>1, <2>3, NumbersReadBack, Zenon
<1>2. "oh" \in A
  OBVIOUS
<1>3. words = (IF minute < 10 THEN <<"oh">> ELSE <<>>) \o number
  OBVIOUS
<1> HIDE DEF A, number
<1>4. CASE minute < 10
  <2>1. words = <<"oh">> \o number
    BY <1>3, <1>4, Zenon
  <2>2. <<"oh">> \in Seq(A)
    BY <1>1, <1>2, FirstAndRest, Zenon
  <2>3. words \in Seq(A) /\ Len(words) > 0 /\ words[1] = "oh"
    <3>1. /\ <<"oh">> \o number \in Seq(A) /\ Len(<<"oh">> \o number) > 0
          /\ (<<"oh">> \o number)[1] = "oh"
      BY <1>1, <1>2, FirstAndRest, Zenon
    <3> QED BY <2>1, <3>1, Zenon
  <2>4. <<0, 0>> \in Sums
    BY DEF Sums
  <2>5. Listen(<<0, 0>>, <<"oh">>) = <<0, 0>>
    <3>1. Listen(<<0, 0>>, <<"oh">>) = Hear(<<0, 0>>, "oh")
      BY <2>4, ListenOne, Zenon
    <3>2. Small("oh") = 0
      BY Zenon DEF Small
    <3> QED BY <3>1, <3>2, SMT DEF Hear
  <2>6. Listen(<<0, 0>>, words) = Listen(<<0, 0>>, number)
    <3>1. Listen(<<0, 0>>, <<"oh">> \o number) = Listen(Listen(<<0, 0>>, <<"oh">>), number)
      BY <1>1, <2>2, <2>4, ListenBoth, Zenon
    <3> QED BY <2>1, <2>5, <3>1, Zenon
  <2>7. Value(words) = Value(number)
    BY <2>6, Zenon DEF Value
  <2>8. words[1] # "o'clock"
    <3>1. "oh" # "o'clock"
      BY SMT
    <3> QED BY <2>3, <3>1, Zenon
  <2> QED BY <1>1, <1>4, <2>3, <2>7, <2>8, Zenon DEF A
<1>5. CASE ~(minute < 10)
  <2>1. words = number
    <3>1. words = <<>> \o number
      BY <1>3, <1>5, Zenon
    <3> QED BY <1>1, <3>1, ConcatEmptySeq, Zenon
  <2> QED BY <1>1, <1>5, <2>1, Zenon DEF A
<1> QED BY <1>4, <1>5, Zenon

(* The parts of a time: the hour's word, the minutes, and the meridiem.    *)
LEMMA PartsOfTime ==
  ASSUME NEW A, NEW x \in A, NEW past \in Seq(A), NEW last \in Seq(A)
  PROVE  LET words == <<x>> \o past \o last IN
         /\ last = <<>> => words = <<x>> \o past
         /\ Len(last) = 2 => /\ SubSeq(words, 1, Len(words) - 2) = <<x>> \o past
                             /\ SubSeq(words, Len(words) - 1, Len(words)) = last
         /\ (<<x>> \o past)[1] = x /\ Tail(<<x>> \o past) = past
<1> DEFINE head == <<x>> \o past
           words == head \o last
<1>1. head \in Seq(A) /\ Len(head) > 0 /\ head[1] = x /\ Tail(head) = past
  BY FirstAndRest, Zenon
<1>2. words = head \o last
  OBVIOUS
<1> HIDE DEF head, words
<1>3. last = <<>> => words = head
  BY <1>1, <1>2, ConcatEmptySeq, Zenon
<1>4. Len(last) = 2 => /\ SubSeq(words, 1, Len(words) - 2) = head
                       /\ SubSeq(words, Len(words) - 1, Len(words)) = last
  <2> SUFFICES ASSUME Len(last) = 2
               PROVE  /\ SubSeq(words, 1, Len(words) - 2) = head
                      /\ SubSeq(words, Len(words) - 1, Len(words)) = last
    BY Zenon
  <2>1. /\ Len(words) = Len(head) + Len(last) /\ SubSeq(words, 1, Len(head)) = head
        /\ Len(last) > 0 => SubSeq(words, Len(head) + 1, Len(head) + Len(last)) = last
    <3>1. /\ Len(head \o last) = Len(head) + Len(last) /\ SubSeq(head \o last, 1, Len(head)) = head
          /\ Len(last) > 0 => SubSeq(head \o last, Len(head) + 1, Len(head) + Len(last)) = last
      BY <1>1, TwoParts, Zenon
    <3> QED BY <1>2, <3>1, Zenon
  <2>2. Len(head) \in Nat
    BY <1>1, LenProperties, Zenon
  <2>3. /\ Len(words) - 2 = Len(head) /\ Len(words) - 1 = Len(head) + 1
        /\ Len(words) = Len(head) + 2 /\ Len(last) > 0
    <3>1. \A h \in Nat : \A w, l :
            w = h + l /\ l = 2 => w - 2 = h /\ w - 1 = h + 1 /\ w = h + 2 /\ l > 0
      BY SMT
    <3> QED BY <2>1, <2>2, <3>1, Zenon
  <2> QED BY <2>1, <2>3, Zenon
<1> QED BY <1>1, <1>3, <1>4, Zenon DEF head, words

HourSaid(hour) ==
  LET shown == IF hour <= 12 THEN hour ELSE hour - 12 IN IF shown = 0 THEN 12 ELSE shown

LEMMA HourShown ==
  ASSUME NEW hour \in 0 .. 23
  PROVE  /\ HourSaid(hour) \in 1 .. 12 /\ HourSaid(hour) \in 0 .. 19
         /\ HourSaid(hour) % 12 = hour % 12
<1> DEFINE said == HourSaid(hour)
<1>1. CASE hour = 0
  <2>1. said = 12
    BY <1>1 DEF HourSaid
  <2> QED BY <1>1, <2>1, SMT
<1>2. CASE hour \in 1 .. 12
  <2>1. said = hour
    BY <1>2 DEF HourSaid
  <2> QED BY <1>2, <2>1, SMT
<1>3. CASE hour \in 13 .. 23
  <2>1. said = hour - 12 /\ said \in 1 .. 11 /\ said + 12 = hour
    BY <1>3 DEF HourSaid
  <2>2. said % 12 = said /\ (said + 12) % 12 = said
    BY <2>1, SMT
  <2> QED BY <2>1, <2>2, SMT
<1> QED BY <1>1, <1>2, <1>3, SMT

LEMMA MinuteIsPast == ASSUME NEW minute \in 0 .. 59, minute # 0 PROVE minute \in Nat /\ minute > 0
BY SMT

LEMMA SaidIsSome == ASSUME NEW A, NEW s \in Seq(A), Len(s) > 0 PROVE s # <<>>
BY SMT

LEMMA MeridiemSaid ==
  ASSUME NEW m \in {"", "am", "pm"}, NEW A, {"a", "m", "p"} \subseteq A
  PROVE  /\ MeridiemWords(m) \in Seq(A)
         /\ m = "" => MeridiemWords(m) = <<>>
         /\ m # "" => Len(MeridiemWords(m)) = 2
<1>1. CASE m = ""
  <2>1. MeridiemWords(m) = <<>>
    <3>1. "" # "am" /\ "" # "pm"
      BY Zenon
    <3> QED BY <1>1, <3>1, Zenon DEF MeridiemWords
  <2> QED BY <1>1, <2>1, EmptySeq, Zenon
<1>2. CASE m = "am"
  <2>1. MeridiemWords(m) = <<"a", "m">>
    BY <1>2, SMT DEF MeridiemWords
  <2>2. <<"a", "m">> \in Seq(A) /\ Len(<<"a", "m">>) = 2 /\ m # ""
    BY <1>2, SMT
  <2> QED BY <2>1, <2>2, Zenon
<1>3. CASE m = "pm"
  <2>1. MeridiemWords(m) = <<"p", "m">>
    BY <1>3, SMT DEF MeridiemWords
  <2>2. <<"p", "m">> \in Seq(A) /\ Len(<<"p", "m">>) = 2 /\ m # ""
    BY <1>3, SMT
  <2> QED BY <2>1, <2>2, Zenon
<1> QED BY <1>1, <1>2, <1>3, Zenon

(* What _spoken_time says of a time of day is understood to be that time   *)
(* on a clock of twelve hours: noon and midnight are twelve, minutes below *)
(* ten begin with "oh", and a full hour without a meridiem is "o'clock".   *)
THEOREM TimesReadBack ==
  \A hour \in 0 .. 23, minute \in 0 .. 59, m \in {"", "am", "pm"} :
    ClockIs(SpokenTime(hour, minute, m), hour, minute, m)
<1> SUFFICES ASSUME NEW hour \in 0 .. 23, NEW minute \in 0 .. 59, NEW m \in {"", "am", "pm"}
             PROVE  ClockIs(SpokenTime(hour, minute, m), hour, minute, m)
  OBVIOUS
<1> DEFINE said == HourSaid(hour)
           sharp == IF m = "" THEN <<"o'clock">> ELSE <<>>
           past == IF minute = 0 THEN sharp
                   ELSE (IF minute < 10 THEN <<"oh">> ELSE <<>>) \o NumberWords[minute]
           last == MeridiemWords(m)
           words == SpokenTime(hour, minute, m)
           All == NumberVocabulary \cup {"oh", "o'clock", "a", "m", "p"}
<1>1. said \in 1 .. 12 /\ said \in 0 .. 19 /\ said % 12 = hour % 12
  BY HourShown, Zenon
<1>2. words = <<One(said)>> \o past \o last
  <2>1. NumberWords[said] = <<One(said)>>
    BY <1>1, NumberWordsOne, Zenon
  <2>2. words = NumberWords[said] \o past \o last
    BY Zenon DEF SpokenTime, HourSaid
  <2> QED BY <2>1, <2>2, Zenon
<1>3. /\ past \in Seq(All)
      /\ IF past \in {<<>>, <<"o'clock">>} THEN minute = 0
         ELSE /\ Value(past) = minute /\ minute > 0
              /\ minute < 10 <=> past[1] = "oh"
  <2>1. CASE minute = 0
    <3>1. past = <<>> \/ past = <<"o'clock">>
      BY <2>1, Zenon
    <3>2. <<"o'clock">> \in Seq(All) /\ <<>> \in Seq(All)
      <4>1. "o'clock" \in All
        BY Zenon
      <4> HIDE DEF All
      <4> QED BY <4>1, EmptySeq, FirstAndRest, Zenon
    <3> QED BY <2>1, <3>1, <3>2, Zenon
  <2>2. CASE minute # 0
    <3>1. minute \in Nat /\ minute > 0
      BY <2>2, MinuteIsPast, Zenon
    <3>2. past = (IF minute < 10 THEN <<"oh">> ELSE <<>>) \o NumberWords[minute]
      BY <2>2, Zenon
    <3> HIDE DEF past
    <3>3. /\ past \in Seq(NumberVocabulary \cup {"oh"}) /\ Len(past) > 0
          /\ past[1] # "o'clock" /\ (minute < 10 <=> past[1] = "oh")
          /\ Value(past) = minute
      BY <3>1, <3>2, MinutesReadBack, Zenon
    <3>4. past \in Seq(All)
      <4>1. NumberVocabulary \cup {"oh"} \subseteq All
        BY Zenon
      <4> QED BY <3>3, <4>1, SeqMonotonic, Zenon
    <3>5. past # <<>> /\ past # <<"o'clock">>
      <4>1. <<"o'clock">>[1] = "o'clock"
        BY Zenon
      <4>2. past # <<>>
        BY <3>3, SaidIsSome, Zenon
      <4> QED BY <3>3, <4>1, <4>2, Zenon
    <3> QED BY <3>1, <3>3, <3>4, <3>5, Zenon
  <2> QED BY <2>1, <2>2
<1>4. /\ last \in Seq(All)
      /\ m = "" => last = <<>>
      /\ m # "" => Len(last) = 2
  <2>1. {"a", "m", "p"} \subseteq All
    BY Zenon
  <2> QED BY <2>1, MeridiemSaid, Zenon
<1>5. One(said) \in All /\ Small(One(said)) = said
  BY <1>1, SmallOne, Zenon DEF NumberVocabulary
<1> DEFINE body == IF m = "" THEN words ELSE SubSeq(words, 1, Len(words) - 2)
<1> HIDE DEF said, past, last, words, All
<1>6. /\ body = <<One(said)>> \o past
      /\ m = "" \/ SubSeq(words, Len(words) - 1, Len(words)) = last
      /\ (<<One(said)>> \o past)[1] = One(said) /\ Tail(<<One(said)>> \o past) = past
  <2>1. /\ last = <<>> => words = <<One(said)>> \o past
        /\ Len(last) = 2 => /\ SubSeq(words, 1, Len(words) - 2) = <<One(said)>> \o past
                            /\ SubSeq(words, Len(words) - 1, Len(words)) = last
        /\ (<<One(said)>> \o past)[1] = One(said) /\ Tail(<<One(said)>> \o past) = past
    <3> DEFINE whole == <<One(said)>> \o past \o last
    <3>1. One(said) \in All /\ past \in Seq(All) /\ last \in Seq(All)
      BY <1>3, <1>4, <1>5, Zenon
    <3>2. /\ last = <<>> => whole = <<One(said)>> \o past
          /\ Len(last) = 2 => /\ SubSeq(whole, 1, Len(whole) - 2) = <<One(said)>> \o past
                              /\ SubSeq(whole, Len(whole) - 1, Len(whole)) = last
          /\ (<<One(said)>> \o past)[1] = One(said) /\ Tail(<<One(said)>> \o past) = past
      BY <3>1, PartsOfTime, Zenon
    <3> QED BY <1>2, <3>2, Zenon
  <2> QED BY <1>4, <2>1, Zenon
<1>7. body[1] = One(said) /\ Tail(body) = past
  BY <1>6, Zenon
<1>8. m = "" \/ SubSeq(words, Len(words) - 1, Len(words)) = MeridiemWords(m)
  BY <1>6, Zenon DEF last
<1>9. Small(body[1]) \in 1 .. 12 /\ Small(body[1]) % 12 = hour % 12
  BY <1>1, <1>5, <1>7, Zenon
<1> HIDE DEF body
<1>10. IF Tail(body) \in {<<>>, <<"o'clock">>} THEN minute = 0
       ELSE /\ Value(Tail(body)) = minute /\ minute > 0
            /\ minute < 10 <=> Tail(body)[1] = "oh"
  BY <1>3, <1>7, Zenon
<1> QED BY <1>8, <1>9, <1>10, Zenon DEF ClockIs, body, words
----------------------------------------------------------------------------
(* A pass over a text, from the left.                                      *)

(* What replaces the text from i on, once what comes after i is known.     *)
Fits(t, end, say, T) ==
  \A i \in 1 .. Len(t) :
    IF end[i] = 0 THEN t[i] \in T
    ELSE end[i] \in i + 1 .. Len(t) + 1 /\ say[i] \in Seq(T)

Passing(from, t, end, say) ==
  \A i \in 1 .. Len(t) + 1 :
    from[i] = IF i > Len(t) THEN <<>>
              ELSE IF end[i] = 0 THEN <<t[i]>> \o from[i + 1]
              ELSE say[i] \o from[end[i]]

LEMMA FitsStep ==
  ASSUME NEW A, NEW T, NEW t \in Seq(A), NEW end, NEW say, Fits(t, end, say, T),
         NEW i \in 1 .. Len(t), NEW f, \A j \in i + 1 .. Len(t) + 1 : f[j] \in Seq(T)
  PROVE  (IF end[i] = 0 THEN <<t[i]>> \o f[i + 1] ELSE say[i] \o f[end[i]]) \in Seq(T)
<1>1. i + 1 \in i + 1 .. Len(t) + 1
  BY SMT
<1>2. \A x \in T : <<x>> \in Seq(T)
  BY SMT
<1>3. \A x, y \in Seq(T) : x \o y \in Seq(T)
  OBVIOUS
<1> QED BY <1>1, <1>2, <1>3, Zenon DEF Fits

LEMMA ReplacedFunction ==
  ASSUME NEW A, NEW T, NEW t \in Seq(A), NEW end, NEW say, Fits(t, end, say, T)
  PROVE  \E from : /\ Replaced(t, end, say) = from[1]
                   /\ Passing(from, t, end, say)
<1> DEFINE n == Len(t)
           Body(f) == [i \in 1 .. n + 1 |->
                         IF i > n THEN <<>>
                         ELSE IF end[i] = 0 THEN <<t[i]>> \o f[i + 1]
                         ELSE say[i] \o f[end[i]]]
           from == CHOOSE f : f = Body(f)
<1>1. n \in Nat
  OBVIOUS
<1>2. \A i \in 1 .. n : \/ end[i] = 0 /\ t[i] \in T
                        \/ end[i] # 0 /\ end[i] \in i + 1 .. n + 1 /\ say[i] \in Seq(T)
  BY Zenon DEF Fits
<1>3. <<>> \in Seq(T)
  BY SMT
<1> HIDE DEF n
<1>5. ASSUME NEW i \in 1 .. n, NEW f, \A j \in i + 1 .. n + 1 : f[j] \in Seq(T)
      PROVE  (IF end[i] = 0 THEN <<t[i]>> \o f[i + 1] ELSE say[i] \o f[end[i]]) \in Seq(T)
  BY <1>5, FitsStep, Zenon DEF n
<1>6. \E f : f = Body(f)
  <2> DEFINE back(g) == [i \in 1 .. n + 1 |-> g[n + 1 - i]]
             step == [j \in Nat |-> [g \in [Nat -> Seq(T)] |->
                       IF j = 0 \/ j > n THEN <<>>
                       ELSE IF end[n + 1 - j] = 0 THEN <<t[n + 1 - j]>> \o back(g)[(n + 1 - j) + 1]
                       ELSE say[n + 1 - j] \o back(g)[end[n + 1 - j]]]]
  <2>1. ASSUME NEW j \in Nat, NEW g \in [Nat -> Seq(T)]
        PROVE  step[j][g] \in Seq(T)
    <3>1. CASE j = 0 \/ j > n
      BY <1>3, <3>1
    <3>2. CASE ~(j = 0 \/ j > n)
      <4> DEFINE i == n + 1 - j
      <4>1. i \in 1 .. n
        BY <1>1, <3>2, SMT
      <4>2. \A k \in i + 1 .. n + 1 : k \in 1 .. n + 1 /\ n + 1 - k \in Nat
        BY <1>1, <4>1, SMT
      <4>3. \A k \in i + 1 .. n + 1 : back(g)[k] \in Seq(T)
        BY <4>2, Zenon
      <4>4. step[j][g] = IF end[i] = 0 THEN <<t[i]>> \o back(g)[i + 1] ELSE say[i] \o back(g)[end[i]]
        BY <3>2, Zenon
      <4> HIDE DEF i
      <4>5. (IF end[i] = 0 THEN <<t[i]>> \o back(g)[i + 1] ELSE say[i] \o back(g)[end[i]]) \in Seq(T)
        <5> HIDE DEF back
        <5> QED BY <1>5, <4>1, <4>3, Zenon
      <4> QED BY <4>4, <4>5, Zenon
    <3> QED BY <3>1, <3>2
  <2>2. step \in [Nat -> [[Nat -> Seq(T)] -> Seq(T)]]
    BY <2>1, Zenon
  <2>3. Local(step, Seq(T))
    <3> SUFFICES ASSUME NEW j \in Nat, NEW g \in [Nat -> Seq(T)], NEW h \in [Nat -> Seq(T)],
                        Same(g, h, j)
                 PROVE  step[j][g] = step[j][h]
      BY Zenon DEF Local
    <3>1. CASE j = 0 \/ j > n
      BY <3>1, Zenon
    <3>2. CASE ~(j = 0 \/ j > n)
      <4> DEFINE i == n + 1 - j
      <4>1. i \in 1 .. n
        BY <1>1, <3>2, SMT
      <4>2. \A k \in i + 1 .. n + 1 : k \in 1 .. n + 1 /\ n + 1 - k \in Nat /\ n + 1 - k < j
        BY <1>1, <4>1, SMT
      <4>3. \A k \in i + 1 .. n + 1 : back(g)[k] = back(h)[k]
        BY <4>2, Zenon DEF Same
      <4>4. /\ step[j][g] = IF end[i] = 0 THEN <<t[i]>> \o back(g)[i + 1] ELSE say[i] \o back(g)[end[i]]
            /\ step[j][h] = IF end[i] = 0 THEN <<t[i]>> \o back(h)[i + 1] ELSE say[i] \o back(h)[end[i]]
        BY <3>2, Zenon
      <4>5. i + 1 \in i + 1 .. n + 1
        BY <1>1, <4>1, SMT
      <4> HIDE DEF i, back, step
      <4> QED BY <1>2, <4>1, <4>3, <4>4, <4>5, Zenon
    <3> QED BY <3>1, <3>2
  <2>4. \A j \in Nat, g \in [Nat -> Seq(T)] : step[j][g] =
          IF j = 0 \/ j > n THEN <<>>
          ELSE IF end[n + 1 - j] = 0 THEN <<t[n + 1 - j]>> \o back(g)[(n + 1 - j) + 1]
          ELSE say[n + 1 - j] \o back(g)[end[n + 1 - j]]
    BY Zenon
  <2> HIDE DEF step
  <2>5. PICK g \in [Nat -> Seq(T)] : Solves(g, step)
    BY <1>3, <2>2, <2>3, WorkedOut, Zenon
  <2>6. ASSUME NEW i \in 1 .. n + 1
        PROVE  back(g)[i] = IF i > n THEN <<>>
                            ELSE IF end[i] = 0 THEN <<t[i]>> \o back(g)[i + 1]
                            ELSE say[i] \o back(g)[end[i]]
    <3> DEFINE j == n + 1 - i
    <3>1. /\ j \in Nat /\ n + 1 - j = i /\ (j = 0 \/ j > n <=> i > n)
      BY <1>1, SMT
    <3>2. back(g)[i] = g[j]
      BY Zenon
    <3> HIDE DEF j, back
    <3> QED BY <2>4, <2>5, <3>1, <3>2, Zenon DEF Solves
  <2>7. back(g) = Body(back(g))
    <3>1. \A b : (/\ b = [i \in 1 .. n + 1 |-> b[i]]
                  /\ \A i \in 1 .. n + 1 : b[i] = IF i > n THEN <<>>
                            ELSE IF end[i] = 0 THEN <<t[i]>> \o b[i + 1]
                            ELSE say[i] \o b[end[i]]) => b = Body(b)
      BY Zenon
    <3>2. back(g) = [i \in 1 .. n + 1 |-> back(g)[i]]
      BY Zenon
    <3> HIDE DEF back, Body
    <3> QED BY <2>6, <3>1, <3>2, Zenon
  <2> QED BY <2>7, Zenon
<1>7. from = Body(from)
  BY <1>6, Zenon
<1>8. Replaced(t, end, say) = from[1]
  BY Zenon DEF Replaced, n
<1> HIDE DEF from
<1>9. ASSUME NEW i \in 1 .. n + 1
      PROVE  from[i] = IF i > n THEN <<>>
                       ELSE IF end[i] = 0 THEN <<t[i]>> \o from[i + 1]
                       ELSE say[i] \o from[end[i]]
  BY <1>7, Zenon
<1> QED BY <1>8, <1>9, Zenon DEF Passing, n

LEMMA PassingType ==
  ASSUME NEW A, NEW T, NEW t \in Seq(A), NEW end, NEW say, Fits(t, end, say, T),
         NEW from, Passing(from, t, end, say)
  PROVE  \A i \in 1 .. Len(t) + 1 : from[i] \in Seq(T)
<1> DEFINE n == Len(t)
<1>1. n \in Nat
  OBVIOUS
<1>2. <<>> \in Seq(T)
  BY SMT
<1>3. ASSUME NEW i \in 1 .. n + 1
      PROVE  from[i] = IF i > n THEN <<>>
                       ELSE IF end[i] = 0 THEN <<t[i]>> \o from[i + 1]
                       ELSE say[i] \o from[end[i]]
  BY Zenon DEF Passing
<1>4. ASSUME NEW i \in 1 .. n, \A j \in i + 1 .. n + 1 : from[j] \in Seq(T)
      PROVE  (IF end[i] = 0 THEN <<t[i]>> \o from[i + 1] ELSE say[i] \o from[end[i]]) \in Seq(T)
  BY <1>4, FitsStep, Zenon
<1> HIDE DEF n
<1> DEFINE S == {j \in Nat : j <= n => from[n + 1 - j] \in Seq(T)}
<1>5. ASSUME NEW j \in Nat, \A m \in Nat : m < j => m \in S PROVE j \in S
  <2> SUFFICES ASSUME j <= n PROVE from[n + 1 - j] \in Seq(T)
    OBVIOUS
  <2> DEFINE i == n + 1 - j
  <2>1. i \in 1 .. n + 1
    BY <1>1, SMT
  <2>2. ASSUME NEW k \in i + 1 .. n + 1 PROVE from[k] \in Seq(T)
    <3>1. n + 1 - k \in Nat /\ n + 1 - k < j /\ n + 1 - k <= n /\ n + 1 - (n + 1 - k) = k
      BY <1>1, <2>1, SMT
    <3>2. n + 1 - k \in S
      BY <1>5, <3>1, Zenon
    <3> QED BY <3>1, <3>2, Zenon
  <2>3. CASE i > n
    BY <1>2, <1>3, <2>1, <2>3, Zenon
  <2>4. CASE ~(i > n)
    <3>1. i \in 1 .. n
      BY <1>1, <2>1, <2>4, SMT
    <3>2. from[i] = IF end[i] = 0 THEN <<t[i]>> \o from[i + 1] ELSE say[i] \o from[end[i]]
      BY <1>3, <2>1, <2>4, Zenon
    <3>3. from[i] \in Seq(T)
      <4> HIDE DEF i
      <4> QED BY <1>4, <2>2, <3>1, <3>2, Zenon
    <3> QED BY <3>3
  <2> QED BY <2>3, <2>4, Zenon
<1> HIDE DEF S
<1>6. Nat \subseteq S
  BY <1>5, StrongInduction
<1>7. ASSUME NEW i \in 1 .. n + 1 PROVE from[i] \in Seq(T)
  <2>1. n + 1 - i \in Nat /\ n + 1 - i <= n /\ n + 1 - (n + 1 - i) = i
    BY <1>1, SMT
  <2>2. n + 1 - i \in S
    BY <1>6, <2>1, Zenon
  <2> QED BY <2>1, <2>2, Zenon DEF S
<1> QED BY <1>7 DEF n

LEMMA ReplacedType ==
  ASSUME NEW A, NEW T, NEW t \in Seq(A), NEW end, NEW say, Fits(t, end, say, T)
  PROVE  Replaced(t, end, say) \in Seq(T)
<1>1. PICK from : Replaced(t, end, say) = from[1] /\ Passing(from, t, end, say)
  BY ReplacedFunction, Zenon
<1>2. \A i \in 1 .. Len(t) + 1 : from[i] \in Seq(T)
  BY <1>1, PassingType, Zenon
<1>3. 1 \in 1 .. Len(t) + 1
  BY LenProperties, SMT
<1> QED BY <1>1, <1>2, <1>3, Zenon
----------------------------------------------------------------------------
(* The tokens of a text, and what the rules find in it.                    *)

(* The words that are said, and those that are only typed.                 *)
Voice ==
  NumberVocabulary \cup {Ordinal(word) : word \in NumberVocabulary}
    \cup {Abbreviations[short] : short \in DOMAIN Abbreviations}
    \cup {"oh", "point", "o'clock", "a", "m", "p", "room", "b", "bus", "number", "locker",
          "extension", "to", "and", "percent"}
WordsSaid == Voice \cup {" "}
WordsTyped == {"", ":", "-", ".", "#", "%", "rm", "ext", "th", "am", "pm"}
Vocabulary == WordsSaid \cup WordsTyped

Token == [w : Vocabulary, d : Seq(0 .. 9)]
Clean == [w : Vocabulary, d : {<<>>}]

LEMMA CleanIsToken == Clean \subseteq Token
<1>1. <<>> \in Seq(0 .. 9)
  BY SMT
<1> QED BY <1>1 DEF Clean, Token

LEMMA SeqCleanIsSeqToken == Seq(Clean) \subseteq Seq(Token)
BY CleanIsToken, Zenon, SeqMonotonic

LEMMA WordIsClean == ASSUME NEW word \in Vocabulary PROVE W(word) \in Clean
BY DEF W, Clean

LEMMA SpokenType ==
  ASSUME NEW words \in Seq(Vocabulary), Len(words) > 0
  PROVE  Spoken(words) \in Seq(Clean)
<1> DEFINE n == Len(words)
           value(k) == IF k % 2 = 1 THEN W(words[(k + 1) \div 2]) ELSE Space
<1>1. n \in Nat /\ n > 0 /\ 2 * n - 1 \in Nat
  BY SMT
<1>2. ASSUME NEW k \in 1 .. 2 * n - 1 PROVE value(k) \in Clean
  <2>1. (k + 1) \div 2 \in 1 .. n
    BY <1>1, <1>2, SMT
  <2>2. words[(k + 1) \div 2] \in Vocabulary
    BY <2>1
  <2>3. " " \in Vocabulary
    BY Zenon DEF Vocabulary, WordsSaid, Voice
  <2> QED BY <2>2, <2>3, WordIsClean, Zenon DEF Space
<1>3. Spoken(words) = [k \in 1 .. 2 * n - 1 |-> value(k)]
  BY Zenon DEF Spoken
<1> HIDE DEF value, n
<1>4. [k \in 1 .. 2 * n - 1 |-> value(k)] \in Seq(Clean)
  BY <1>1, <1>2, SMT
<1> QED BY <1>3, <1>4, Zenon

LEMMA Looked ==
  ASSUME NEW t \in Seq(Token), NEW j \in Int
  PROVE  /\ Len(t) \in Nat
         /\ In(t, j) <=> j \in 1 .. Len(t)
         /\ \A words : At(t, j, words) =>
              j \in 1 .. Len(t) /\ t[j] \in Token /\ t[j].w \in words
         /\ \A lengths : NumAt(t, j, lengths) =>
              j \in 1 .. Len(t) /\ t[j].d \in Seq(0 .. 9) /\ Len(t[j].d) \in lengths
                /\ t[j].d # <<>>
         /\ \A words : \/ After(t, j, words) = j
                       \/ After(t, j, words) = j + 1 /\ j \in 1 .. Len(t)
<1>1. Len(t) \in Nat /\ \A k \in 1 .. Len(t) : t[k] \in Token
  OBVIOUS
<1>2. \A x \in Token : x.d \in Seq(0 .. 9)
  BY DEF Token
<1> HIDE DEF Token
<1>3. \A words : At(t, j, words) => j \in 1 .. Len(t) /\ t[j] \in Token /\ t[j].w \in words
  BY <1>1, Zenon DEF At, In
<1>4. \A lengths : NumAt(t, j, lengths) =>
        j \in 1 .. Len(t) /\ t[j].d \in Seq(0 .. 9) /\ Len(t[j].d) \in lengths /\ t[j].d # <<>>
  BY <1>1, <1>2, Zenon DEF NumAt, In
<1>5. ASSUME NEW words
      PROVE  \/ After(t, j, words) = j
             \/ After(t, j, words) = j + 1 /\ j \in 1 .. Len(t)
  BY <1>3, SMT DEF After
<1> QED BY <1>1, <1>3, <1>4, <1>5, Zenon DEF In

LEMMA VoiceIsKnown == Voice \subseteq Vocabulary
BY Zenon DEF Vocabulary, WordsSaid

LEMMA NumberVoiced ==
  ASSUME NEW n \in Nat
  PROVE  NumberWords[n] \in Seq(Voice) /\ Len(NumberWords[n]) > 0
<1>1. NumberWords[n] \in Seq(NumberVocabulary) /\ Len(NumberWords[n]) > 0
  BY NumberWordsType, Zenon DEF WordSeq
<1>2. NumberVocabulary \subseteq Voice
  BY Zenon DEF Voice
<1> QED BY <1>1, <1>2, Zenon, SeqMonotonic

LEMMA NumberSaid ==
  ASSUME NEW n \in Nat
  PROVE  NumberWords[n] \in Seq(Vocabulary) /\ Len(NumberWords[n]) > 0
BY NumberVoiced, VoiceIsKnown, SeqMonotonic, Zenon

LEMMA OneVoiced == ASSUME NEW n \in 0 .. 19 PROVE One(n) \in Voice
BY Zenon DEF Voice, NumberVocabulary

LEMMA OneSaid == ASSUME NEW n \in 0 .. 19 PROVE One(n) \in Vocabulary
BY OneVoiced, VoiceIsKnown, Zenon

LEMMA DigitsVoiced ==
  ASSUME NEW digits \in Seq(0 .. 9), Len(digits) > 0
  PROVE  DigitWords(digits) \in Seq(Voice) /\ Len(DigitWords(digits)) > 0
<1> DEFINE n == Len(digits)
           value(k) == IF digits[k] = 0 THEN "oh" ELSE One(digits[k])
<1>1. n \in Nat /\ n > 0
  OBVIOUS
<1>2. ASSUME NEW k \in 1 .. n PROVE value(k) \in Voice
  <2>1. digits[k] \in 0 .. 9
    OBVIOUS
  <2>2. digits[k] \in 0 .. 19
    BY <2>1, SMT
  <2>3. "oh" \in Voice
    BY Zenon DEF Voice
  <2> QED BY <2>2, <2>3, OneVoiced, Zenon
<1>3. DigitWords(digits) = [k \in 1 .. n |-> value(k)]
  BY Zenon DEF DigitWords
<1> HIDE DEF value, n
<1>4. [k \in 1 .. n |-> value(k)] \in Seq(Voice) /\ Len([k \in 1 .. n |-> value(k)]) = n
  BY <1>1, <1>2, SMT
<1> QED BY <1>1, <1>3, <1>4, Zenon

LEMMA DigitsSaid ==
  ASSUME NEW digits \in Seq(0 .. 9), Len(digits) > 0
  PROVE  DigitWords(digits) \in Seq(Vocabulary) /\ Len(DigitWords(digits)) > 0
BY DigitsVoiced, VoiceIsKnown, SeqMonotonic, Zenon

LEMMA OrdinalVoiced ==
  ASSUME NEW n \in Nat
  PROVE  OrdinalWords(n) \in Seq(Voice) /\ Len(OrdinalWords(n)) > 0
<1> DEFINE words == NumberWords[n]
           last == words[Len(words)]
<1>1. words \in Seq(NumberVocabulary) /\ Len(words) > 0
  BY NumberWordsType, Zenon DEF WordSeq
<1>2. OrdinalWords(n) = Front(words) \o <<Ordinal(last)>>
  BY Zenon DEF OrdinalWords, Last
<1> HIDE DEF words
<1>3. last \in NumberVocabulary /\ Front(words) \in Seq(NumberVocabulary)
  BY <1>1, SMT DEF Front
<1> HIDE DEF last
<1>4. Ordinal(last) \in Voice /\ NumberVocabulary \subseteq Voice
  BY <1>3, Zenon DEF Voice
<1>5. Front(words) \in Seq(Voice)
  BY <1>3, <1>4, SeqMonotonic, Zenon
<1>6. Front(words) \o <<Ordinal(last)>> \in Seq(Voice)
      /\ Len(Front(words) \o <<Ordinal(last)>>) > 0
  BY <1>4, <1>5, SMT
<1> QED BY <1>2, <1>6, Zenon

LEMMA OrdinalSaid ==
  ASSUME NEW n \in Nat
  PROVE  OrdinalWords(n) \in Seq(Vocabulary) /\ Len(OrdinalWords(n)) > 0
BY OrdinalVoiced, VoiceIsKnown, SeqMonotonic, Zenon

LEMMA NumType == ASSUME NEW digits \in Seq(0 .. 9) PROVE Num(digits) \in Nat
<1> DEFINE n == Len(digits)
           Body(f) == [k \in 0 .. n |-> IF k = 0 THEN 0 ELSE 10 * f[k - 1] + digits[k]]
           up == CHOOSE f : f = Body(f)
           step == [k \in 1 .. n |-> [v \in Nat |-> 10 * v + digits[k]]]
<1>1. n \in Nat /\ \A k \in 1 .. n : digits[k] \in 0 .. 9
  OBVIOUS
<1>2. step \in [1 .. n -> [Nat -> Nat]]
  BY <1>1
<1>3. \A k \in 1 .. n, v \in Nat : step[k][v] = 10 * v + digits[k]
  OBVIOUS
<1> HIDE DEF step, n
<1>4. \E f : f = Body(f)
  <2>1. 0 \in Nat
    OBVIOUS
  <2>2. PICK f \in [0 .. n -> Nat] : Stepped(f, 0, n, step)
    BY <1>1, <1>2, <2>1, StepByStep, Zenon
  <2>3. ASSUME NEW k \in 1 .. n PROVE f[k] = 10 * f[k - 1] + digits[k]
    <3>1. f[k - 1] \in Nat
      BY <1>1
    <3> QED BY <1>3, <2>2, <3>1, Zenon DEF Stepped
  <2>4. f = Body(f)
    BY <1>1, <2>2, <2>3 DEF Stepped
  <2> QED BY <2>4
<1>5. up = Body(up)
  BY <1>4, Zenon
<1>6. Num(digits) = up[n]
  BY Zenon DEF Num, n
<1> HIDE DEF up
<1>7. up[0] = 0 /\ \A k \in 1 .. n : up[k] = 10 * up[k - 1] + digits[k]
  <2>1. 0 \in 0 .. n /\ \A k \in 1 .. n : k \in 0 .. n /\ k # 0
    BY <1>1, SMT
  <2> QED BY <1>5, <2>1, Zenon
<1>8. ASSUME NEW k \in 1 .. n, up[k - 1] \in Nat PROVE up[k] \in Nat
  <2>1. up[k] = 10 * up[k - 1] + digits[k] /\ digits[k] \in 0 .. 9
    BY <1>1, <1>7, Zenon
  <2> QED BY <1>8, <2>1, SMT
<1>9. \A k \in 0 .. n : up[k] \in Nat
  <2>1. up[0] \in Nat
    BY <1>7, SMT
  <2> QED BY <1>1, <1>8, <2>1, StaysIn, Zenon
<1> QED BY <1>1, <1>6, <1>9, SMT

LEMMA DecimalVoiced ==
  ASSUME NEW whole \in Seq(0 .. 9), NEW frac \in Seq(0 .. 9)
  PROVE  DecimalWords(whole, frac) \in Seq(Voice) /\ Len(DecimalWords(whole, frac)) > 0
<1> DEFINE n == Len(frac)
           a == NumberWords[Num(whole)]
           c == [k \in 1 .. n |-> One(frac[k])]
<1>1. a \in Seq(Voice) /\ Len(a) > 0
  BY NumType, NumberVoiced, Zenon
<1>2. "point" \in Voice
  BY Zenon DEF Voice
<1>3. c \in Seq(Voice)
  <2>1. n \in Nat /\ \A k \in 1 .. n : frac[k] \in 0 .. 19
    OBVIOUS
  <2>2. \A k \in 1 .. n : One(frac[k]) \in Voice
    BY <2>1, OneVoiced, Zenon
  <2> HIDE DEF n
  <2> QED BY <2>1, <2>2, SMT
<1>4. DecimalWords(whole, frac) = a \o <<"point">> \o c
  BY Zenon DEF DecimalWords
<1> HIDE DEF a, c
<1>5. a \o <<"point">> \o c \in Seq(Voice) /\ Len(a \o <<"point">> \o c) > 0
  BY <1>1, <1>2, <1>3, SMT
<1> QED BY <1>4, <1>5, Zenon

LEMMA DecimalSaid ==
  ASSUME NEW whole \in Seq(0 .. 9), NEW frac \in Seq(0 .. 9)
  PROVE  DecimalWords(whole, frac) \in Seq(Vocabulary) /\ Len(DecimalWords(whole, frac)) > 0
BY DecimalVoiced, VoiceIsKnown, SeqMonotonic, Zenon

(* What decimal_to_words says is understood: the whole number up to the    *)
(* word "point", and after it each digit, the noughts too.                 *)
THEOREM DecimalsReadBack ==
  \A whole, frac \in Seq(0 .. 9) :
    /\ Says(DecimalWords(whole, frac), "point")
    /\ Value(Until(DecimalWords(whole, frac), "point")) = Num(whole)
    /\ Digits(Since(DecimalWords(whole, frac), "point")) = frac
<1> SUFFICES ASSUME NEW whole \in Seq(0 .. 9), NEW frac \in Seq(0 .. 9)
             PROVE  /\ Says(DecimalWords(whole, frac), "point")
                    /\ Value(Until(DecimalWords(whole, frac), "point")) = Num(whole)
                    /\ Digits(Since(DecimalWords(whole, frac), "point")) = frac
  OBVIOUS
<1> DEFINE words == DecimalWords(whole, frac)
           a == NumberWords[Num(whole)]
           c == [k \in 1 .. Len(frac) |-> One(frac[k])]
           A == NumberVocabulary \cup {"point"}
<1>1. words = a \o <<"point">> \o c
  BY Zenon DEF DecimalWords
<1>2. a \in Seq(NumberVocabulary) /\ Len(a) > 0 /\ Value(a) = Num(whole)
  BY NumType, NumberWordsBegin, NumbersReadBack, Zenon
<1>3. \A k \in 1 .. Len(frac) : frac[k] \in 0 .. 19
  OBVIOUS
<1>4. /\ c \in Seq(NumberVocabulary) /\ Len(c) = Len(frac)
      /\ \A k \in 1 .. Len(frac) : c[k] = One(frac[k])
  <2>1. Len(frac) \in Nat
    OBVIOUS
  <2>2. \A k \in 1 .. Len(frac) : One(frac[k]) \in NumberVocabulary
    BY <1>3, Zenon DEF NumberVocabulary
  <2> DEFINE n == Len(frac)
  <2> HIDE DEF n, NumberVocabulary
  <2>3. n \in Nat /\ \A k \in 1 .. n : One(frac[k]) \in NumberVocabulary
    BY <2>1, <2>2, Zenon DEF n
  <2>4. LET d == [k \in 1 .. n |-> One(frac[k])]
        IN d \in Seq(NumberVocabulary) /\ Len(d) = n /\ \A k \in 1 .. n : d[k] = One(frac[k])
    BY <2>3, SMT
  <2> QED BY <2>4, Zenon DEF n
<1>5. Digits(c) = frac
  <2>1. DOMAIN c = 1 .. Len(frac)
    BY Zenon
  <2>2. \A k \in 1 .. Len(frac) : Small(c[k]) = frac[k]
    BY <1>3, <1>4, SmallOne, Zenon
  <2>3. Digits(c) = [k \in 1 .. Len(frac) |-> Small(c[k])]
    BY <2>1, Zenon DEF Digits
  <2>4. [k \in 1 .. Len(frac) |-> Small(c[k])] = [k \in 1 .. Len(frac) |-> frac[k]]
    <3> HIDE DEF c
    <3> QED BY <2>2, Zenon
  <2>5. frac = [k \in 1 .. Len(frac) |-> frac[k]]
    OBVIOUS
  <2> QED BY <2>3, <2>4, <2>5, Zenon
<1> HIDE DEF a, c, words, NumberVocabulary
<1>6. a \in Seq(A) /\ c \in Seq(A) /\ "point" \in A
  <2>1. NumberVocabulary \subseteq A /\ "point" \in A
    BY Zenon
  <2> QED BY <1>2, <1>4, <2>1, SeqMonotonic, Zenon
<1>7. \A k \in 1 .. Len(a) : a[k] # "point"
  <2>1. \A k \in 1 .. Len(a) : a[k] \in NumberVocabulary
    BY <1>2, ElementOfSeq, Zenon
  <2> QED BY <2>1, NumbersHaveTheirWords, Zenon
<1>8. /\ Says(words, "point")
      /\ Until(words, "point") = a /\ Since(words, "point") = c
  <2>1. Len(a) > 0
    BY <1>2, Zenon
  <2>2. /\ Says(a \o <<"point">> \o c, "point")
        /\ Until(a \o <<"point">> \o c, "point") = a /\ Since(a \o <<"point">> \o c, "point") = c
    <3> HIDE DEF A
    <3> QED BY <1>6, <1>7, <2>1, SplitAt, Zenon
  <2> QED BY <1>1, <2>2, Zenon
<1> QED BY <1>2, <1>5, <1>8, Zenon DEF words

LEMMA SpokenTimeVoiced ==
  ASSUME NEW hour \in 0 .. 23, NEW minute \in Nat, NEW meridiem
  PROVE  /\ SpokenTime(hour, minute, meridiem) \in Seq(Voice)
         /\ Len(SpokenTime(hour, minute, meridiem)) > 0
<1> DEFINE shown == IF hour <= 12 THEN hour ELSE hour - 12
           said == IF shown = 0 THEN 12 ELSE shown
           sharp == IF meridiem = "" THEN <<"o'clock">> ELSE <<>>
           oh == IF minute < 10 THEN <<"oh">> ELSE <<>>
           past == IF minute = 0 THEN sharp ELSE oh \o NumberWords[minute]
           last == MeridiemWords(meridiem)
<1>1. said \in Nat
  BY SMT
<1>2. NumberWords[said] \in Seq(Voice) /\ Len(NumberWords[said]) > 0
  BY <1>1, NumberVoiced, Zenon
<1>3. {"o'clock", "oh", "a", "m", "p"} \subseteq Voice
  BY Zenon DEF Voice
<1> HIDE DEF Voice
<1>4. sharp \in Seq(Voice) /\ oh \in Seq(Voice)
  <2>1. /\ <<"o'clock">> \in Seq(Voice) /\ <<"oh">> \in Seq(Voice)
        /\ <<>> \in Seq(Voice)
    BY <1>3, SMT
  <2> QED BY <2>1, Zenon
<1>5. NumberWords[minute] \in Seq(Voice)
  BY NumberVoiced, Zenon
<1>6. last \in Seq(Voice)
  BY <1>3, SMT DEF MeridiemWords
<1>7. SpokenTime(hour, minute, meridiem) = NumberWords[said] \o past \o last
  BY Zenon DEF SpokenTime
<1> HIDE DEF said, sharp, oh, last
<1>8. past \in Seq(Voice)
  BY <1>4, <1>5, SMT
<1> HIDE DEF past
<1>9. NumberWords[said] \o past \o last \in Seq(Voice)
      /\ Len(NumberWords[said] \o past \o last) > 0
  BY <1>2, <1>6, <1>8, SMT
<1> QED BY <1>7, <1>9, Zenon

LEMMA SpokenTimeSaid ==
  ASSUME NEW hour \in 0 .. 23, NEW minute \in Nat, NEW meridiem
  PROVE  /\ SpokenTime(hour, minute, meridiem) \in Seq(Vocabulary)
         /\ Len(SpokenTime(hour, minute, meridiem)) > 0
BY SpokenTimeVoiced, VoiceIsKnown, SeqMonotonic, Zenon
----------------------------------------------------------------------------
(* Each rule takes a piece of the text and puts tokens in its place.       *)

Claims(t, i, end, say) == end \in i + 1 .. Len(t) + 1 /\ say \in Seq(Token)

LEMMA SaidIsTokens ==
  ASSUME NEW words \in Seq(Vocabulary), Len(words) > 0
  PROVE  Spoken(words) \in Seq(Token)
BY SpokenType, SeqCleanIsSeqToken, Zenon

LEMMA SaidBoth ==
  ASSUME NEW s \in Seq(Vocabulary), NEW r \in Seq(Vocabulary), Len(s) > 0
  PROVE  s \o r \in Seq(Vocabulary) /\ Len(s \o r) > 0
BY SMT

LEMMA SaidWord ==
  /\ \A word \in Vocabulary : <<word>> \in Seq(Vocabulary) /\ Len(<<word>>) > 0
  /\ \A s \in Seq(Vocabulary) : \A b \in BOOLEAN : (IF b THEN s ELSE <<>>) \in Seq(Vocabulary)
<1>1. <<>> \in Seq(Vocabulary)
  BY SMT
<1>2. \A word \in Vocabulary : <<word>> \in Seq(Vocabulary) /\ Len(<<word>>) > 0
  BY SMT
<1> QED BY <1>1, <1>2, Zenon

LEMMA VocabularyHas ==
  {"room", "b", "bus", "number", "locker", "extension", "to", "and", "percent", " ", "oh",
   "point"} \subseteq Vocabulary
BY Zenon DEF Vocabulary, WordsSaid, Voice

(* The digits of a number that a pattern has found.                        *)
LEMMA NumberFound ==
  ASSUME NEW t \in Seq(Token), NEW j \in Int, NEW lengths, NumAt(t, j, lengths)
  PROVE  /\ j \in 1 .. Len(t) /\ t[j].d \in Seq(0 .. 9) /\ Num(t[j].d) \in Nat
         /\ NumberWords[Num(t[j].d)] \in Seq(Vocabulary) /\ Len(NumberWords[Num(t[j].d)]) > 0
         /\ DigitWords(t[j].d) \in Seq(Vocabulary) /\ Len(DigitWords(t[j].d)) > 0
         /\ OrdinalWords(Num(t[j].d)) \in Seq(Vocabulary)
         /\ Len(OrdinalWords(Num(t[j].d))) > 0
<1>1. j \in 1 .. Len(t) /\ t[j].d \in Seq(0 .. 9) /\ t[j].d # <<>>
  BY Looked, Zenon
<1>2. Len(t[j].d) > 0
  BY <1>1, SMT
<1> QED BY <1>1, <1>2, NumType, NumberSaid, DigitsSaid, OrdinalSaid, Zenon

LEMMA PieceIsTokens ==
  ASSUME NEW t \in Seq(Token), NEW i \in 1 .. Len(t), NEW j \in 1 .. Len(t)
  PROVE  SubSeq(t, i, j) \in Seq(Token)
BY SMT

LEMMA AfterIsInt ==
  ASSUME NEW t \in Seq(Token), NEW j \in Int, NEW words
  PROVE  After(t, j, words) \in Int /\ After(t, j, words) \in {j, j + 1}
BY Looked, SMT

LEMMA ClockFound ==
  ASSUME NEW t \in Seq(Token), NEW i \in 1 .. Len(t), ClockAt(t, i)
  PROVE  /\ i + 2 \in 1 .. Len(t) /\ Num(t[i].d) \in Nat /\ Num(t[i + 2].d) \in Nat
         /\ \A end \in Int : end \in i + 1 .. Len(t) + 1 =>
              \A m : SayClock(t, i, end, m) \in Seq(Token)
<1>1. NumAt(t, i, 1 .. 2) /\ NumAt(t, i + 2, {2}) /\ i \in Int /\ i + 2 \in Int
  BY SMT DEF ClockAt
<1>2. i + 2 \in 1 .. Len(t) /\ Num(t[i].d) \in Nat /\ Num(t[i + 2].d) \in Nat
  BY <1>1, NumberFound, Zenon
<1>3. ASSUME NEW end \in Int, end \in i + 1 .. Len(t) + 1, NEW m
      PROVE  SayClock(t, i, end, m) \in Seq(Token)
  <2> DEFINE hour == Num(t[i].d)
             minute == Num(t[i + 2].d)
  <2>1. CASE IsTime(hour, minute)
    <3>1. hour \in 0 .. 23 /\ minute \in Nat
      <4>1. hour \in Nat /\ minute \in Nat
        BY <1>2
      <4> HIDE DEF hour, minute
      <4> QED BY <2>1, <4>1, SMT DEF IsTime
    <3>2. Spoken(SpokenTime(hour, minute, m)) \in Seq(Token)
      BY <3>1, SpokenTimeSaid, SaidIsTokens, Zenon
    <3> QED BY <2>1, <3>2, Zenon DEF SayClock
  <2>2. CASE ~IsTime(hour, minute)
    <3>1. end - 1 \in 1 .. Len(t)
      BY <1>3, Looked, SMT
    <3>2. SubSeq(t, i, end - 1) \in Seq(Token)
      BY <3>1, PieceIsTokens, Zenon
    <3> QED BY <2>2, <3>2, Zenon DEF SayClock
  <2> QED BY <2>1, <2>2
<1> QED BY <1>2, <1>3

LEMMA TimeMeridiemClaims ==
  ASSUME NEW t \in Seq(Token), NEW i \in 1 .. Len(t), TimeMeridiemEnd(t, i) # 0
  PROVE  Claims(t, i, TimeMeridiemEnd(t, i), SayTimeMeridiem(t, i))
<1> DEFINE m == MeridiemOf(t, i)
<1>1. ClockAt(t, i) /\ At(t, m, Meridiems) /\ TimeMeridiemEnd(t, i) = m + 1
  BY Zenon DEF TimeMeridiemEnd
<1>2. m \in Int /\ m \in i + 3 .. i + 6
  <2>1. \A j \in Int : After(t, j, {" "}) \in Int /\ After(t, j, {" "}) \in {j, j + 1}
    BY AfterIsInt, Zenon
  <2>2. i + 3 \in Int /\ i + 5 \in Int
    BY SMT
  <2>3. PICK seconds \in {i + 3, i + 5} : m = After(t, seconds, {" "})
    BY Zenon DEF MeridiemOf
  <2> HIDE DEF m
  <2>4. m \in Int /\ m \in {seconds, seconds + 1}
    BY <2>1, <2>2, <2>3, Zenon
  <2>5. m \in Int /\ m \in i + 3 .. i + 6
    <3>1. seconds = i + 3 \/ seconds = i + 5
      OBVIOUS
    <3>2. m = seconds \/ m = seconds + 1
      BY <2>4
    <3> QED BY <3>1, <3>2, SMT
  <2> QED BY <2>5 DEF m
<1> HIDE DEF m
<1>3. m \in 1 .. Len(t)
  BY <1>1, <1>2, Looked, Zenon
<1>4. m + 1 \in i + 1 .. Len(t) + 1 /\ m + 1 \in Int
  BY <1>2, <1>3, SMT
<1> QED BY <1>1, <1>4, ClockFound, Zenon DEF Claims, SayTimeMeridiem

LEMMA TimeBareClaims ==
  ASSUME NEW t \in Seq(Token), NEW i \in 1 .. Len(t), TimeBareEnd(t, i) # 0
  PROVE  Claims(t, i, TimeBareEnd(t, i), SayTimeBare(t, i))
<1>1. ClockAt(t, i) /\ TimeBareEnd(t, i) = i + 3
  BY Zenon DEF TimeBareEnd
<1>2. i + 2 \in 1 .. Len(t)
  BY <1>1, ClockFound, Zenon
<1>3. i + 3 \in i + 1 .. Len(t) + 1 /\ i + 3 \in Int
  BY <1>2, SMT
<1> QED BY <1>1, <1>3, ClockFound, Zenon DEF Claims, SayTimeBare

LEMMA HourClaims ==
  ASSUME NEW t \in Seq(Token), NEW i \in 1 .. Len(t), HourEnd(t, i) # 0
  PROVE  Claims(t, i, HourEnd(t, i), SayHour(t, i))
<1> DEFINE m == After(t, i + 1, {" "})
           hour == Num(t[i].d)
<1>1. NumAt(t, i, 1 .. 2) /\ At(t, m, Meridiems) /\ HourEnd(t, i) = m + 1
  BY Zenon DEF HourEnd
<1>2. i \in Int /\ i + 1 \in Int
  OBVIOUS
<1>3. m \in Int /\ m \in {i + 1, i + 2}
  <2>1. m \in Int /\ m \in {i + 1, (i + 1) + 1}
    BY <1>2, AfterIsInt, Zenon
  <2> HIDE DEF m
  <2> QED BY <2>1, SMT
<1> HIDE DEF m
<1>4. m \in 1 .. Len(t)
  BY <1>1, <1>3, Looked, Zenon
<1>5. m + 1 \in i + 1 .. Len(t) + 1 /\ (m + 1) - 1 \in 1 .. Len(t)
  BY <1>3, <1>4, SMT
<1>6. hour \in Nat
  BY <1>1, <1>2, NumberFound, Zenon
<1>7. SayHour(t, i) \in Seq(Token)
  <2>1. CASE hour > 23
    <3>1. SubSeq(t, i, (m + 1) - 1) \in Seq(Token)
      BY <1>5, PieceIsTokens, Zenon
    <3> QED BY <1>1, <2>1, <3>1, Zenon DEF SayHour
  <2>2. CASE ~(hour > 23)
    <3>1. hour \in 0 .. 23 /\ 0 \in Nat
      <4> HIDE DEF hour
      <4> QED BY <1>6, <2>2, SMT
    <3>2. \A x : Spoken(SpokenTime(hour, 0, x)) \in Seq(Token)
      BY <3>1, SpokenTimeSaid, SaidIsTokens, Zenon
    <3> QED BY <2>2, <3>2, Zenon DEF SayHour
  <2> QED BY <2>1, <2>2
<1> QED BY <1>1, <1>5, <1>7, Zenon DEF Claims

LEMMA AfterIsNext ==
  ASSUME NEW t \in Seq(Token), NEW j \in Int, NEW words
  PROVE  After(t, j, words) \in Int /\ j <= After(t, j, words) /\ After(t, j, words) <= j + 1
<1> DEFINE next == After(t, j, words)
<1>1. next = j \/ next = j + 1
  BY Looked, Zenon
<1> HIDE DEF next
<1>2. next \in Int /\ j <= next /\ next <= j + 1
  BY <1>1, SMT
<1> QED BY <1>2 DEF next

LEMMA NamedFound ==
  ASSUME NEW t \in Seq(Token), NEW i \in 1 .. Len(t), NEW names
  PROVE  Named(t, i, names) \in Int /\ (Named(t, i, names) = 0 \/ Named(t, i, names) > i)
<1> DEFINE dot == After(t, i + 1, {"."})
           space == After(t, dot, {" "})
           hash == After(t, space, {"#"})
           n == After(t, hash, {" "})
<1>1. Named(t, i, names) = 0 \/ Named(t, i, names) = n
  BY Zenon DEF Named
<1>2. i \in Int /\ i + 1 \in Int
  OBVIOUS
<1>3. dot \in Int /\ i + 1 <= dot
  BY <1>2, AfterIsNext, Zenon
<1> HIDE DEF dot
<1>4. space \in Int /\ dot <= space
  BY <1>3, AfterIsNext, Zenon
<1> HIDE DEF space
<1>5. hash \in Int /\ space <= hash
  BY <1>4, AfterIsNext, Zenon
<1> HIDE DEF hash
<1>6. n \in Int /\ hash <= n
  BY <1>5, AfterIsNext, Zenon
<1> HIDE DEF n
<1> QED BY <1>1, <1>2, <1>3, <1>4, <1>5, <1>6, SMT

(* A number that comes after the name at i.                                *)
LEMMA NamedNumber ==
  ASSUME NEW t \in Seq(Token), NEW i \in 1 .. Len(t), NEW n \in Int, n = 0 \/ n > i,
         NEW lengths, NumAt(t, n, lengths)
  PROVE  /\ n + 1 \in i + 1 .. Len(t) + 1
         /\ t[n].d \in Seq(0 .. 9) /\ Num(t[n].d) \in Nat
         /\ NumberWords[Num(t[n].d)] \in Seq(Vocabulary)
         /\ DigitWords(t[n].d) \in Seq(Vocabulary)
<1>1. n \in 1 .. Len(t)
  BY NumberFound, Zenon
<1>2. n + 1 \in i + 1 .. Len(t) + 1
  BY <1>1, SMT
<1> QED BY <1>2, NumberFound, Zenon

LEMMA RoomClaims ==
  ASSUME NEW t \in Seq(Token), NEW i \in 1 .. Len(t), RoomEnd(t, i) # 0
  PROVE  Claims(t, i, RoomEnd(t, i), SayRoom(t, i))
<1> DEFINE n == Named(t, i, {"room", "rm"})
           d == t[n].d
           number == IF Len(d) <= 2 THEN NumberWords[Num(d)] ELSE DigitWords(d)
           wing == IF RoomSuffix(t, n) = n + 2 THEN <<"b">> ELSE <<>>
<1>1. NumAt(t, n, 1 .. 4) /\ RoomEnd(t, i) = RoomSuffix(t, n)
  BY Zenon DEF RoomEnd
<1>2. n \in Int /\ (n = 0 \/ n > i)
  BY NamedFound, Zenon
<1>3. /\ NumberWords[Num(d)] \in Seq(Vocabulary) /\ DigitWords(d) \in Seq(Vocabulary)
      /\ n + 1 \in i + 1 .. Len(t) + 1
  BY <1>1, <1>2, NamedNumber, Zenon
<1>4. RoomSuffix(t, n) \in i + 1 .. Len(t) + 1
  <2>1. RoomSuffix(t, n) = n + 1 \/ (At(t, n + 1, {"b"}) /\ RoomSuffix(t, n) = n + 2)
    BY Zenon DEF RoomSuffix
  <2>2. n + 1 \in Int
    BY <1>2, SMT
  <2>3. At(t, n + 1, {"b"}) => n + 1 \in 1 .. Len(t)
    BY <2>2, Looked, Zenon
  <2> HIDE DEF n
  <2> QED BY <1>2, <1>3, <2>1, <2>3, SMT
<1>5. SayRoom(t, i) = Spoken(<<"room">> \o number \o wing)
  BY Zenon DEF SayRoom
<1>6. number \in Seq(Vocabulary)
  BY <1>3, Zenon
<1>7. wing \in Seq(Vocabulary)
  BY VocabularyHas, SaidWord, Zenon
<1> HIDE DEF number, wing
<1>8. <<"room">> \in Seq(Vocabulary) /\ Len(<<"room">>) > 0
  BY VocabularyHas, SaidWord, Zenon
<1>9. SayRoom(t, i) \in Seq(Token)
  BY <1>5, <1>6, <1>7, <1>8, SaidBoth, SaidIsTokens, Zenon
<1> QED BY <1>1, <1>4, <1>9, Zenon DEF Claims

LEMMA BusClaims ==
  ASSUME NEW t \in Seq(Token), NEW i \in 1 .. Len(t), BusEnd(t, i) # 0
  PROVE  Claims(t, i, BusEnd(t, i), SayBus(t, i))
<1> DEFINE n == BusNumber(t, i)
           d == t[n].d
           number == IF Num(d) <= 99 THEN NumberWords[Num(d)] ELSE DigitWords(d)
<1>1. NumAt(t, n, 1 .. 4) /\ BusEnd(t, i) = n + 1
  BY Zenon DEF BusEnd
<1>2. n \in Int /\ (n = 0 \/ n > i)
  <2> DEFINE word == After(t, i + 1, {" "})
             rest == IF At(t, word, {"number", "no"}) THEN word + 1 ELSE i + 1
             space == After(t, rest, {" "})
             hash == After(t, space, {"#"})
             last == After(t, hash, {" "})
  <2>1. n = 0 \/ n = last
    BY Zenon DEF BusNumber
  <2>2. i \in Int /\ i + 1 \in Int
    OBVIOUS
  <2>3. word \in Int /\ i + 1 <= word
    BY <2>2, AfterIsNext, Zenon
  <2> HIDE DEF word
  <2>4. rest \in Int /\ i + 1 <= rest
    <3>1. rest = word + 1 \/ rest = i + 1
      BY Zenon
    <3> HIDE DEF rest
    <3>2. rest \in Int /\ i + 1 <= rest
      BY <2>2, <2>3, <3>1, SMT
    <3> QED BY <3>2
  <2> HIDE DEF rest
  <2>5. space \in Int /\ rest <= space
    BY <2>4, AfterIsNext, Zenon
  <2> HIDE DEF space
  <2>6. hash \in Int /\ space <= hash
    BY <2>5, AfterIsNext, Zenon
  <2> HIDE DEF hash
  <2>7. last \in Int /\ hash <= last
    BY <2>6, AfterIsNext, Zenon
  <2> HIDE DEF last, n
  <2> QED BY <2>1, <2>2, <2>4, <2>5, <2>6, <2>7, SMT
<1>3. /\ NumberWords[Num(d)] \in Seq(Vocabulary) /\ DigitWords(d) \in Seq(Vocabulary)
      /\ n + 1 \in i + 1 .. Len(t) + 1
  BY <1>1, <1>2, NamedNumber, Zenon
<1>4. SayBus(t, i) = Spoken(<<"bus", "number">> \o number)
  BY Zenon DEF SayBus
<1>5. number \in Seq(Vocabulary)
  BY <1>3, Zenon
<1> HIDE DEF number
<1>6. <<"bus", "number">> \in Seq(Vocabulary) /\ Len(<<"bus", "number">>) > 0
  <2>1. "bus" \in Vocabulary /\ "number" \in Vocabulary
    BY VocabularyHas, Zenon
  <2> QED BY <2>1, SMT
<1>7. SayBus(t, i) \in Seq(Token)
  BY <1>4, <1>5, <1>6, SaidBoth, SaidIsTokens, Zenon
<1> QED BY <1>1, <1>3, <1>7, Zenon DEF Claims

LEMMA LockerClaims ==
  ASSUME NEW t \in Seq(Token), NEW i \in 1 .. Len(t), LockerEnd(t, i) # 0
  PROVE  Claims(t, i, LockerEnd(t, i), SayLocker(t, i))
<1> DEFINE n == Named(t, i, {"locker"})
<1>1. NumAt(t, n, 1 .. 4) /\ LockerEnd(t, i) = n + 1
  BY Zenon DEF LockerEnd
<1>2. n \in Int /\ (n = 0 \/ n > i)
  BY NamedFound, Zenon
<1>3. DigitWords(t[n].d) \in Seq(Vocabulary) /\ n + 1 \in i + 1 .. Len(t) + 1
  BY <1>1, <1>2, NamedNumber, Zenon
<1>4. <<"locker">> \in Seq(Vocabulary) /\ Len(<<"locker">>) > 0
  BY VocabularyHas, SaidWord, Zenon
<1>5. SayLocker(t, i) = Spoken(<<"locker">> \o DigitWords(t[n].d))
  BY Zenon DEF SayLocker
<1>6. SayLocker(t, i) \in Seq(Token)
  BY <1>3, <1>4, <1>5, SaidBoth, SaidIsTokens, Zenon
<1> QED BY <1>1, <1>3, <1>6, Zenon DEF Claims

LEMMA ExtensionClaims ==
  ASSUME NEW t \in Seq(Token), NEW i \in 1 .. Len(t), ExtensionEnd(t, i) # 0
  PROVE  Claims(t, i, ExtensionEnd(t, i), SayExtension(t, i))
<1> DEFINE n == Named(t, i, ExtensionNames)
<1>1. NumAt(t, n, 2 .. 5) /\ ExtensionEnd(t, i) = n + 1
  BY Zenon DEF ExtensionEnd
<1>2. n \in Int /\ (n = 0 \/ n > i)
  BY NamedFound, Zenon
<1>3. DigitWords(t[n].d) \in Seq(Vocabulary) /\ n + 1 \in i + 1 .. Len(t) + 1
  BY <1>1, <1>2, NamedNumber, Zenon
<1>4. <<"extension">> \in Seq(Vocabulary) /\ Len(<<"extension">>) > 0
  BY VocabularyHas, SaidWord, Zenon
<1>5. SayExtension(t, i) = Spoken(<<"extension">> \o DigitWords(t[n].d))
  BY Zenon DEF SayExtension
<1>6. SayExtension(t, i) \in Seq(Token)
  BY <1>3, <1>4, <1>5, SaidBoth, SaidIsTokens, Zenon
<1> QED BY <1>1, <1>3, <1>6, Zenon DEF Claims

LEMMA PhoneClaims ==
  ASSUME NEW t \in Seq(Token), NEW i \in 1 .. Len(t), PhoneEnd(t, i) # 0
  PROVE  Claims(t, i, PhoneEnd(t, i), SayPhone(t, i))
<1> DEFINE end == PhoneEnd(t, i)
           area == IF WithArea(t, i) THEN DigitWords(t[i].d) ELSE <<>>
           first == DigitWords(t[end - 3].d)
           last == DigitWords(t[end - 1].d)
<1>1. i \in Int /\ i + 2 \in Int /\ i + 4 \in Int /\ (i + 2) + 2 = i + 4
  BY SMT
<1>2. /\ area \in Seq(Vocabulary) /\ first \in Seq(Vocabulary) /\ Len(first) > 0
      /\ last \in Seq(Vocabulary) /\ end \in i + 1 .. Len(t) + 1
  <2>1. CASE WithArea(t, i)
    <3>1. NumAt(t, i, {3}) /\ NumAt(t, i + 2, {3}) /\ NumAt(t, i + 4, {4})
      BY <1>1, <2>1, Zenon DEF WithArea, ShortPhone
    <3>2. /\ DigitWords(t[i].d) \in Seq(Vocabulary)
          /\ DigitWords(t[i + 2].d) \in Seq(Vocabulary) /\ Len(DigitWords(t[i + 2].d)) > 0
          /\ DigitWords(t[i + 4].d) \in Seq(Vocabulary) /\ i + 4 \in 1 .. Len(t)
      BY <1>1, <3>1, NumberFound, Zenon
    <3>3. end = i + 5
      BY <2>1, Zenon DEF PhoneEnd
    <3>4. (i + 5) - 3 = i + 2 /\ (i + 5) - 1 = i + 4 /\ i + 5 \in i + 1 .. Len(t) + 1
      BY <3>2, SMT
    <3> HIDE DEF end
    <3> QED BY <2>1, <3>2, <3>3, <3>4, Zenon
  <2>2. CASE ~WithArea(t, i)
    <3>1. ShortPhone(t, i) /\ end = i + 3
      BY <2>2, Zenon DEF PhoneEnd
    <3>2. NumAt(t, i, {3}) /\ NumAt(t, i + 2, {4})
      BY <3>1, Zenon DEF ShortPhone
    <3>3. /\ DigitWords(t[i].d) \in Seq(Vocabulary) /\ Len(DigitWords(t[i].d)) > 0
          /\ DigitWords(t[i + 2].d) \in Seq(Vocabulary) /\ i + 2 \in 1 .. Len(t)
      BY <1>1, <3>2, NumberFound, Zenon
    <3>4. (i + 3) - 3 = i /\ (i + 3) - 1 = i + 2 /\ i + 3 \in i + 1 .. Len(t) + 1
      BY <3>3, SMT
    <3>5. <<>> \in Seq(Vocabulary)
      BY SMT
    <3> HIDE DEF end
    <3> QED BY <2>2, <3>1, <3>3, <3>4, <3>5, Zenon
  <2> QED BY <2>1, <2>2
<1>3. SayPhone(t, i) = Spoken(area \o first \o last)
  BY Zenon DEF SayPhone
<1> HIDE DEF area, first, last
<1>4. area \o first \o last \in Seq(Vocabulary) /\ Len(area \o first \o last) > 0
  BY <1>2, SMT
<1> QED BY <1>2, <1>3, <1>4, SaidIsTokens, Zenon DEF Claims

LEMMA RangeClaims ==
  ASSUME NEW t \in Seq(Token), NEW i \in 1 .. Len(t), RangeEnd(t, i) # 0
  PROVE  Claims(t, i, RangeEnd(t, i), SayRange(t, i))
<1> DEFINE dash == After(t, i + 1, {" "})
           to == After(t, dash + 1, {" "})
<1>1. NumAt(t, to, 1 .. 2) /\ RangeEnd(t, i) = to + 1
  BY Zenon DEF RangeEnd
<1>2. i \in Int /\ i + 1 \in Int
  OBVIOUS
<1>3. dash \in Int /\ i + 1 <= dash
  BY <1>2, AfterIsNext, Zenon
<1> HIDE DEF dash
<1>4. dash + 1 \in Int
  BY <1>3, SMT
<1>5. to \in Int /\ dash + 1 <= to
  BY <1>4, AfterIsNext, Zenon
<1> HIDE DEF to
<1>6. to \in 1 .. Len(t)
  BY <1>1, <1>5, Looked, Zenon
<1>7. to + 1 \in i + 1 .. Len(t) + 1 /\ (to + 1) - 1 = to
  BY <1>2, <1>3, <1>5, <1>6, SMT
<1>8. t[i] \in Token /\ t[to] \in Token
  BY <1>6
<1>9. Space \in Token /\ W("to") \in Token
  BY VocabularyHas, WordIsClean, CleanIsToken, Zenon DEF Space
<1>10. \A a, b, c \in Token : <<a, b, c, b, t[to]>> \in Seq(Token)
  BY <1>8, SMT
<1>11. SayRange(t, i) = <<t[i], Space, W("to"), Space, t[to]>>
  BY <1>1, <1>7, Zenon DEF SayRange
<1> QED BY <1>1, <1>7, <1>8, <1>9, <1>10, <1>11, Zenon DEF Claims

LEMMA OrdinalClaims ==
  ASSUME NEW t \in Seq(Token), NEW i \in 1 .. Len(t), OrdinalEnd(t, i) # 0
  PROVE  Claims(t, i, OrdinalEnd(t, i), SayOrdinal(t, i))
<1>1. /\ NumAt(t, i, 1 .. 4) /\ At(t, i + 1, {"st", "nd", "rd", "th"})
      /\ OrdinalEnd(t, i) = i + 2
  BY Zenon DEF OrdinalEnd
<1>2. i \in Int /\ i + 1 \in Int
  OBVIOUS
<1>3. i + 1 \in 1 .. Len(t)
  BY <1>1, <1>2, Looked, Zenon
<1>4. i + 2 \in i + 1 .. Len(t) + 1
  BY <1>3, SMT
<1>5. SayOrdinal(t, i) \in Seq(Token)
  BY <1>1, <1>2, NumberFound, SaidIsTokens, Zenon DEF SayOrdinal
<1> QED BY <1>1, <1>4, <1>5, Zenon DEF Claims

LEMMA SymbolClaims ==
  ASSUME NEW t \in Seq(Token), NEW i \in 1 .. Len(t), SymbolEnd(t, i) # 0
  PROVE  Claims(t, i, SymbolEnd(t, i), SaySymbol(t, i))
<1>1. SymbolEnd(t, i) = i + 1 /\ i + 1 \in i + 1 .. Len(t) + 1
  <2>1. SymbolEnd(t, i) = i + 1
    BY Zenon DEF SymbolEnd
  <2>2. i + 1 \in i + 1 .. Len(t) + 1
    BY SMT
  <2> QED BY <2>1, <2>2
<1>2. Symbol(t[i].w) \in {"and", "percent", "number"}
  <2>1. \A w : Symbol(w) \in {"and", "percent", "number"}
    BY SMT DEF Symbol
  <2> QED BY <2>1, Zenon
<1>3. Space \in Token /\ W(Symbol(t[i].w)) \in Token
  <2>1. Symbol(t[i].w) \in Vocabulary
    BY <1>2, VocabularyHas, Zenon
  <2> QED BY <2>1, VocabularyHas, WordIsClean, CleanIsToken, Zenon DEF Space
<1>4. \A a, b \in Token : <<a, b, a>> \in Seq(Token)
  BY SMT
<1>5. SaySymbol(t, i) \in Seq(Token)
  BY <1>3, <1>4, Zenon DEF SaySymbol
<1> QED BY <1>1, <1>5, Zenon DEF Claims

LEMMA AbbreviationClaims ==
  ASSUME NEW t \in Seq(Token), NEW i \in 1 .. Len(t), AbbreviationEnd(t, i) # 0
  PROVE  Claims(t, i, AbbreviationEnd(t, i), SayAbbreviation(t, i))
<1>1. /\ At(t, i, DOMAIN Abbreviations)
      /\ \/ AbbreviationEnd(t, i) = i + 1
         \/ At(t, i + 1, {"."}) /\ AbbreviationEnd(t, i) = i + 2
  BY Zenon DEF AbbreviationEnd
<1>2. i \in Int /\ i + 1 \in Int
  OBVIOUS
<1>3. AbbreviationEnd(t, i) \in i + 1 .. Len(t) + 1
  <2>1. At(t, i + 1, {"."}) => i + 1 \in 1 .. Len(t)
    BY <1>2, Looked, Zenon
  <2>2. i + 1 \in i + 1 .. Len(t) + 1
    BY SMT
  <2>3. i + 1 \in 1 .. Len(t) => i + 2 \in i + 1 .. Len(t) + 1
    BY SMT
  <2> QED BY <1>1, <2>1, <2>2, <2>3, Zenon
<1>4. t[i].w \in DOMAIN Abbreviations
  BY <1>1, <1>2, Looked, Zenon
<1>5. Abbreviations[t[i].w] \in Vocabulary
  BY <1>4, Zenon DEF Vocabulary, WordsSaid, Voice
<1>6. W(Abbreviations[t[i].w]) \in Token
  BY <1>5, WordIsClean, CleanIsToken, Zenon
<1>7. \A x \in Token : <<x>> \in Seq(Token)
  BY SMT
<1>8. SayAbbreviation(t, i) \in Seq(Token)
  BY <1>6, <1>7, Zenon DEF SayAbbreviation
<1> QED BY <1>3, <1>8, Zenon DEF Claims

LEMMA DecimalClaims ==
  ASSUME NEW t \in Seq(Token), NEW i \in 1 .. Len(t), DecimalEnd(t, i) # 0
  PROVE  Claims(t, i, DecimalEnd(t, i), SayDecimal(t, i))
<1>1. NumAt(t, i, Nat) /\ NumAt(t, i + 2, Nat) /\ DecimalEnd(t, i) = i + 3
  BY Zenon DEF DecimalEnd
<1>2. i \in Int /\ i + 2 \in Int
  OBVIOUS
<1>3. t[i].d \in Seq(0 .. 9) /\ t[i + 2].d \in Seq(0 .. 9) /\ i + 2 \in 1 .. Len(t)
  BY <1>1, <1>2, NumberFound, Zenon
<1>4. i + 3 \in i + 1 .. Len(t) + 1
  BY <1>3, SMT
<1>5. SayDecimal(t, i) \in Seq(Token)
  BY <1>3, DecimalSaid, SaidIsTokens, Zenon DEF SayDecimal
<1> QED BY <1>1, <1>4, <1>5, Zenon DEF Claims

LEMMA LongRunClaims ==
  ASSUME NEW t \in Seq(Token), NEW i \in 1 .. Len(t), LongRunEnd(t, i) # 0
  PROVE  Claims(t, i, LongRunEnd(t, i), SayLongRun(t, i))
<1>1. NumAt(t, i, Nat \ 0 .. 4) /\ LongRunEnd(t, i) = i + 1
  BY Zenon DEF LongRunEnd
<1>2. i \in Int /\ i + 1 \in i + 1 .. Len(t) + 1
  BY SMT
<1>3. SayLongRun(t, i) \in Seq(Token)
  BY <1>1, <1>2, NumberFound, SaidIsTokens, Zenon DEF SayLongRun
<1> QED BY <1>1, <1>2, <1>3, Zenon DEF Claims

(* The last rule takes every number there is.                              *)
LEMMA IntClaims ==
  ASSUME NEW t \in Seq(Token), NEW i \in 1 .. Len(t)
  PROVE  IF IntEnd(t, i) = 0 THEN t[i] \in Clean
         ELSE IntEnd(t, i) \in i + 1 .. Len(t) + 1 /\ SayInt(t, i) \in Seq(Clean)
<1>1. i \in Int /\ i + 1 \in i + 1 .. Len(t) + 1 /\ t[i] \in Token /\ i + 1 # 0
  BY SMT
<1>2. CASE NumAt(t, i, Nat)
  <2>1. IntEnd(t, i) = i + 1
    BY <1>2, Zenon DEF IntEnd
  <2>2. SayInt(t, i) \in Seq(Clean)
    BY <1>1, <1>2, NumberFound, SpokenType, Zenon DEF SayInt
  <2> QED BY <1>1, <2>1, <2>2, Zenon
<1>3. CASE ~NumAt(t, i, Nat)
  <2>1. IntEnd(t, i) = 0
    BY <1>3, Zenon DEF IntEnd
  <2>2. t[i].d \in Seq(0 .. 9)
    BY <1>1 DEF Token
  <2>3. Len(t[i].d) \in Nat
    BY <2>2
  <2>4. t[i].d = <<>>
    BY <1>3, <2>3, Zenon DEF NumAt, In
  <2>5. t[i] \in Clean
    BY <1>1, <2>4, SMT DEF Token, Clean
  <2> QED BY <2>1, <2>5, Zenon
<1> QED BY <1>2, <1>3
----------------------------------------------------------------------------
(* The rules one after the other, and what is typed.                       *)

LEMMA PassType ==
  ASSUME NEW t \in Seq(Token), NEW end, NEW say,
         \A i \in 1 .. Len(t) : end[i] # 0 => Claims(t, i, end[i], say[i])
  PROVE  Replaced(t, end, say) \in Seq(Token)
<1>1. \A i \in 1 .. Len(t) : t[i] \in Token
  OBVIOUS
<1>2. Fits(t, end, say, Token)
  BY <1>1, Zenon DEF Fits, Claims
<1> QED BY <1>2, ReplacedType, Zenon

LEMMA DomainOfText == ASSUME NEW t \in Seq(Token) PROVE DOMAIN t = 1 .. Len(t)
OBVIOUS

LEMMA RoomPass == ASSUME NEW t \in Seq(Token) PROVE Sub(t, RoomEnd, SayRoom) \in Seq(Token)
BY RoomClaims, PassType, DomainOfText, Zenon DEF Sub
LEMMA BusPass == ASSUME NEW t \in Seq(Token) PROVE Sub(t, BusEnd, SayBus) \in Seq(Token)
BY BusClaims, PassType, DomainOfText, Zenon DEF Sub
LEMMA LockerPass == ASSUME NEW t \in Seq(Token) PROVE Sub(t, LockerEnd, SayLocker) \in Seq(Token)
BY LockerClaims, PassType, DomainOfText, Zenon DEF Sub
LEMMA ExtensionPass ==
  ASSUME NEW t \in Seq(Token) PROVE Sub(t, ExtensionEnd, SayExtension) \in Seq(Token)
BY ExtensionClaims, PassType, DomainOfText, Zenon DEF Sub
LEMMA PhonePass == ASSUME NEW t \in Seq(Token) PROVE Sub(t, PhoneEnd, SayPhone) \in Seq(Token)
BY PhoneClaims, PassType, DomainOfText, Zenon DEF Sub
LEMMA RangePass == ASSUME NEW t \in Seq(Token) PROVE Sub(t, RangeEnd, SayRange) \in Seq(Token)
BY RangeClaims, PassType, DomainOfText, Zenon DEF Sub
LEMMA OrdinalPass == ASSUME NEW t \in Seq(Token) PROVE Sub(t, OrdinalEnd, SayOrdinal) \in Seq(Token)
BY OrdinalClaims, PassType, DomainOfText, Zenon DEF Sub

LEMMA TimesPass == ASSUME NEW t \in Seq(Token) PROVE ExpandTimes(t) \in Seq(Token)
<1>1. \A u \in Seq(Token) : Sub(u, TimeMeridiemEnd, SayTimeMeridiem) \in Seq(Token)
  BY TimeMeridiemClaims, PassType, DomainOfText, Zenon DEF Sub
<1>2. \A u \in Seq(Token) : Sub(u, TimeBareEnd, SayTimeBare) \in Seq(Token)
  BY TimeBareClaims, PassType, DomainOfText, Zenon DEF Sub
<1>3. \A u \in Seq(Token) : Sub(u, HourEnd, SayHour) \in Seq(Token)
  BY HourClaims, PassType, DomainOfText, Zenon DEF Sub
<1> QED BY <1>1, <1>2, <1>3, Zenon DEF ExpandTimes

LEMMA SymbolsPass ==
  ASSUME NEW t \in Seq(Token)
  PROVE  Sub(Sub(t, SymbolEnd, SaySymbol), AbbreviationEnd, SayAbbreviation) \in Seq(Token)
<1>1. \A u \in Seq(Token) : Sub(u, SymbolEnd, SaySymbol) \in Seq(Token)
  BY SymbolClaims, PassType, DomainOfText, Zenon DEF Sub
<1>2. \A u \in Seq(Token) : Sub(u, AbbreviationEnd, SayAbbreviation) \in Seq(Token)
  BY AbbreviationClaims, PassType, DomainOfText, Zenon DEF Sub
<1> QED BY <1>1, <1>2, Zenon

LEMMA NumbersPass == ASSUME NEW t \in Seq(Token) PROVE ExpandNumbers(t) \in Seq(Clean)
<1>1. \A u \in Seq(Token) : Sub(u, DecimalEnd, SayDecimal) \in Seq(Token)
  BY DecimalClaims, PassType, DomainOfText, Zenon DEF Sub
<1>2. \A u \in Seq(Token) : Sub(u, LongRunEnd, SayLongRun) \in Seq(Token)
  BY LongRunClaims, PassType, DomainOfText, Zenon DEF Sub
<1>3. ASSUME NEW u \in Seq(Token) PROVE Sub(u, IntEnd, SayInt) \in Seq(Clean)
  <2> DEFINE end == [i \in DOMAIN u |-> IntEnd(u, i)]
             say == [i \in DOMAIN u |-> SayInt(u, i)]
  <2>1. Fits(u, end, say, Clean)
    BY IntClaims, DomainOfText, Zenon DEF Fits
  <2>2. Sub(u, IntEnd, SayInt) = Replaced(u, end, say)
    BY Zenon DEF Sub
  <2> QED BY <2>1, <2>2, ReplacedType, Zenon
<1> QED BY <1>1, <1>2, <1>3, Zenon DEF ExpandNumbers

LEMMA ExpandedIs ==
  ASSUME NEW t, NEW r
  PROVE  /\ r = 1 => Expanded(t, r) = ExpandTimes(t)
         /\ r = 2 => Expanded(t, r) = Sub(t, RoomEnd, SayRoom)
         /\ r = 3 => Expanded(t, r) = Sub(t, BusEnd, SayBus)
         /\ r = 4 => Expanded(t, r) = Sub(t, LockerEnd, SayLocker)
         /\ r = 5 => Expanded(t, r) = Sub(t, ExtensionEnd, SayExtension)
         /\ r = 6 => Expanded(t, r) = Sub(t, PhoneEnd, SayPhone)
         /\ r = 7 => Expanded(t, r) = Sub(t, RangeEnd, SayRange)
         /\ r = 8 => Expanded(t, r) = Sub(t, OrdinalEnd, SayOrdinal)
         /\ r = 9 => Expanded(t, r) = Sub(Sub(t, SymbolEnd, SaySymbol), AbbreviationEnd, SayAbbreviation)
         /\ r = 10 => Expanded(t, r) = ExpandNumbers(t)
BY SMT DEF Expanded

LEMMA ExpandedType ==
  ASSUME NEW t \in Seq(Token), NEW r \in 1 .. Rules
  PROVE  /\ Expanded(t, r) \in Seq(Token)
         /\ r = Rules => Expanded(t, r) \in Seq(Clean)
<1>1. /\ r = 1 => Expanded(t, r) = ExpandTimes(t)
      /\ r = 2 => Expanded(t, r) = Sub(t, RoomEnd, SayRoom)
      /\ r = 3 => Expanded(t, r) = Sub(t, BusEnd, SayBus)
      /\ r = 4 => Expanded(t, r) = Sub(t, LockerEnd, SayLocker)
      /\ r = 5 => Expanded(t, r) = Sub(t, ExtensionEnd, SayExtension)
      /\ r = 6 => Expanded(t, r) = Sub(t, PhoneEnd, SayPhone)
      /\ r = 7 => Expanded(t, r) = Sub(t, RangeEnd, SayRange)
      /\ r = 8 => Expanded(t, r) = Sub(t, OrdinalEnd, SayOrdinal)
      /\ r = 9 => Expanded(t, r) = Sub(Sub(t, SymbolEnd, SaySymbol), AbbreviationEnd, SayAbbreviation)
      /\ r = 10 => Expanded(t, r) = ExpandNumbers(t)
  BY ExpandedIs, Zenon
<1>2. /\ \/ r = 1 \/ r = 2 \/ r = 3 \/ r = 4 \/ r = 5
         \/ r = 6 \/ r = 7 \/ r = 8 \/ r = 9 \/ r = 10
      /\ Rules = 10
  BY SMT DEF Rules
<1>3. ExpandNumbers(t) \in Seq(Token)
  BY NumbersPass, SeqCleanIsSeqToken, Zenon
<1> QED BY <1>1, <1>2, <1>3, TimesPass, RoomPass, BusPass, LockerPass, ExtensionPass, PhonePass,
           RangePass, OrdinalPass, SymbolsPass, NumbersPass, Zenon

LEMMA TypedType ==
  ASSUME NEW item \in Item, item.kind = "area" => Len(item.b) = 7
  PROVE  Typed(item) \in Seq(Token)
<1> DEFINE a == N(item.a)
           b == N(item.b)
           m == W(item.m)
           pm == IF item.m = "" THEN <<>> ELSE <<Space, m>>
<1>1. /\ item.a \in Seq(0 .. 9) /\ item.b \in Seq(0 .. 9) /\ item.m \in {"", "am", "pm"}
  BY DEF Item
<1>2. WordsTyped \subseteq Vocabulary /\ {"and", " ", "room", "b", "bus", "locker"} \subseteq Vocabulary
  BY Zenon DEF Vocabulary, WordsSaid, Voice
<1>3. \A word \in WordsTyped \cup {"and", " ", "room", "b", "bus", "locker"} : W(word) \in Token
  BY <1>2, WordIsClean, CleanIsToken, Zenon
<1>4. \A digits \in Seq(0 .. 9) : N(digits) \in Token
  <2>1. "" \in Vocabulary
    BY <1>2, Zenon DEF WordsTyped
  <2>2. \A w \in Vocabulary, digits \in Seq(0 .. 9) : [w |-> w, d |-> digits] \in Token
    BY DEF Token
  <2> QED BY <2>1, <2>2, Zenon DEF N
<1>5. a \in Token /\ b \in Token /\ m \in Token
  BY <1>1, <1>3, <1>4, Zenon DEF WordsTyped
<1>6. pm \in Seq(Token)
  <2>1. Space \in Token
    BY <1>3, Zenon DEF Space
  <2>2. <<>> \in Seq(Token) /\ \A x, y \in Token : <<x, y>> \in Seq(Token)
    BY SMT
  <2> QED BY <1>5, <2>1, <2>2, Zenon
<1>7. /\ W(":") \in Token /\ W("%") \in Token /\ W(".") \in Token /\ W("rm") \in Token
      /\ W("room") \in Token /\ W("b") \in Token /\ W("bus") \in Token /\ W("#") \in Token
      /\ W("locker") \in Token /\ W("ext") \in Token /\ W("th") \in Token /\ W("-") \in Token
      /\ Space \in Token
  BY <1>3, Zenon DEF WordsTyped, Space
<1>8. CASE item.kind = "area"
  <2>1. SubSeq(item.b, 1, 3) \in Seq(0 .. 9) /\ SubSeq(item.b, 4, 7) \in Seq(0 .. 9)
    <3> DEFINE s == item.b
    <3>1. s \in Seq(0 .. 9) /\ Len(s) = 7
      BY <1>1, <1>8, Zenon
    <3> HIDE DEF s
    <3>2. /\ \A k \in 1 .. 3 : s[k] \in 0 .. 9
          /\ \A k \in 4 .. 7 : s[k] \in 0 .. 9
      <4>1. \A k \in 1 .. 3 : k \in 1 .. Len(s)
        BY <3>1, SMT
      <4>2. \A k \in 4 .. 7 : k \in 1 .. Len(s)
        BY <3>1, SMT
      <4> QED BY <3>1, <4>1, <4>2, ElementOfSeq, Zenon
    <3>3. 1 \in Int /\ 3 \in Int /\ 4 \in Int /\ 7 \in Int
      OBVIOUS
    <3>4. SubSeq(s, 1, 3) \in Seq(0 .. 9) /\ SubSeq(s, 4, 7) \in Seq(0 .. 9)
      BY <3>2, <3>3, SubSeqProperties, Zenon
    <3> QED BY <3>4 DEF s
  <2>2. N(SubSeq(item.b, 1, 3)) \in Token /\ N(SubSeq(item.b, 4, 7)) \in Token
    BY <1>4, <2>1, Zenon
  <2>3. Typed(item) = <<a, Space, N(SubSeq(item.b, 1, 3)), W("."), N(SubSeq(item.b, 4, 7))>>
    BY <1>8, Zenon DEF Typed
  <2> HIDE DEF a
  <2>4. <<a, Space, N(SubSeq(item.b, 1, 3)), W("."), N(SubSeq(item.b, 4, 7))>> \in Seq(Token)
    BY <1>5, <1>7, <2>2, SMT
  <2> QED BY <2>3, <2>4, Zenon
<1>9. CASE item.kind # "area"
  <2>1. \/ Typed(item) = <<a>>
        \/ Typed(item) = <<a, W(":"), b>> \o pm
        \/ Typed(item) = <<a, m>>
        \/ Typed(item) = <<a, W(":"), b, W(":"), b>> \o pm
        \/ Typed(item) = <<a, W("%")>>
        \/ Typed(item) = <<W("rm"), W("."), Space, a>>
        \/ Typed(item) = <<W("room"), Space, a, W("b")>>
        \/ Typed(item) = <<W("bus"), Space, W("#"), a>>
        \/ Typed(item) = <<W("locker"), Space, a>>
        \/ Typed(item) = <<W("ext"), W("."), Space, a>>
        \/ Typed(item) = <<a, W("th")>>
        \/ Typed(item) = <<a, W("."), b>>
        \/ Typed(item) = <<a, W("-"), b>>
    BY <1>9, Zenon DEF Typed
  <2> HIDE DEF a, b, m, pm
  <2>2. /\ <<a>> \in Seq(Token) /\ <<a, m>> \in Seq(Token)
        /\ <<a, W("%")>> \in Seq(Token) /\ <<a, W("th")>> \in Seq(Token)
    BY <1>5, <1>7, SMT
  <2>3. /\ <<a, W(":"), b>> \in Seq(Token) /\ <<a, W("."), b>> \in Seq(Token)
        /\ <<a, W("-"), b>> \in Seq(Token) /\ <<W("locker"), Space, a>> \in Seq(Token)
    BY <1>5, <1>7, SMT
  <2>4. /\ <<W("rm"), W("."), Space, a>> \in Seq(Token)
        /\ <<W("room"), Space, a, W("b")>> \in Seq(Token)
        /\ <<W("bus"), Space, W("#"), a>> \in Seq(Token)
        /\ <<W("ext"), W("."), Space, a>> \in Seq(Token)
        /\ <<a, W(":"), b, W(":"), b>> \in Seq(Token)
    BY <1>5, <1>7, SMT
  <2>5. \A s \in Seq(Token) : s \o pm \in Seq(Token)
    BY <1>6, SMT
  <2> QED BY <2>1, <2>2, <2>3, <2>4, <2>5, Zenon
<1> QED BY <1>8, <1>9

Joining(up, parts, glue) ==
  up[0] = <<>> /\ \A k \in 1 .. Len(parts) :
    up[k] = IF k = 1 THEN parts[1] ELSE up[k - 1] \o glue \o parts[k]

LEMMA JoinedFunction ==
  ASSUME NEW T, NEW parts \in Seq(Seq(T)), NEW glue \in Seq(T)
  PROVE  \E up \in [0 .. Len(parts) -> Seq(T)] :
           Joined(parts, glue) = up[Len(parts)] /\ Joining(up, parts, glue)
<1> DEFINE n == Len(parts)
           Body(f) == [k \in 0 .. n |-> IF k = 0 THEN <<>> ELSE IF k = 1 THEN parts[1]
                                        ELSE f[k - 1] \o glue \o parts[k]]
           up == CHOOSE f : f = Body(f)
           step == [k \in 1 .. n |-> [v \in Seq(T) |->
                      IF k = 1 THEN parts[1] ELSE v \o glue \o parts[k]]]
<1>1. n \in Nat /\ \A k \in 1 .. n : parts[k] \in Seq(T)
  OBVIOUS
<1>2. <<>> \in Seq(T)
  BY SMT
<1>3. ASSUME NEW k \in 1 .. n, NEW v \in Seq(T)
      PROVE  (IF k = 1 THEN parts[1] ELSE v \o glue \o parts[k]) \in Seq(T)
  <2>1. parts[k] \in Seq(T)
    BY <1>1
  <2>2. v \o glue \o parts[k] \in Seq(T)
    BY <2>1, SMT
  <2> QED BY <2>1, <2>2, Zenon
<1>4. step \in [1 .. n -> [Seq(T) -> Seq(T)]]
  BY <1>3, Zenon
<1>5. \A k \in 1 .. n, v \in Seq(T) :
        step[k][v] = IF k = 1 THEN parts[1] ELSE v \o glue \o parts[k]
  BY Zenon
<1> HIDE DEF step, n
<1>6. \E f : f = Body(f)
  <2>1. PICK f \in [0 .. n -> Seq(T)] : Stepped(f, <<>>, n, step)
    BY <1>1, <1>2, <1>4, StepByStep, Zenon
  <2>2. ASSUME NEW k \in 1 .. n
        PROVE  f[k] = IF k = 1 THEN parts[1] ELSE f[k - 1] \o glue \o parts[k]
    <3>1. f[k - 1] \in Seq(T)
      BY <1>1
    <3> QED BY <1>5, <2>1, <3>1, Zenon DEF Stepped
  <2>3. f[0] = <<>> /\ f = [k \in 0 .. n |-> f[k]]
    BY <2>1, Zenon DEF Stepped
  <2>4. \A k \in 0 .. n : k = 0 \/ (k \in 1 .. n /\ k # 0)
    BY <1>1, SMT
  <2>5. \A k \in 0 .. n : f[k] = IF k = 0 THEN <<>> ELSE IF k = 1 THEN parts[1]
                                 ELSE f[k - 1] \o glue \o parts[k]
    BY <2>2, <2>3, <2>4, Zenon
  <2>6. f = Body(f)
    BY <2>3, <2>5, Zenon
  <2> QED BY <2>6, Zenon
<1>7. up = Body(up)
  BY <1>6, Zenon
<1>8. Joined(parts, glue) = up[n]
  BY Zenon DEF Joined, n
<1> HIDE DEF up
<1>9. /\ up[0] = <<>>
      /\ \A k \in 1 .. n : up[k] = IF k = 1 THEN parts[1] ELSE up[k - 1] \o glue \o parts[k]
  <2>1. 0 \in 0 .. n /\ \A k \in 1 .. n : k \in 0 .. n /\ k # 0
    BY <1>1, SMT
  <2> QED BY <1>7, <2>1, Zenon
<1>10. \A k \in 1 .. n : up[k - 1] \in Seq(T) => up[k] \in Seq(T)
  BY <1>3, <1>9, Zenon
<1>11. \A k \in 0 .. n : up[k] \in Seq(T)
  <2>1. up[0] \in Seq(T)
    BY <1>2, <1>9, Zenon
  <2> QED BY <1>1, <1>10, <2>1, StaysIn, Zenon
<1>12. up = [k \in 0 .. n |-> up[k]]
  BY <1>7, Zenon
<1>13. up \in [0 .. n -> Seq(T)]
  BY <1>11, <1>12, Zenon
<1> QED BY <1>8, <1>9, <1>13, Zenon DEF Joining, n

LEMMA JoinedType ==
  ASSUME NEW T, NEW parts \in Seq(Seq(T)), NEW glue \in Seq(T)
  PROVE  Joined(parts, glue) \in Seq(T)
<1>1. PICK up \in [0 .. Len(parts) -> Seq(T)] : Joined(parts, glue) = up[Len(parts)]
  BY JoinedFunction, Zenon
<1>2. Len(parts) \in 0 .. Len(parts)
  BY LenProperties, SMT
<1> QED BY <1>1, <1>2, Zenon

(* What is typed is made of tokens, and after the last rule none of them   *)
(* has a digit.                                                            *)
TextType ==
  /\ text \in Seq(Token) /\ rule \in 0 .. Rules
  /\ Finished => text \in Seq(Clean)

(* Whatever somebody types, no figure reaches the voice: at the end of     *)
(* _expand_chunk every token is a word.                                    *)
THEOREM NoFigureIsLeftAlways == Spec => []NoFigureIsLeft
<1>1. Init => TextType
  <2> SUFFICES ASSUME Init PROVE TextType
    OBVIOUS
  <2> DEFINE parts == [k \in DOMAIN typed |-> Typed(typed[k])]
  <2>1. typed \in Seq(Item) /\ \A k \in DOMAIN typed : typed[k].kind = "area" => Len(typed[k].b) = 7
    BY SentencesAssumption, Zenon DEF Init
  <2>2. DOMAIN typed = 1 .. Len(typed) /\ Len(typed) \in Nat
    BY <2>1
  <2>3. \A k \in 1 .. Len(typed) : Typed(typed[k]) \in Seq(Token)
    <3>1. \A k \in 1 .. Len(typed) : typed[k] \in Item
      BY <2>1
    <3> QED BY <2>1, <2>2, <3>1, TypedType, Zenon
  <2>4. parts \in Seq(Seq(Token))
    <3>1. parts = [k \in 1 .. Len(typed) |-> Typed(typed[k])]
      BY <2>2, Zenon
    <3> HIDE DEF parts
    <3> QED BY <2>2, <2>3, <3>1, SMT
  <2>5. And \in Seq(Token)
    <3>1. Space \in Token /\ W("and") \in Token
      BY VocabularyHas, WordIsClean, CleanIsToken, Zenon DEF Space
    <3> QED BY <3>1, SMT DEF And
  <2>6. text \in Seq(Token) /\ rule = 0
    BY <2>4, <2>5, JoinedType, Zenon DEF Init
  <2> QED BY <2>6, SMT DEF TextType, Finished, Rules
<1>2. TextType /\ [Next]_vars => TextType'
  <2> SUFFICES ASSUME TextType, [Next]_vars PROVE TextType'
    OBVIOUS
  <2>1. CASE Apply
    <3>1. rule + 1 \in 1 .. Rules /\ rule' = rule + 1 /\ text' = Expanded(text, rule + 1)
      BY <2>1, SMT DEF Apply, TextType, Rules
    <3>2. /\ text' \in Seq(Token)
          /\ rule + 1 = Rules => text' \in Seq(Clean)
      BY <3>1, ExpandedType, Zenon DEF TextType
    <3> QED BY <3>1, <3>2, SMT DEF TextType, Finished, Rules
  <2>2. CASE UNCHANGED vars
    BY <2>2, Zenon DEF vars, TextType, Finished
  <2> QED BY <2>1, <2>2 DEF Next
<1>3. TextType => NoFigureIsLeft
  <2>1. \A x \in Clean : x.d = <<>>
    BY DEF Clean
  <2>2. ASSUME text \in Seq(Clean), NEW k \in DOMAIN text PROVE text[k] \in Clean
    BY <2>2
  <2> QED BY <2>1, <2>2, Zenon DEF TextType, NoFigureIsLeft
<1> QED BY <1>1, <1>2, <1>3, PTL DEF Spec
----------------------------------------------------------------------------
(* What is heard of a text.                                                *)

Voicing(up, t) ==
  up[0] = <<>> /\ \A k \in 1 .. Len(t) :
    up[k] = IF t[k] = Space THEN up[k - 1] ELSE up[k - 1] \o <<t[k].w>>

LEMMA HeardFunction ==
  ASSUME NEW t \in Seq(Token)
  PROVE  \E up : /\ up \in [0 .. Len(t) -> Seq(Vocabulary)] /\ Voicing(up, t)
                 /\ Heard(t) = up[Len(t)]
<1> DEFINE n == Len(t)
           Body(f) == [k \in 0 .. n |-> IF k = 0 THEN <<>>
                                        ELSE IF t[k] = Space THEN f[k - 1]
                                        ELSE f[k - 1] \o <<t[k].w>>]
           up == CHOOSE f : f = Body(f)
           T == Seq(Vocabulary)
           step == [k \in 1 .. n |-> [v \in T |->
                      IF t[k] = Space THEN v ELSE v \o <<t[k].w>>]]
<1>1. n \in Nat /\ \A k \in 1 .. n : t[k].w \in Vocabulary
  <2>1. \A x \in Token : x.w \in Vocabulary
    BY DEF Token
  <2>2. n \in Nat /\ \A k \in 1 .. n : t[k] \in Token
    BY ElementOfSeq, LenProperties, Zenon
  <2> QED BY <2>1, <2>2, Zenon
<1>2. <<>> \in T
  BY EmptySeq, Zenon
<1>3. ASSUME NEW k \in 1 .. n, NEW v \in T
      PROVE  (IF t[k] = Space THEN v ELSE v \o <<t[k].w>>) \in T
  <2>1. <<t[k].w>> \in T
    BY <1>1, SaidWord, Zenon
  <2>2. v \o <<t[k].w>> \in T
    BY <2>1, ConcatProperties, Zenon
  <2> QED BY <2>2, Zenon
<1>4. step \in [1 .. n -> [T -> T]]
  BY <1>3, Zenon
<1>5. \A k \in 1 .. n, v \in T : step[k][v] = IF t[k] = Space THEN v ELSE v \o <<t[k].w>>
  BY Zenon
<1> HIDE DEF step, n, T
<1>6. \E f : f = Body(f)
  <2>1. PICK f \in [0 .. n -> T] : Stepped(f, <<>>, n, step)
    BY <1>1, <1>2, <1>4, StepByStep, Zenon
  <2>2. ASSUME NEW k \in 1 .. n
        PROVE  f[k] = IF t[k] = Space THEN f[k - 1] ELSE f[k - 1] \o <<t[k].w>>
    <3>1. f[k - 1] \in T
      BY <1>1
    <3> QED BY <1>5, <2>1, <3>1, Zenon DEF Stepped
  <2>3. f[0] = <<>> /\ f = [k \in 0 .. n |-> f[k]]
    BY <2>1, Zenon DEF Stepped
  <2>4. \A k \in 0 .. n : k = 0 \/ (k \in 1 .. n /\ k # 0)
    BY <1>1, SMT
  <2>5. \A k \in 0 .. n : f[k] = IF k = 0 THEN <<>> ELSE IF t[k] = Space THEN f[k - 1]
                                 ELSE f[k - 1] \o <<t[k].w>>
    BY <2>2, <2>3, <2>4, Zenon
  <2>6. f = Body(f)
    BY <2>3, <2>5, Zenon
  <2> QED BY <2>6, Zenon
<1>7. up = Body(up)
  BY <1>6, Zenon
<1>8. Heard(t) = up[n]
  BY Zenon DEF Heard, n
<1> HIDE DEF up
<1>9. /\ up[0] = <<>>
      /\ \A k \in 1 .. n : up[k] = IF t[k] = Space THEN up[k - 1] ELSE up[k - 1] \o <<t[k].w>>
  <2>1. 0 \in 0 .. n /\ \A k \in 1 .. n : k \in 0 .. n /\ k # 0
    BY <1>1, SMT
  <2> QED BY <1>7, <2>1, Zenon
<1>10. \A k \in 1 .. n : up[k - 1] \in T => up[k] \in T
  BY <1>3, <1>9, Zenon
<1>11. \A k \in 0 .. n : up[k] \in T
  <2>1. up[0] \in T
    BY <1>2, <1>9, Zenon
  <2> QED BY <1>1, <1>10, <2>1, StaysIn, Zenon
<1>12. up \in [0 .. n -> T]
  BY <1>7, <1>11, Zenon
<1> QED BY <1>8, <1>9, <1>12, Zenon DEF Voicing, n, T

LEMMA HeardNone == Heard(<<>>) = <<>>
<1>1. <<>> \in Seq(Token) /\ Len(<<>>) = 0
  BY EmptySeq, Zenon
<1> QED BY <1>1, HeardFunction, Zenon DEF Voicing

LEMMA HeardOne ==
  ASSUME NEW x \in Token
  PROVE  Heard(<<x>>) = IF x = Space THEN <<>> ELSE <<x.w>>
<1>1. <<x>> \in Seq(Token) /\ Len(<<x>>) = 1 /\ <<x>>[1] = x /\ 1 \in 1 .. 1 /\ 1 - 1 = 0
  BY SMT
<1>2. PICK up : Voicing(up, <<x>>) /\ Heard(<<x>>) = up[1]
  BY <1>1, HeardFunction, Zenon
<1>3. up[0] = <<>> /\ up[1] = IF x = Space THEN up[0] ELSE up[0] \o <<x.w>>
  BY <1>1, <1>2, Zenon DEF Voicing
<1>4. <<>> \o <<x.w>> = <<x.w>>
  OBVIOUS
<1> QED BY <1>2, <1>3, <1>4, Zenon

LEMMA HeardBoth ==
  ASSUME NEW s \in Seq(Token), NEW t \in Seq(Token)
  PROVE  /\ Heard(s) \in Seq(Vocabulary) /\ Heard(t) \in Seq(Vocabulary)
         /\ Heard(s \o t) = Heard(s) \o Heard(t)
<1> DEFINE a == Len(s)
           b == Len(t)
           T == Seq(Vocabulary)
<1>1. /\ a \in Nat /\ b \in Nat /\ s \o t \in Seq(Token) /\ Len(s \o t) = a + b
      /\ \A k \in 1 .. a : (s \o t)[k] = s[k]
      /\ \A k \in 1 .. b : (s \o t)[a + k] = t[k]
  <2> HIDE DEF Token
  <2> QED BY SMT
<1>0. a \in Nat /\ b \in Nat
  BY LenProperties, Zenon
<1>2. PICK f : f \in [0 .. a -> T] /\ Voicing(f, s) /\ Heard(s) = f[a]
  BY HeardFunction, Zenon
<1>3. PICK g : g \in [0 .. b -> T] /\ Voicing(g, t) /\ Heard(t) = g[b]
  BY HeardFunction, Zenon
<1>4. PICK h : h \in [0 .. Len(s \o t) -> T] /\ Voicing(h, s \o t) /\ Heard(s \o t) = h[Len(s \o t)]
  BY <1>1, HeardFunction, Zenon
<1>5. f[a] \in T /\ g[b] \in T /\ \A k \in 0 .. b : g[k] \in T
  <2>1. a \in 0 .. a /\ b \in 0 .. b
    BY <1>1, SMT
  <2> QED BY <1>2, <1>3, <2>1, Zenon
<1>6. /\ f[0] = <<>> /\ g[0] = <<>> /\ h[0] = <<>>
      /\ \A k \in 1 .. a : f[k] = IF s[k] = Space THEN f[k - 1] ELSE f[k - 1] \o <<s[k].w>>
      /\ \A k \in 1 .. b : g[k] = IF t[k] = Space THEN g[k - 1] ELSE g[k - 1] \o <<t[k].w>>
      /\ \A k \in 1 .. a + b : h[k] = IF (s \o t)[k] = Space THEN h[k - 1]
                                      ELSE h[k - 1] \o <<(s \o t)[k].w>>
  BY <1>1, <1>2, <1>3, <1>4, Zenon DEF Voicing
<1>7. \A k \in 1 .. b : t[k].w \in Vocabulary
  <2>1. \A x \in Token : x.w \in Vocabulary
    BY DEF Token
  <2> QED BY <2>1, ElementOfSeq, Zenon
<1> HIDE DEF a, b
<1>8. h[a] = f[a]
  <2> DEFINE S == {k \in Nat : k <= a => h[k] = f[k]}
  <2>1. 0 \in S
    BY <1>6
  <2>2. ASSUME NEW k \in Nat, k \in S PROVE k + 1 \in S
    <3> SUFFICES ASSUME k + 1 <= a PROVE h[k + 1] = f[k + 1]
      OBVIOUS
    <3>1. k <= a /\ k + 1 \in 1 .. a /\ k + 1 \in 1 .. a + b /\ (k + 1) - 1 = k
      BY <1>0, SMT
    <3>2. h[k] = f[k] /\ (s \o t)[k + 1] = s[k + 1]
      BY <1>1, <2>2, <3>1, Zenon
    <3>3. /\ f[k + 1] = IF s[k + 1] = Space THEN f[k] ELSE f[k] \o <<s[k + 1].w>>
          /\ h[k + 1] = IF (s \o t)[k + 1] = Space THEN h[k] ELSE h[k] \o <<(s \o t)[k + 1].w>>
      BY <1>6, <3>1, Zenon
    <3> QED BY <3>2, <3>3, Zenon
  <2> HIDE DEF S
  <2>3. Nat \subseteq S
    BY <2>1, <2>2, SetInduction
  <2> QED BY <1>1, <2>3 DEF S
<1>9. h[a + b] = f[a] \o g[b]
  <2> DEFINE S == {k \in Nat : k <= b => h[a + k] = f[a] \o g[k]}
  <2>1. 0 \in S
    <3>1. f[a] \o <<>> = f[a]
      BY <1>5, ConcatEmptySeq, Zenon
    <3>2. a + 0 = a
      BY <1>1, SMT
    <3> QED BY <1>6, <1>8, <3>1, <3>2, Zenon
  <2>2. ASSUME NEW k \in Nat, k \in S PROVE k + 1 \in S
    <3>0. k + 1 \in Nat
      BY SMT
    <3> SUFFICES ASSUME k + 1 <= b PROVE h[a + (k + 1)] = f[a] \o g[k + 1]
      BY <3>0, Zenon
    <3>1. /\ k <= b /\ k + 1 \in 1 .. b /\ a + (k + 1) \in 1 .. a + b
          /\ (k + 1) - 1 = k /\ (a + (k + 1)) - 1 = a + k /\ k \in 0 .. b
      BY <1>0, SMT
    <3>2. <<t[k + 1].w>> \in T
      BY <1>7, <3>1, SaidWord, Zenon
    <3>3. (f[a] \o g[k]) \o <<t[k + 1].w>> = f[a] \o (g[k] \o <<t[k + 1].w>>)
      <4>1. f[a] \in T /\ g[k] \in T
        BY <1>5, <3>1, Zenon
      <4> DEFINE x == f[a]
                 y == g[k]
                 z == <<t[k + 1].w>>
      <4>2. x \in Seq(Vocabulary) /\ y \in Seq(Vocabulary) /\ z \in Seq(Vocabulary)
        BY <3>2, <4>1, Zenon
      <4> HIDE DEF x, y, z
      <4>3. (x \o y) \o z = x \o (y \o z)
        BY <4>2, SMT
      <4> QED BY <4>3 DEF x, y, z
    <3>4. h[a + k] = f[a] \o g[k] /\ (s \o t)[a + (k + 1)] = t[k + 1]
      BY <1>1, <2>2, <3>1, Zenon
    <3>5. /\ g[k + 1] = IF t[k + 1] = Space THEN g[k] ELSE g[k] \o <<t[k + 1].w>>
          /\ h[a + (k + 1)] = IF (s \o t)[a + (k + 1)] = Space THEN h[a + k]
                             ELSE h[a + k] \o <<(s \o t)[a + (k + 1)].w>>
      BY <1>6, <3>1, Zenon
    <3> QED BY <3>3, <3>4, <3>5, Zenon
  <2> HIDE DEF S
  <2>3. Nat \subseteq S
    BY <2>1, <2>2, SetInduction
  <2>4. b <= b
    BY <1>0, SMT
  <2> QED BY <1>0, <2>3, <2>4, Zenon DEF S
<1> QED BY <1>1, <1>2, <1>3, <1>4, <1>5, <1>8, <1>9, Zenon

(* What is spoken word by word is heard so.                                *)
Silent(word) == word = " "

LEMMA HeardSpoken ==
  ASSUME NEW words \in Seq(Vocabulary), Len(words) > 0, \A k \in 1 .. Len(words) : ~Silent(words[k])
  PROVE  Heard(Spoken(words)) = words
<1> DEFINE n == Len(words)
           t == Spoken(words)
<1>1. n \in Nat /\ n > 0 /\ \A k \in 1 .. n : words[k] \in Vocabulary
  BY ElementOfSeq, LenProperties, Zenon
<1>2. t \in Seq(Token) /\ Len(t) = 2 * n - 1
  <2>1. t \in Seq(Token)
    BY SaidIsTokens, Zenon
  <2>2. t = [k \in 1 .. 2 * n - 1 |-> IF k % 2 = 1 THEN W(words[(k + 1) \div 2]) ELSE Space]
    BY Zenon DEF Spoken
  <2>3. DOMAIN t = 1 .. 2 * n - 1 /\ DOMAIN t = 1 .. Len(t) /\ Len(t) \in Nat
    BY <2>1, <2>2, LenProperties, Zenon
  <2>4. 2 * n - 1 \in Nat
    BY <1>1, SMT
  <2> HIDE DEF t, n
  <2>5. \A p, q \in Nat : 1 .. p = 1 .. q => p = q
    BY SMT
  <2> QED BY <2>1, <2>3, <2>4, <2>5, Zenon
<1>3. PICK up : up \in [0 .. Len(t) -> Seq(Vocabulary)] /\ Voicing(up, t) /\ Heard(t) = up[Len(t)]
  BY <1>2, HeardFunction, Zenon
<1>4. \A k \in 1 .. n : /\ 2 * k - 1 \in 1 .. 2 * n - 1 /\ t[2 * k - 1] = W(words[k])
                        /\ k < n => 2 * k \in 1 .. 2 * n - 1 /\ t[2 * k] = Space
  <2> SUFFICES ASSUME NEW k \in 1 .. n
               PROVE  /\ 2 * k - 1 \in 1 .. 2 * n - 1 /\ t[2 * k - 1] = W(words[k])
                      /\ k < n => 2 * k \in 1 .. 2 * n - 1 /\ t[2 * k] = Space
    OBVIOUS
  <2>1. /\ 2 * k - 1 \in 1 .. 2 * n - 1 /\ (2 * k - 1) % 2 = 1 /\ ((2 * k - 1) + 1) \div 2 = k
        /\ (2 * k) % 2 # 1 /\ (k < n => 2 * k \in 1 .. 2 * n - 1)
    <3> HIDE DEF n
    <3> QED BY <1>1, SMT
  <2>2. \A j \in 1 .. 2 * n - 1 : t[j] = IF j % 2 = 1 THEN W(words[(j + 1) \div 2]) ELSE Space
    BY Zenon DEF Spoken
  <2> HIDE DEF t, n
  <2> QED BY <2>1, <2>2, Zenon
<1>5. \A k \in 1 .. n : W(words[k]) # Space /\ W(words[k]).w = words[k]
  <2>1. \A x : W(x).w = x
    BY DEF W
  <2> QED BY <2>1, Zenon DEF Space, Silent
<1>6. /\ up[0] = <<>>
      /\ \A k \in 1 .. n : up[2 * k - 1] = up[(2 * k - 1) - 1] \o <<words[k]>>
      /\ \A k \in 1 .. n : k < n => up[2 * k] = up[2 * k - 1]
  BY <1>2, <1>3, <1>4, <1>5, Zenon DEF Voicing
<1> HIDE DEF t, n
<1>7. \A k \in 1 .. n : SubSeq(words, 1, k) = SubSeq(words, 1, k - 1) \o <<words[k]>>
  <2> SUFFICES ASSUME NEW k \in 1 .. n
               PROVE  SubSeq(words, 1, k) = SubSeq(words, 1, k - 1) \o <<words[k]>>
    OBVIOUS
  <2>1. 1 \in 1 .. Len(words) /\ k \in 1 .. Len(words)
    BY <1>1, SMT DEF n
  <2> QED BY <2>1, SubSeqRecursiveSecond, Zenon
<1>8. up[2 * n - 1] = SubSeq(words, 1, n)
  <2> DEFINE S == {k \in Nat : k \in 1 .. n => up[2 * k - 1] = SubSeq(words, 1, k)}
  <2>1. 0 \in S
    OBVIOUS
  <2>2. ASSUME NEW k \in Nat, k \in S PROVE k + 1 \in S
    <3> SUFFICES ASSUME k + 1 \in 1 .. n PROVE up[2 * (k + 1) - 1] = SubSeq(words, 1, k + 1)
      OBVIOUS
    <3>1. /\ (k + 1) - 1 = k /\ (2 * (k + 1) - 1) - 1 = 2 * k
          /\ k = 0 \/ (k \in 1 .. n /\ k < n)
      BY <1>1, SMT
    <3>2. up[2 * (k + 1) - 1] = up[2 * k] \o <<words[k + 1]>>
      BY <1>6, <3>1, Zenon
    <3>3. up[2 * k] = SubSeq(words, 1, k)
      <4>1. CASE k = 0
        <5>1. 2 * 0 = 0 /\ 0 < 1 /\ 0 \in Int /\ 1 \in Int
          OBVIOUS
        <5>2. SubSeq(words, 1, 0) = <<>>
          BY <5>1, SubSeqEmpty, Zenon
        <5> QED BY <1>6, <4>1, <5>1, <5>2, Zenon
      <4>2. CASE k # 0
        BY <1>6, <2>2, <3>1, <4>2, Zenon
      <4> QED BY <4>1, <4>2
    <3>4. SubSeq(words, 1, k + 1) = SubSeq(words, 1, k) \o <<words[k + 1]>>
      BY <1>7, <3>1, Zenon
    <3> QED BY <3>2, <3>3, <3>4, Zenon
  <2> HIDE DEF S
  <2>3. Nat \subseteq S
    BY <2>1, <2>2, SetInduction
  <2>4. n \in 1 .. n
    BY <1>1, SMT
  <2> QED BY <1>1, <2>3, <2>4 DEF S
<1>9. SubSeq(words, 1, n) = words
  BY SubSeqFull, Zenon DEF n
<1> QED BY <1>2, <1>3, <1>8, <1>9, Zenon DEF t
----------------------------------------------------------------------------
(* What the rules leave alone.                                             *)

LEMMA PassNone ==
  ASSUME NEW t \in Seq(Token), NEW end, NEW say, \A i \in 1 .. Len(t) : end[i] = 0
  PROVE  Replaced(t, end, say) = t
<1> DEFINE n == Len(t)
<1>1. n \in Nat /\ \A i \in 1 .. n : t[i] \in Token
  BY ElementOfSeq, LenProperties, Zenon
<1>2. Fits(t, end, say, Token)
  BY <1>1, Zenon DEF Fits
<1>3. PICK from : Replaced(t, end, say) = from[1] /\ Passing(from, t, end, say)
  BY <1>2, ReplacedFunction, Zenon
<1>4. \A i \in 1 .. n + 1 : from[i] = IF i > n THEN <<>> ELSE <<t[i]>> \o from[i + 1]
  <2>1. \A i \in 1 .. n + 1 : i > n \/ i \in 1 .. n
    BY <1>1, SMT
  <2> QED BY <1>3, <2>1, Zenon DEF Passing
<1>5. \A i \in 1 .. n : SubSeq(t, i, n) = <<t[i]>> \o SubSeq(t, i + 1, n)
  <2>1. \A i \in 1 .. n : n \in i .. n
    BY <1>1, SMT
  <2> QED BY <2>1, SubSeqRecursiveFirst, Zenon
<1>6. SubSeq(t, n + 1, n) = <<>>
  <2>1. n + 1 \in Int /\ n \in Int /\ n < n + 1
    BY <1>1, SMT
  <2> QED BY <2>1, SubSeqEmpty, Zenon
<1>7. SubSeq(t, 1, n) = t
  BY SubSeqFull, Zenon
<1> HIDE DEF n
<1> DEFINE S == {j \in Nat : j <= n => from[n + 1 - j] = SubSeq(t, n + 1 - j, n)}
<1>8. 0 \in S
  <2>1. n + 1 - 0 = n + 1 /\ n + 1 \in 1 .. n + 1 /\ n + 1 > n
    BY <1>1, SMT
  <2>2. from[n + 1] = <<>>
    BY <1>4, <2>1, Zenon
  <2>3. 0 \in Nat
    OBVIOUS
  <2> QED BY <1>6, <2>1, <2>2, <2>3, Zenon
<1>9. ASSUME NEW j \in Nat, j \in S PROVE j + 1 \in S
  <2>1. j + 1 \in Nat
    OBVIOUS
  <2> SUFFICES ASSUME j + 1 <= n
               PROVE  from[n + 1 - (j + 1)] = SubSeq(t, n + 1 - (j + 1), n)
    BY <2>1, Zenon
  <2> DEFINE i == n + 1 - (j + 1)
  <2>2. j <= n /\ i \in 1 .. n /\ i \in 1 .. n + 1 /\ ~(i > n) /\ n + 1 - j = i + 1
    BY <1>1, SMT
  <2>3. from[i + 1] = SubSeq(t, i + 1, n)
    BY <1>9, <2>2, Zenon
  <2> HIDE DEF i
  <2>4. from[i] = SubSeq(t, i, n)
    BY <1>4, <1>5, <2>2, <2>3, Zenon
  <2> QED BY <2>4 DEF i
<1> HIDE DEF S
<1>10. Nat \subseteq S
  BY <1>8, <1>9, SetInduction
<1>11. from[n + 1 - n] = SubSeq(t, n + 1 - n, n) /\ n + 1 - n = 1
  <2>1. n <= n /\ n + 1 - n = 1
    BY <1>1, SMT
  <2> QED BY <1>1, <1>10, <2>1, Zenon DEF S
<1> QED BY <1>3, <1>7, <1>11, Zenon

(* A match from the first token to the last is the whole text.             *)
LEMMA PassWhole ==
  ASSUME NEW t \in Seq(Token), Len(t) > 0, NEW end, NEW say, end[1] = Len(t) + 1,
         \A i \in 1 .. Len(t) : end[i] # 0 => Claims(t, i, end[i], say[i])
  PROVE  Replaced(t, end, say) = say[1]
<1>1. \A i \in 1 .. Len(t) : t[i] \in Token
  BY ElementOfSeq, Zenon
<1>2. Fits(t, end, say, Token)
  BY <1>1, Zenon DEF Fits, Claims
<1>3. PICK from : Replaced(t, end, say) = from[1] /\ Passing(from, t, end, say)
  BY <1>2, ReplacedFunction, Zenon
<1>4. /\ 1 \in 1 .. Len(t) /\ 1 \in 1 .. Len(t) + 1 /\ ~(1 > Len(t)) /\ Len(t) + 1 # 0
      /\ Len(t) + 1 \in 1 .. Len(t) + 1 /\ Len(t) + 1 > Len(t)
  BY LenProperties, SMT
<1>5. from[1] = say[1] \o from[Len(t) + 1] /\ from[Len(t) + 1] = <<>>
  BY <1>3, <1>4, Zenon DEF Passing
<1>6. say[1] \in Seq(Token)
  BY <1>4, Zenon DEF Claims
<1>7. say[1] \o <<>> = say[1]
  BY <1>6, ConcatEmptySeq, Zenon
<1> QED BY <1>3, <1>5, <1>7, Zenon

Uses(t, words) == \A i \in 1 .. Len(t) : t[i].w \in words
Figureless(t) == \A i \in 1 .. Len(t) : t[i].d = <<>>

(* What a rule looks for, but for the numbers.                             *)
Keys(r) ==
  CASE r = 1 -> {":", "am", "pm"}
    [] r = 2 -> {"room", "rm"}
    [] r = 3 -> {"bus"}
    [] r = 4 -> {"locker"}
    [] r = 5 -> ExtensionNames
    [] r = 6 -> {"-", "."}
    [] r = 7 -> {"-"}
    [] r = 8 -> {"st", "nd", "rd", "th"}
    [] OTHER -> {"&", "%", "#"} \cup DOMAIN Abbreviations

(* Nothing for rule r to take.                                             *)
Nothing(t, r) ==
  \/ r \in 1 .. 9 /\ Uses(t, Vocabulary \ Keys(r))
  \/ r # 9 /\ Figureless(t)

LEMMA KeysAre ==
  /\ Keys(1) = {":", "am", "pm"} /\ Keys(2) = {"room", "rm"} /\ Keys(3) = {"bus"}
  /\ Keys(4) = {"locker"} /\ Keys(5) = ExtensionNames /\ Keys(6) = {"-", "."}
  /\ Keys(7) = {"-"} /\ Keys(8) = {"st", "nd", "rd", "th"}
  /\ Keys(9) = {"&", "%", "#"} \cup DOMAIN Abbreviations
BY SMT DEF Keys

LEMMA NotThere ==
  ASSUME NEW t, NEW S, NEW j, NEW words, Uses(t, S), words \cap S = {}
  PROVE  ~At(t, j, words)
BY Zenon DEF Uses, At, In

LEMMA NoNumberThere ==
  ASSUME NEW t, NEW j, NEW lengths, Figureless(t)
  PROVE  ~NumAt(t, j, lengths)
BY Zenon DEF Figureless, NumAt, In

LEMMA TimesAlone ==
  ASSUME NEW t \in Seq(Token), Nothing(t, 1)
  PROVE  ExpandTimes(t) = t
<1>1. /\ \A i : ClockAt(t, i) => FALSE
      /\ \A i : HourEnd(t, i) = 0
  <2>1. CASE Uses(t, Vocabulary \ Keys(1))
    <3>1. {":"} \cap (Vocabulary \ Keys(1)) = {} /\ Meridiems \cap (Vocabulary \ Keys(1)) = {}
      BY KeysAre, Zenon DEF Meridiems
    <3>2. \A j : ~At(t, j, {":"}) /\ ~At(t, j, Meridiems)
      BY <2>1, <3>1, NotThere, Zenon
    <3> QED BY <3>2, Zenon DEF ClockAt, HourEnd
  <2>2. CASE Figureless(t)
    <3>1. \A j : ~NumAt(t, j, 1 .. 2)
      BY <2>2, NoNumberThere, Zenon
    <3> QED BY <3>1, Zenon DEF ClockAt, HourEnd
  <2> QED BY <2>1, <2>2, Zenon DEF Nothing
<1>2. \A i : TimeMeridiemEnd(t, i) = 0 /\ TimeBareEnd(t, i) = 0
  BY <1>1, Zenon DEF TimeMeridiemEnd, TimeBareEnd
<1>3. Sub(t, TimeMeridiemEnd, SayTimeMeridiem) = t
  BY <1>2, PassNone, DomainOfText, Zenon DEF Sub
<1>4. Sub(t, TimeBareEnd, SayTimeBare) = t
  BY <1>2, PassNone, DomainOfText, Zenon DEF Sub
<1>5. Sub(t, HourEnd, SayHour) = t
  BY <1>1, PassNone, DomainOfText, Zenon DEF Sub
<1> QED BY <1>3, <1>4, <1>5, Zenon DEF ExpandTimes

LEMMA NotNamed ==
  ASSUME NEW t, NEW r \in 1 .. 9, Uses(t, Vocabulary \ Keys(r)), NEW names, names \subseteq Keys(r)
  PROVE  \A j : ~At(t, j, names)
<1>1. names \cap (Vocabulary \ Keys(r)) = {}
  BY Zenon
<1> QED BY <1>1, NotThere, Zenon

(* There is no number at zero, where a name that was not found leads.      *)
LEMMA NoNumberAtZero == ASSUME NEW t \in Seq(Token), NEW lengths PROVE ~NumAt(t, 0, lengths)
<1>1. 0 \notin 1 .. Len(t)
  BY SMT
<1> QED BY <1>1, Zenon DEF NumAt, In

LEMMA RoomAlone ==
  ASSUME NEW t \in Seq(Token), Nothing(t, 2)
  PROVE  Sub(t, RoomEnd, SayRoom) = t
<1>1. \A i : RoomEnd(t, i) = 0
  <2>1. CASE Uses(t, Vocabulary \ Keys(2))
    <3>1. \A j : ~At(t, j, {"room", "rm"})
      <4>1. 2 \in 1 .. 9
        BY SMT
      <4>2. {"room", "rm"} \subseteq Keys(2)
        BY KeysAre, Zenon
      <4> QED BY <2>1, <4>1, <4>2, NotNamed, Zenon
    <3>2. \A i : Named(t, i, {"room", "rm"}) = 0
      BY <3>1, Zenon DEF Named
    <3> QED BY <3>2, NoNumberAtZero, Zenon DEF RoomEnd
  <2>2. CASE Figureless(t)
    BY <2>2, NoNumberThere, Zenon DEF RoomEnd
  <2> QED BY <2>1, <2>2, Zenon DEF Nothing
<1> QED BY <1>1, PassNone, DomainOfText, Zenon DEF Sub

LEMMA BusAlone ==
  ASSUME NEW t \in Seq(Token), Nothing(t, 3)
  PROVE  Sub(t, BusEnd, SayBus) = t
<1>1. \A i : BusEnd(t, i) = 0
  <2>1. CASE Uses(t, Vocabulary \ Keys(3))
    <3>1. \A j : ~At(t, j, {"bus"})
      <4>1. 3 \in 1 .. 9
        BY SMT
      <4>2. {"bus"} \subseteq Keys(3)
        BY KeysAre, Zenon
      <4> QED BY <2>1, <4>1, <4>2, NotNamed, Zenon
    <3>2. \A i : BusNumber(t, i) = 0
      BY <3>1, Zenon DEF BusNumber
    <3> QED BY <3>2, NoNumberAtZero, Zenon DEF BusEnd
  <2>2. CASE Figureless(t)
    BY <2>2, NoNumberThere, Zenon DEF BusEnd
  <2> QED BY <2>1, <2>2, Zenon DEF Nothing
<1> QED BY <1>1, PassNone, DomainOfText, Zenon DEF Sub

LEMMA LockerAlone ==
  ASSUME NEW t \in Seq(Token), Nothing(t, 4)
  PROVE  Sub(t, LockerEnd, SayLocker) = t
<1>1. \A i : LockerEnd(t, i) = 0
  <2>1. CASE Uses(t, Vocabulary \ Keys(4))
    <3>1. \A j : ~At(t, j, {"locker"})
      <4>1. 4 \in 1 .. 9
        BY SMT
      <4>2. {"locker"} \subseteq Keys(4)
        BY KeysAre, Zenon
      <4> QED BY <2>1, <4>1, <4>2, NotNamed, Zenon
    <3>2. \A i : Named(t, i, {"locker"}) = 0
      BY <3>1, Zenon DEF Named
    <3> QED BY <3>2, NoNumberAtZero, Zenon DEF LockerEnd
  <2>2. CASE Figureless(t)
    BY <2>2, NoNumberThere, Zenon DEF LockerEnd
  <2> QED BY <2>1, <2>2, Zenon DEF Nothing
<1> QED BY <1>1, PassNone, DomainOfText, Zenon DEF Sub

LEMMA ExtensionAlone ==
  ASSUME NEW t \in Seq(Token), Nothing(t, 5)
  PROVE  Sub(t, ExtensionEnd, SayExtension) = t
<1>1. \A i : ExtensionEnd(t, i) = 0
  <2>1. CASE Uses(t, Vocabulary \ Keys(5))
    <3>1. \A j : ~At(t, j, ExtensionNames)
      <4>1. 5 \in 1 .. 9
        BY SMT
      <4>2. ExtensionNames \subseteq Keys(5)
        BY KeysAre, Zenon
      <4> QED BY <2>1, <4>1, <4>2, NotNamed, Zenon
    <3>2. \A i : Named(t, i, ExtensionNames) = 0
      BY <3>1, Zenon DEF Named
    <3> QED BY <3>2, NoNumberAtZero, Zenon DEF ExtensionEnd
  <2>2. CASE Figureless(t)
    BY <2>2, NoNumberThere, Zenon DEF ExtensionEnd
  <2> QED BY <2>1, <2>2, Zenon DEF Nothing
<1> QED BY <1>1, PassNone, DomainOfText, Zenon DEF Sub

LEMMA PhoneAlone ==
  ASSUME NEW t \in Seq(Token), Nothing(t, 6)
  PROVE  Sub(t, PhoneEnd, SayPhone) = t
<1>1. \A i : ~ShortPhone(t, i)
  <2>1. CASE Uses(t, Vocabulary \ Keys(6))
    <3>1. \A j : ~At(t, j, {"-", "."})
      <4>1. 6 \in 1 .. 9
        BY SMT
      <4>2. {"-", "."} \subseteq Keys(6)
        BY KeysAre, Zenon
      <4> QED BY <2>1, <4>1, <4>2, NotNamed, Zenon
    <3> QED BY <3>1, Zenon DEF ShortPhone
  <2>2. CASE Figureless(t)
    BY <2>2, NoNumberThere, Zenon DEF ShortPhone
  <2> QED BY <2>1, <2>2, Zenon DEF Nothing
<1>2. \A i : PhoneEnd(t, i) = 0
  BY <1>1, Zenon DEF PhoneEnd, WithArea
<1> QED BY <1>2, PassNone, DomainOfText, Zenon DEF Sub

LEMMA RangeAlone ==
  ASSUME NEW t \in Seq(Token), Nothing(t, 7)
  PROVE  Sub(t, RangeEnd, SayRange) = t
<1>1. \A i : RangeEnd(t, i) = 0
  <2>1. CASE Uses(t, Vocabulary \ Keys(7))
    <3>1. \A j : ~At(t, j, {"-"})
      <4>1. 7 \in 1 .. 9
        BY SMT
      <4>2. {"-"} \subseteq Keys(7)
        BY KeysAre, Zenon
      <4> QED BY <2>1, <4>1, <4>2, NotNamed, Zenon
    <3> QED BY <3>1, Zenon DEF RangeEnd
  <2>2. CASE Figureless(t)
    BY <2>2, NoNumberThere, Zenon DEF RangeEnd
  <2> QED BY <2>1, <2>2, Zenon DEF Nothing
<1> QED BY <1>1, PassNone, DomainOfText, Zenon DEF Sub

LEMMA OrdinalAlone ==
  ASSUME NEW t \in Seq(Token), Nothing(t, 8)
  PROVE  Sub(t, OrdinalEnd, SayOrdinal) = t
<1>1. \A i : OrdinalEnd(t, i) = 0
  <2>1. CASE Uses(t, Vocabulary \ Keys(8))
    <3>1. \A j : ~At(t, j, {"st", "nd", "rd", "th"})
      <4>1. 8 \in 1 .. 9
        BY SMT
      <4>2. {"st", "nd", "rd", "th"} \subseteq Keys(8)
        BY KeysAre, Zenon
      <4> QED BY <2>1, <4>1, <4>2, NotNamed, Zenon
    <3> QED BY <3>1, Zenon DEF OrdinalEnd
  <2>2. CASE Figureless(t)
    BY <2>2, NoNumberThere, Zenon DEF OrdinalEnd
  <2> QED BY <2>1, <2>2, Zenon DEF Nothing
<1> QED BY <1>1, PassNone, DomainOfText, Zenon DEF Sub

LEMMA SymbolsAlone ==
  ASSUME NEW t \in Seq(Token), Nothing(t, 9)
  PROVE  Sub(Sub(t, SymbolEnd, SaySymbol), AbbreviationEnd, SayAbbreviation) = t
<1>1. \A j : ~At(t, j, {"&", "%", "#"}) /\ ~At(t, j, DOMAIN Abbreviations)
  <2>1. Uses(t, Vocabulary \ Keys(9))
    BY Zenon DEF Nothing
  <2>2. 9 \in 1 .. 9 /\ {"&", "%", "#"} \subseteq Keys(9) /\ DOMAIN Abbreviations \subseteq Keys(9)
    <3>1. 9 \in 1 .. 9
      BY SMT
    <3> QED BY <3>1, KeysAre, Zenon
  <2> QED BY <2>1, <2>2, NotNamed, Zenon
<1>2. \A i : SymbolEnd(t, i) = 0 /\ AbbreviationEnd(t, i) = 0
  BY <1>1, Zenon DEF SymbolEnd, AbbreviationEnd
<1>3. Sub(t, SymbolEnd, SaySymbol) = t
  BY <1>2, PassNone, DomainOfText, Zenon DEF Sub
<1>4. Sub(t, AbbreviationEnd, SayAbbreviation) = t
  BY <1>2, PassNone, DomainOfText, Zenon DEF Sub
<1> QED BY <1>3, <1>4, Zenon

LEMMA NumbersAlone ==
  ASSUME NEW t \in Seq(Token), Figureless(t)
  PROVE  ExpandNumbers(t) = t
<1>1. \A i : DecimalEnd(t, i) = 0 /\ LongRunEnd(t, i) = 0 /\ IntEnd(t, i) = 0
  BY NoNumberThere, Zenon DEF DecimalEnd, LongRunEnd, IntEnd
<1>2. Sub(t, DecimalEnd, SayDecimal) = t
  BY <1>1, PassNone, DomainOfText, Zenon DEF Sub
<1>3. Sub(t, LongRunEnd, SayLongRun) = t
  BY <1>1, PassNone, DomainOfText, Zenon DEF Sub
<1>4. Sub(t, IntEnd, SayInt) = t
  BY <1>1, PassNone, DomainOfText, Zenon DEF Sub
<1> QED BY <1>2, <1>3, <1>4, Zenon DEF ExpandNumbers

(* Each rule of _expand_chunk leaves a text as it is in which the words    *)
(* and marks that it looks for do not occur, and every rule but the one    *)
(* for symbols and abbreviations leaves one without figures as it is.      *)
THEOREM RulesLeaveAlone ==
  \A t \in Seq(Token), r \in 1 .. Rules : Nothing(t, r) => Expanded(t, r) = t
<1> SUFFICES ASSUME NEW t \in Seq(Token), NEW r \in 1 .. Rules, Nothing(t, r)
             PROVE  Expanded(t, r) = t
  OBVIOUS
<1>1. /\ r = 1 => Expanded(t, r) = ExpandTimes(t)
      /\ r = 2 => Expanded(t, r) = Sub(t, RoomEnd, SayRoom)
      /\ r = 3 => Expanded(t, r) = Sub(t, BusEnd, SayBus)
      /\ r = 4 => Expanded(t, r) = Sub(t, LockerEnd, SayLocker)
      /\ r = 5 => Expanded(t, r) = Sub(t, ExtensionEnd, SayExtension)
      /\ r = 6 => Expanded(t, r) = Sub(t, PhoneEnd, SayPhone)
      /\ r = 7 => Expanded(t, r) = Sub(t, RangeEnd, SayRange)
      /\ r = 8 => Expanded(t, r) = Sub(t, OrdinalEnd, SayOrdinal)
      /\ r = 9 => Expanded(t, r) = Sub(Sub(t, SymbolEnd, SaySymbol), AbbreviationEnd, SayAbbreviation)
      /\ r = 10 => Expanded(t, r) = ExpandNumbers(t)
  BY ExpandedIs, Zenon
<1>2. \/ r = 1 \/ r = 2 \/ r = 3 \/ r = 4 \/ r = 5
      \/ r = 6 \/ r = 7 \/ r = 8 \/ r = 9 \/ (r = 10 /\ r \notin 1 .. 9)
  BY SMT DEF Rules
<1>3. r = 10 => Figureless(t)
  BY <1>2, SMT DEF Nothing
<1> QED BY <1>1, <1>2, <1>3, TimesAlone, RoomAlone, BusAlone, LockerAlone, ExtensionAlone, PhoneAlone,
           RangeAlone, OrdinalAlone, SymbolsAlone, NumbersAlone, Zenon
----------------------------------------------------------------------------
(* The words for numbers, and those made of them.                          *)

CardinalNames ==
  {"zero", "one", "two", "three", "four", "five", "six", "seven", "eight", "nine", "ten",
   "eleven", "twelve", "thirteen", "fourteen", "fifteen", "sixteen", "seventeen", "eighteen",
   "nineteen", "twenty", "thirty", "forty", "fifty", "sixty", "seventy", "eighty", "ninety",
   "hundred", "thousand", "million", "billion"}

LEMMA CardinalsAre == ASSUME NEW word \in NumberVocabulary PROVE word \in CardinalNames
<1>1. CASE \E n \in 0 .. 19 : word = One(n)
  <2>1. PICK n \in 0 .. 19 : word = One(n)
    BY <1>1
  <2>2. \/ n = 0 \/ n = 1 \/ n = 2 \/ n = 3 \/ n = 4 \/ n = 5 \/ n = 6 \/ n = 7 \/ n = 8 \/ n = 9
        \/ n = 10 \/ n = 11 \/ n = 12 \/ n = 13 \/ n = 14 \/ n = 15 \/ n = 16 \/ n = 17 \/ n = 18
        \/ n = 19
    BY SMT
  <2> QED BY <2>1, <2>2, OnesAre, SMT DEF CardinalNames
<1>2. CASE \E k \in 1 .. 9 : word = Tens[k]
  <2>1. PICK k \in 1 .. 9 : word = Tens[k]
    BY <1>2
  <2>2. \/ k = 1 \/ k = 2 \/ k = 3 \/ k = 4 \/ k = 5 \/ k = 6 \/ k = 7 \/ k = 8 \/ k = 9
    BY SMT
  <2> QED BY <2>1, <2>2, TensAre, SMT DEF CardinalNames
<1>3. CASE word \in {"hundred", "thousand", "million", "billion"}
  BY <1>3, SMT DEF CardinalNames
<1> QED BY <1>1, <1>2, <1>3, Zenon DEF NumberVocabulary

LEMMA IrregularOrdinals ==
  /\ Ordinal("one") = "first" /\ Ordinal("two") = "second" /\ Ordinal("three") = "third"
  /\ Ordinal("five") = "fifth" /\ Ordinal("eight") = "eighth" /\ Ordinal("nine") = "ninth"
  /\ Ordinal("twelve") = "twelfth"
BY SMT DEF Ordinal, IrregularOrdinal

LEMMA IethOrdinals ==
  /\ Ordinal("twenty") = "twentieth" /\ Ordinal("thirty") = "thirtieth"
  /\ Ordinal("forty") = "fortieth" /\ Ordinal("fifty") = "fiftieth"
  /\ Ordinal("sixty") = "sixtieth" /\ Ordinal("seventy") = "seventieth"
  /\ Ordinal("eighty") = "eightieth" /\ Ordinal("ninety") = "ninetieth"
BY SMT DEF Ordinal, IrregularOrdinal, Ieth

LEMMA ThOrdinals ==
  /\ Ordinal("zero") = "zeroth" /\ Ordinal("four") = "fourth" /\ Ordinal("six") = "sixth"
  /\ Ordinal("seven") = "seventh" /\ Ordinal("ten") = "tenth" /\ Ordinal("eleven") = "eleventh"
  /\ Ordinal("thirteen") = "thirteenth" /\ Ordinal("fourteen") = "fourteenth"
  /\ Ordinal("fifteen") = "fifteenth" /\ Ordinal("sixteen") = "sixteenth"
  /\ Ordinal("seventeen") = "seventeenth" /\ Ordinal("eighteen") = "eighteenth"
  /\ Ordinal("nineteen") = "nineteenth" /\ Ordinal("hundred") = "hundredth"
  /\ Ordinal("thousand") = "thousandth" /\ Ordinal("million") = "millionth"
  /\ Ordinal("billion") = "billionth"
BY SMT DEF Ordinal, IrregularOrdinal, Ieth, Th

LEMMA OrdinalsDiffer ==
  ASSUME NEW x \in CardinalNames, NEW y \in CardinalNames, Ordinal(x) = Ordinal(y)
  PROVE  x = y
BY IrregularOrdinals, IethOrdinals, ThOrdinals, SMT DEF CardinalNames

(* Not what the rule for symbols and abbreviations looks for.              *)
Unmarked(word) == word \notin {"&", "%", "#", "mr", "dr", "dept", " "}

LEMMA NamesUnmarked ==
  ASSUME NEW word \in CardinalNames PROVE Unmarked(word) /\ Unmarked(Ordinal(word))
BY IrregularOrdinals, IethOrdinals, ThOrdinals, Zenon DEF CardinalNames, Unmarked

LEMMA VoiceUnmarked ==
  ASSUME NEW word \in Voice
  PROVE  Unmarked(word)
<1>1. CASE word \in NumberVocabulary
  BY <1>1, CardinalsAre, NamesUnmarked, Zenon
<1>2. CASE \E x \in NumberVocabulary : word = Ordinal(x)
  BY <1>2, CardinalsAre, NamesUnmarked, Zenon
<1>3. CASE \E short \in DOMAIN Abbreviations : word = Abbreviations[short]
  <2>1. word \in {"mister", "doctor", "department"}
    BY <1>3, SMT DEF Abbreviations
  <2> QED BY <2>1, Zenon DEF Unmarked
<1>4. CASE word \in {"oh", "point", "o'clock", "a", "m", "p", "room", "b", "bus", "number", "locker",
          "extension", "to", "and", "percent"}
  BY <1>4, Zenon DEF Unmarked
<1> QED BY <1>1, <1>2, <1>3, <1>4, Zenon DEF Voice

----------------------------------------------------------------------------
(* One item, rule by rule.                                                 *)

LEMMA Fields ==
  /\ \A word : W(word).w = word /\ W(word).d = <<>>
  /\ \A digits : N(digits).w = "" /\ N(digits).d = digits
  /\ Space.w = " " /\ Space.d = <<>>
<1>1. \A word, digits : [w |-> word, d |-> digits].w = word /\ [w |-> word, d |-> digits].d = digits
  OBVIOUS
<1> QED BY <1>1, Zenon DEF W, N, Space

LEMMA SpokenUses ==
  ASSUME NEW S, NEW words \in Seq(S), Len(words) > 0, Space.w \in S
  PROVE  Uses(Spoken(words), S)
<1> DEFINE n == Len(words)
           token(k) == IF k % 2 = 1 THEN W(words[(k + 1) \div 2]) ELSE Space
<1>1. n \in Nat /\ 2 * n - 1 \in Nat
  BY LenProperties, SMT
<1>2. Spoken(words) = [k \in 1 .. 2 * n - 1 |-> token(k)]
  BY Zenon DEF Spoken
<1>3. ASSUME NEW k \in 1 .. 2 * n - 1 PROVE token(k).w \in S
  <2>1. CASE k % 2 = 1
    <3>1. (k + 1) \div 2 \in 1 .. n
      BY <1>1, SMT
    <3>2. words[(k + 1) \div 2] \in S
      BY <3>1, ElementOfSeq, Zenon
    <3> QED BY <2>1, <3>2, Fields, Zenon
  <2>2. CASE ~(k % 2 = 1)
    BY <2>2, Fields, Zenon
  <2> QED BY <2>1, <2>2, Zenon
<1> HIDE DEF token, n
<1>4. /\ Len([k \in 1 .. 2 * n - 1 |-> token(k)]) = 2 * n - 1
      /\ \A i \in 1 .. 2 * n - 1 : [k \in 1 .. 2 * n - 1 |-> token(k)][i] = token(i)
  BY <1>1, SMT
<1> QED BY <1>2, <1>3, <1>4, Zenon DEF Uses

(* What is said is left alone by all the rules that follow, and is heard.  *)
LEMMA SpokenStays ==
  ASSUME NEW words \in Seq(Voice), Len(words) > 0
  PROVE  /\ Spoken(words) \in Seq(Token)
         /\ \A r \in 1 .. Rules : Expanded(Spoken(words), r) = Spoken(words)
         /\ Heard(Spoken(words)) = words
<1>1. words \in Seq(Vocabulary)
  BY VoiceIsKnown, SeqMonotonic, Zenon
<1>2. Spoken(words) \in Seq(Clean) /\ Spoken(words) \in Seq(Token)
  BY <1>1, SpokenType, SeqCleanIsSeqToken, Zenon
<1>3. Figureless(Spoken(words))
  <2>1. \A x \in Clean : x.d = <<>>
    BY DEF Clean
  <2>2. \A i \in 1 .. Len(Spoken(words)) : Spoken(words)[i] \in Clean
    BY <1>2, ElementOfSeq, Zenon
  <2> QED BY <2>1, <2>2, Zenon DEF Figureless
<1>4. \A x \in Voice : Unmarked(x)
  BY VoiceUnmarked, Zenon
<1>5. Keys(9) = {"&", "%", "#", "mr", "dr", "dept"}
  <2>1. DOMAIN Abbreviations = {"mr", "dr", "dept"}
    BY SMT DEF Abbreviations
  <2> QED BY <2>1, KeysAre, Zenon
<1>6. Voice \cup {" "} \subseteq Vocabulary \ Keys(9)
  <2>1. " " \in Vocabulary
    BY VocabularyHas, Zenon
  <2>2. " " \notin Keys(9)
    BY <1>5, Zenon
  <2>3. Voice \subseteq Vocabulary \ Keys(9)
    BY <1>4, <1>5, VoiceIsKnown, Zenon DEF Unmarked
  <2> QED BY <2>1, <2>2, <2>3, Zenon
<1>7. Uses(Spoken(words), Vocabulary \ Keys(9))
  <2> DEFINE S == Voice \cup {" "}
  <2>1. words \in Seq(S) /\ Space.w \in S
    BY SeqMonotonic, Fields, Zenon
  <2>2. S \subseteq Vocabulary \ Keys(9)
    BY <1>6
  <2> HIDE DEF S
  <2>3. Uses(Spoken(words), S)
    BY <2>1, SpokenUses, Zenon
  <2> QED BY <2>2, <2>3, Zenon DEF Uses
<1>8. \A r \in 1 .. Rules : Nothing(Spoken(words), r)
  <2>1. 9 \in 1 .. 9
    BY SMT
  <2> QED BY <1>3, <1>7, <2>1, Zenon DEF Nothing
<1>9. Heard(Spoken(words)) = words
  <2>1. \A k \in 1 .. Len(words) : ~Silent(words[k])
    <3>1. \A k \in 1 .. Len(words) : words[k] \in Voice
      BY ElementOfSeq, Zenon
    <3> QED BY <1>4, <3>1, Zenon DEF Silent, Unmarked
  <2> QED BY <1>1, <2>1, HeardSpoken, Zenon
<1> QED BY <1>2, <1>8, <1>9, RulesLeaveAlone, Zenon

(* The way of an item through the rules: as it was typed up to its own,    *)
(* then as that rule left it, up to the last, after which it is heard.     *)
Way(item, own, mid) ==
  /\ own \in 1 .. Rules - 1
  /\ \A r \in 1 .. own - 1 : Expanded(Typed(item), r) = Typed(item)
  /\ Expanded(Typed(item), own) = mid
  /\ \A r \in own + 1 .. Rules - 1 : Expanded(mid, r) = mid
  /\ Understood(item, Heard(Expanded(mid, Rules)))

LEMMA SpokenWay ==
  ASSUME NEW item, NEW own \in 1 .. Rules - 1, NEW words \in Seq(Voice), Len(words) > 0,
         \A r \in 1 .. own - 1 : Expanded(Typed(item), r) = Typed(item),
         Expanded(Typed(item), own) = Spoken(words), Understood(item, words)
  PROVE  Way(item, own, Spoken(words))
<1>1. Rules \in 1 .. Rules /\ \A r \in own + 1 .. Rules - 1 : r \in 1 .. Rules
  BY SMT DEF Rules
<1>2. /\ \A r \in 1 .. Rules : Expanded(Spoken(words), r) = Spoken(words)
      /\ Heard(Spoken(words)) = words
  BY SpokenStays, Zenon
<1> QED BY <1>1, <1>2, Zenon DEF Way

LEMMA LateWay ==
  ASSUME NEW item, NEW words \in Seq(Voice), Len(words) > 0,
         \A r \in 1 .. 9 : Expanded(Typed(item), r) = Typed(item),
         Expanded(Typed(item), Rules) = Spoken(words), Understood(item, words)
  PROVE  Way(item, 9, Typed(item))
<1>1. /\ 9 \in 1 .. Rules - 1 /\ 9 \in 1 .. 9 /\ \A r \in 1 .. 9 - 1 : r \in 1 .. 9
      /\ \A r \in 9 + 1 .. Rules - 1 : FALSE
  BY SMT DEF Rules
<1>2. Heard(Spoken(words)) = words
  BY SpokenStays, Zenon
<1> QED BY <1>1, <1>2, Zenon DEF Way

LEMMA NoKeyThere ==
  ASSUME NEW t \in Seq(Token), NEW S, \A i \in 1 .. Len(t) : t[i].w \in S,
         NEW r \in 1 .. 9, S \cap Keys(r) = {}
  PROVE  Expanded(t, r) = t
<1>1. \A i \in 1 .. Len(t) : t[i] \in Token
  BY ElementOfSeq, Zenon
<1>2. \A x \in Token : x.w \in Vocabulary
  BY DEF Token
<1>3. Uses(t, Vocabulary \ Keys(r))
  BY <1>1, <1>2, Zenon DEF Uses
<1>4. r \in 1 .. Rules
  BY SMT DEF Rules
<1> QED BY <1>3, <1>4, RulesLeaveAlone, Zenon DEF Nothing

----------------------------------------------------------------------------
(* Looking at a text of a few tokens.                                      *)

Shows(t, j, word) == j \in 1 .. Len(t) /\ t[j].w = word
Figures(t, j, digits) == j \in 1 .. Len(t) /\ t[j].d = digits

LEMMA ShowsAt ==
  ASSUME NEW t, NEW j, NEW word, Shows(t, j, word), NEW words
  PROVE  At(t, j, words) <=> word \in words
BY Zenon DEF Shows, At, In

Follows(k, j) == j + 1 = k

LEMMA AfterIt ==
  ASSUME NEW t, NEW j, NEW word, Shows(t, j, word), NEW words, word \in words,
         NEW k, Follows(k, j)
  PROVE  After(t, j, words) = k
BY Zenon DEF Shows, After, At, In, Follows

LEMMA AfterNone ==
  ASSUME NEW t, NEW j, NEW word, Shows(t, j, word), NEW words, word \notin words
  PROVE  After(t, j, words) = j
BY Zenon DEF Shows, After, At, In

LEMMA FiguresAt ==
  ASSUME NEW t, NEW j, NEW digits \in Seq(0 .. 9), Figures(t, j, digits), NEW lengths,
         Len(digits) > 0
  PROVE  NumAt(t, j, lengths) <=> Len(digits) \in lengths
<1>1. digits # <<>>
  BY SaidIsSome, Zenon
<1> QED BY <1>1, Zenon DEF Figures, NumAt, In

LEMMA Successors ==
  Follows(2, 1) /\ Follows(3, 2) /\ Follows(4, 3) /\ Follows(5, 4) /\ Follows(6, 5) /\ Follows(7, 6)
BY SMT DEF Follows

LEMMA NoneBefore == ASSUME NEW t \in Seq(Token) PROVE 1 - 1 \notin 1 .. Len(t)
BY LenProperties, SMT

LEMMA Ends ==
  ASSUME NEW t \in Seq(Token), Len(t) > 0
  PROVE  Edge(t, 1) /\ Edge(t, Len(t) + 1)
<1>1. 1 - 1 \notin 1 .. Len(t) /\ Len(t) + 1 \notin 1 .. Len(t)
  BY LenProperties, SMT
<1> QED BY <1>1, Zenon DEF Edge, In

LEMMA FirstEdge ==
  ASSUME NEW t \in Seq(Token) PROVE Edge(t, 1) /\ ~In(t, 1 - 1)
BY NoneBefore, Zenon DEF Edge, In

LEMMA NamedSpace ==
  ASSUME NEW t, NEW i, Edge(t, i), NEW name, Shows(t, i, name), NEW names, name \in names,
         NEW j, Follows(j, i), Shows(t, j, " "), NEW n, Follows(n, j), Shows(t, n, "")
  PROVE  Named(t, i, names) = n
<1>1. At(t, i, names) /\ i + 1 = j
  BY ShowsAt, Zenon DEF Follows
<1>2. " " \notin {"."} /\ " " \in {" "} /\ "" \notin {"#"} /\ "" \notin {" "}
  BY Zenon
<1>3. After(t, j, {"."}) = j
  BY <1>2, AfterNone, Zenon
<1>4. After(t, j, {" "}) = n
  BY <1>2, AfterIt, Zenon
<1>5. After(t, n, {"#"}) = n
  BY <1>2, AfterNone, Zenon
<1>6. After(t, n, {" "}) = n
  BY <1>2, AfterNone, Zenon
<1> QED BY <1>1, <1>3, <1>4, <1>5, <1>6, Zenon DEF Named

LEMMA NamedDot ==
  ASSUME NEW t, NEW i, Edge(t, i), NEW name, Shows(t, i, name), NEW names, name \in names,
         NEW dot, Follows(dot, i), Shows(t, dot, "."),
         NEW j, Follows(j, dot), Shows(t, j, " "), NEW n, Follows(n, j), Shows(t, n, "")
  PROVE  Named(t, i, names) = n
<1>1. At(t, i, names) /\ i + 1 = dot
  BY ShowsAt, Zenon DEF Follows
<1>2. "." \in {"."} /\ " " \in {" "} /\ "" \notin {"#"} /\ "" \notin {" "}
  BY Zenon
<1>3. After(t, dot, {"."}) = j
  BY <1>2, AfterIt, Zenon
<1>4. After(t, j, {" "}) = n
  BY <1>2, AfterIt, Zenon
<1>5. After(t, n, {"#"}) = n
  BY <1>2, AfterNone, Zenon
<1>6. After(t, n, {" "}) = n
  BY <1>2, AfterNone, Zenon
<1> QED BY <1>1, <1>3, <1>4, <1>5, <1>6, Zenon DEF Named

----------------------------------------------------------------------------
(* A rule that takes the whole text.                                       *)

LEMMA OneIsThere == ASSUME NEW t \in Seq(Token), Len(t) > 0 PROVE 1 \in 1 .. Len(t)
BY LenProperties, SMT

LEMMA RoomTakes ==
  ASSUME NEW t \in Seq(Token), Len(t) > 0, RoomEnd(t, 1) = Len(t) + 1
  PROVE  Sub(t, RoomEnd, SayRoom) = SayRoom(t, 1)
<1> DEFINE end == [i \in 1 .. Len(t) |-> RoomEnd(t, i)]
           say == [i \in 1 .. Len(t) |-> SayRoom(t, i)]
<1>1. Sub(t, RoomEnd, SayRoom) = Replaced(t, end, say)
  BY DomainOfText, Zenon DEF Sub
<1>2. \A i \in 1 .. Len(t) : end[i] # 0 => Claims(t, i, end[i], say[i])
  BY RoomClaims, Zenon
<1>3. end[1] = Len(t) + 1 /\ say[1] = SayRoom(t, 1)
  BY OneIsThere, Zenon
<1> HIDE DEF end, say
<1>4. Replaced(t, end, say) = say[1]
  BY <1>2, <1>3, PassWhole, Zenon
<1> QED BY <1>1, <1>3, <1>4, Zenon

LEMMA BusTakes ==
  ASSUME NEW t \in Seq(Token), Len(t) > 0, BusEnd(t, 1) = Len(t) + 1
  PROVE  Sub(t, BusEnd, SayBus) = SayBus(t, 1)
<1> DEFINE end == [i \in 1 .. Len(t) |-> BusEnd(t, i)]
           say == [i \in 1 .. Len(t) |-> SayBus(t, i)]
<1>1. Sub(t, BusEnd, SayBus) = Replaced(t, end, say)
  BY DomainOfText, Zenon DEF Sub
<1>2. \A i \in 1 .. Len(t) : end[i] # 0 => Claims(t, i, end[i], say[i])
  BY BusClaims, Zenon
<1>3. end[1] = Len(t) + 1 /\ say[1] = SayBus(t, 1)
  BY OneIsThere, Zenon
<1> HIDE DEF end, say
<1>4. Replaced(t, end, say) = say[1]
  BY <1>2, <1>3, PassWhole, Zenon
<1> QED BY <1>1, <1>3, <1>4, Zenon

LEMMA LockerTakes ==
  ASSUME NEW t \in Seq(Token), Len(t) > 0, LockerEnd(t, 1) = Len(t) + 1
  PROVE  Sub(t, LockerEnd, SayLocker) = SayLocker(t, 1)
<1> DEFINE end == [i \in 1 .. Len(t) |-> LockerEnd(t, i)]
           say == [i \in 1 .. Len(t) |-> SayLocker(t, i)]
<1>1. Sub(t, LockerEnd, SayLocker) = Replaced(t, end, say)
  BY DomainOfText, Zenon DEF Sub
<1>2. \A i \in 1 .. Len(t) : end[i] # 0 => Claims(t, i, end[i], say[i])
  BY LockerClaims, Zenon
<1>3. end[1] = Len(t) + 1 /\ say[1] = SayLocker(t, 1)
  BY OneIsThere, Zenon
<1> HIDE DEF end, say
<1>4. Replaced(t, end, say) = say[1]
  BY <1>2, <1>3, PassWhole, Zenon
<1> QED BY <1>1, <1>3, <1>4, Zenon

LEMMA ExtensionTakes ==
  ASSUME NEW t \in Seq(Token), Len(t) > 0, ExtensionEnd(t, 1) = Len(t) + 1
  PROVE  Sub(t, ExtensionEnd, SayExtension) = SayExtension(t, 1)
<1> DEFINE end == [i \in 1 .. Len(t) |-> ExtensionEnd(t, i)]
           say == [i \in 1 .. Len(t) |-> SayExtension(t, i)]
<1>1. Sub(t, ExtensionEnd, SayExtension) = Replaced(t, end, say)
  BY DomainOfText, Zenon DEF Sub
<1>2. \A i \in 1 .. Len(t) : end[i] # 0 => Claims(t, i, end[i], say[i])
  BY ExtensionClaims, Zenon
<1>3. end[1] = Len(t) + 1 /\ say[1] = SayExtension(t, 1)
  BY OneIsThere, Zenon
<1> HIDE DEF end, say
<1>4. Replaced(t, end, say) = say[1]
  BY <1>2, <1>3, PassWhole, Zenon
<1> QED BY <1>1, <1>3, <1>4, Zenon

LEMMA PhoneTakes ==
  ASSUME NEW t \in Seq(Token), Len(t) > 0, PhoneEnd(t, 1) = Len(t) + 1
  PROVE  Sub(t, PhoneEnd, SayPhone) = SayPhone(t, 1)
<1> DEFINE end == [i \in 1 .. Len(t) |-> PhoneEnd(t, i)]
           say == [i \in 1 .. Len(t) |-> SayPhone(t, i)]
<1>1. Sub(t, PhoneEnd, SayPhone) = Replaced(t, end, say)
  BY DomainOfText, Zenon DEF Sub
<1>2. \A i \in 1 .. Len(t) : end[i] # 0 => Claims(t, i, end[i], say[i])
  BY PhoneClaims, Zenon
<1>3. end[1] = Len(t) + 1 /\ say[1] = SayPhone(t, 1)
  BY OneIsThere, Zenon
<1> HIDE DEF end, say
<1>4. Replaced(t, end, say) = say[1]
  BY <1>2, <1>3, PassWhole, Zenon
<1> QED BY <1>1, <1>3, <1>4, Zenon

LEMMA OrdinalTakes ==
  ASSUME NEW t \in Seq(Token), Len(t) > 0, OrdinalEnd(t, 1) = Len(t) + 1
  PROVE  Sub(t, OrdinalEnd, SayOrdinal) = SayOrdinal(t, 1)
<1> DEFINE end == [i \in 1 .. Len(t) |-> OrdinalEnd(t, i)]
           say == [i \in 1 .. Len(t) |-> SayOrdinal(t, i)]
<1>1. Sub(t, OrdinalEnd, SayOrdinal) = Replaced(t, end, say)
  BY DomainOfText, Zenon DEF Sub
<1>2. \A i \in 1 .. Len(t) : end[i] # 0 => Claims(t, i, end[i], say[i])
  BY OrdinalClaims, Zenon
<1>3. end[1] = Len(t) + 1 /\ say[1] = SayOrdinal(t, 1)
  BY OneIsThere, Zenon
<1> HIDE DEF end, say
<1>4. Replaced(t, end, say) = say[1]
  BY <1>2, <1>3, PassWhole, Zenon
<1> QED BY <1>1, <1>3, <1>4, Zenon

LEMMA TimeMeridiemTakes ==
  ASSUME NEW t \in Seq(Token), Len(t) > 0, TimeMeridiemEnd(t, 1) = Len(t) + 1
  PROVE  Sub(t, TimeMeridiemEnd, SayTimeMeridiem) = SayTimeMeridiem(t, 1)
<1> DEFINE end == [i \in 1 .. Len(t) |-> TimeMeridiemEnd(t, i)]
           say == [i \in 1 .. Len(t) |-> SayTimeMeridiem(t, i)]
<1>1. Sub(t, TimeMeridiemEnd, SayTimeMeridiem) = Replaced(t, end, say)
  BY DomainOfText, Zenon DEF Sub
<1>2. \A i \in 1 .. Len(t) : end[i] # 0 => Claims(t, i, end[i], say[i])
  BY TimeMeridiemClaims, Zenon
<1>3. end[1] = Len(t) + 1 /\ say[1] = SayTimeMeridiem(t, 1)
  BY OneIsThere, Zenon
<1> HIDE DEF end, say
<1>4. Replaced(t, end, say) = say[1]
  BY <1>2, <1>3, PassWhole, Zenon
<1> QED BY <1>1, <1>3, <1>4, Zenon

LEMMA TimeBareTakes ==
  ASSUME NEW t \in Seq(Token), Len(t) > 0, TimeBareEnd(t, 1) = Len(t) + 1
  PROVE  Sub(t, TimeBareEnd, SayTimeBare) = SayTimeBare(t, 1)
<1> DEFINE end == [i \in 1 .. Len(t) |-> TimeBareEnd(t, i)]
           say == [i \in 1 .. Len(t) |-> SayTimeBare(t, i)]
<1>1. Sub(t, TimeBareEnd, SayTimeBare) = Replaced(t, end, say)
  BY DomainOfText, Zenon DEF Sub
<1>2. \A i \in 1 .. Len(t) : end[i] # 0 => Claims(t, i, end[i], say[i])
  BY TimeBareClaims, Zenon
<1>3. end[1] = Len(t) + 1 /\ say[1] = SayTimeBare(t, 1)
  BY OneIsThere, Zenon
<1> HIDE DEF end, say
<1>4. Replaced(t, end, say) = say[1]
  BY <1>2, <1>3, PassWhole, Zenon
<1> QED BY <1>1, <1>3, <1>4, Zenon

LEMMA HourTakes ==
  ASSUME NEW t \in Seq(Token), Len(t) > 0, HourEnd(t, 1) = Len(t) + 1
  PROVE  Sub(t, HourEnd, SayHour) = SayHour(t, 1)
<1> DEFINE end == [i \in 1 .. Len(t) |-> HourEnd(t, i)]
           say == [i \in 1 .. Len(t) |-> SayHour(t, i)]
<1>1. Sub(t, HourEnd, SayHour) = Replaced(t, end, say)
  BY DomainOfText, Zenon DEF Sub
<1>2. \A i \in 1 .. Len(t) : end[i] # 0 => Claims(t, i, end[i], say[i])
  BY HourClaims, Zenon
<1>3. end[1] = Len(t) + 1 /\ say[1] = SayHour(t, 1)
  BY OneIsThere, Zenon
<1> HIDE DEF end, say
<1>4. Replaced(t, end, say) = say[1]
  BY <1>2, <1>3, PassWhole, Zenon
<1> QED BY <1>1, <1>3, <1>4, Zenon

LEMMA DecimalTakes ==
  ASSUME NEW t \in Seq(Token), Len(t) > 0, DecimalEnd(t, 1) = Len(t) + 1
  PROVE  Sub(t, DecimalEnd, SayDecimal) = SayDecimal(t, 1)
<1> DEFINE end == [i \in 1 .. Len(t) |-> DecimalEnd(t, i)]
           say == [i \in 1 .. Len(t) |-> SayDecimal(t, i)]
<1>1. Sub(t, DecimalEnd, SayDecimal) = Replaced(t, end, say)
  BY DomainOfText, Zenon DEF Sub
<1>2. \A i \in 1 .. Len(t) : end[i] # 0 => Claims(t, i, end[i], say[i])
  BY DecimalClaims, Zenon
<1>3. end[1] = Len(t) + 1 /\ say[1] = SayDecimal(t, 1)
  BY OneIsThere, Zenon
<1> HIDE DEF end, say
<1>4. Replaced(t, end, say) = say[1]
  BY <1>2, <1>3, PassWhole, Zenon
<1> QED BY <1>1, <1>3, <1>4, Zenon

LEMMA LongRunTakes ==
  ASSUME NEW t \in Seq(Token), Len(t) > 0, LongRunEnd(t, 1) = Len(t) + 1
  PROVE  Sub(t, LongRunEnd, SayLongRun) = SayLongRun(t, 1)
<1> DEFINE end == [i \in 1 .. Len(t) |-> LongRunEnd(t, i)]
           say == [i \in 1 .. Len(t) |-> SayLongRun(t, i)]
<1>1. Sub(t, LongRunEnd, SayLongRun) = Replaced(t, end, say)
  BY DomainOfText, Zenon DEF Sub
<1>2. \A i \in 1 .. Len(t) : end[i] # 0 => Claims(t, i, end[i], say[i])
  BY LongRunClaims, Zenon
<1>3. end[1] = Len(t) + 1 /\ say[1] = SayLongRun(t, 1)
  BY OneIsThere, Zenon
<1> HIDE DEF end, say
<1>4. Replaced(t, end, say) = say[1]
  BY <1>2, <1>3, PassWhole, Zenon
<1> QED BY <1>1, <1>3, <1>4, Zenon

LEMMA RangeTakes ==
  ASSUME NEW t \in Seq(Token), Len(t) > 0, RangeEnd(t, 1) = Len(t) + 1
  PROVE  Sub(t, RangeEnd, SayRange) = SayRange(t, 1)
<1> DEFINE end == [i \in 1 .. Len(t) |-> RangeEnd(t, i)]
           say == [i \in 1 .. Len(t) |-> SayRange(t, i)]
<1>1. Sub(t, RangeEnd, SayRange) = Replaced(t, end, say)
  BY DomainOfText, Zenon DEF Sub
<1>2. \A i \in 1 .. Len(t) : end[i] # 0 => Claims(t, i, end[i], say[i])
  BY RangeClaims, Zenon
<1>3. end[1] = Len(t) + 1 /\ say[1] = SayRange(t, 1)
  BY OneIsThere, Zenon
<1> HIDE DEF end, say
<1>4. Replaced(t, end, say) = say[1]
  BY <1>2, <1>3, PassWhole, Zenon
<1> QED BY <1>1, <1>3, <1>4, Zenon

----------------------------------------------------------------------------
(* Each kind of item.                                                      *)

LEMMA RowOfThree ==
  ASSUME NEW x, NEW y, NEW z
  PROVE  /\ Len(<<x, y, z>>) = 3 /\ \A i \in 1 .. 3 : i = 1 \/ i = 2 \/ i = 3
         /\ 1 \in 1 .. 3 /\ 2 \in 1 .. 3 /\ 3 \in 1 .. 3 /\ 3 > 0
         /\ <<x, y, z>>[1] = x /\ <<x, y, z>>[2] = y /\ <<x, y, z>>[3] = z
BY SMT

LEMMA AllOfThree ==
  ASSUME NEW t, Len(t) = 3, NEW x, Shows(t, 1, x), NEW y, Shows(t, 2, y), NEW z, Shows(t, 3, z)
  PROVE  \A i \in 1 .. Len(t) : t[i].w \in {x, y, z}
<1>1. \A i \in 1 .. 3 : i = 1 \/ i = 2 \/ i = 3
  BY SMT
<1> QED BY <1>1, Zenon DEF Shows

LEMMA SomeFigures ==
  ASSUME NEW digits \in Seq(0 .. 9), Len(digits) > 0, NEW n \in Nat, Len(digits) <= n
  PROVE  Len(digits) \in 1 .. n
BY LenProperties, SMT

LEMMA RestOf ==
  ASSUME NEW A, NEW x \in A, NEW s \in Seq(A), Len(s) > 0
  PROVE  (<<x>> \o s)[1] = x /\ SubSeq(<<x>> \o s, 2, Len(<<x>> \o s)) = s
<1>1. /\ <<x>> \in Seq(A) /\ Len(<<x>>) = 1 /\ (<<x>> \o s)[1] = x
  BY FirstAndRest, Zenon
<1>2. 1 > 0 /\ 1 + 1 = 2
  OBVIOUS
<1>3. SubSeq(<<x>> \o s, 1 + 1, 1 + Len(s)) = s /\ Len(<<x>> \o s) = 1 + Len(s)
  BY <1>1, <1>2, TwoParts, Zenon
<1> QED BY <1>1, <1>2, <1>3, Zenon

LEMMA LockerWay ==
  ASSUME NEW item \in Item, item.kind = "locker", Written(item)
  PROVE  \E own, mid : Way(item, own, mid)
<1> DEFINE t == <<W("locker"), Space, N(item.a)>>
           words == <<"locker">> \o DigitWords(item.a)
<1>1. Typed(item) = t
  BY Zenon DEF Typed
<1>2. item.a \in Seq(0 .. 9) /\ Len(item.a) > 0 /\ Len(item.a) \in 1 .. 4
  <2>1. item.a \in Seq(0 .. 9)
    BY DEF Item
  <2>2. Len(item.a) > 0 /\ Len(item.a) <= 4 /\ 4 \in Nat
    BY Zenon DEF Written
  <2> QED BY <2>1, <2>2, SomeFigures, Zenon
<1>3. t \in Seq(Token)
  <2>1. item.kind = "area" => Len(item.b) = 7
    BY Zenon
  <2> QED BY <1>1, <2>1, TypedType, Zenon
<1>4. /\ Len(t) = 3 /\ \A i \in 1 .. 3 : i = 1 \/ i = 2 \/ i = 3
      /\ t[1] = W("locker") /\ t[2] = Space /\ t[3] = N(item.a)
      /\ 1 \in 1 .. 3 /\ 2 \in 1 .. 3 /\ 3 \in 1 .. 3 /\ 3 > 0
  BY RowOfThree, Zenon
<1> HIDE DEF t
<1>5. /\ Shows(t, 1, "locker") /\ Shows(t, 2, " ") /\ Shows(t, 3, "") /\ Figures(t, 3, item.a)
  BY <1>4, Fields, Zenon DEF Shows, Figures
<1>6. Named(t, 1, {"locker"}) = 3
  BY <1>3, <1>5, Successors, FirstEdge, NamedSpace, Zenon
<1>7. NumAt(t, 3, 1 .. 4)
  BY <1>2, <1>5, FiguresAt, Zenon
<1>8. LockerEnd(t, 1) = Len(t) + 1
  <2>1. Edge(t, 3 + 1)
    BY <1>3, <1>4, Ends, Zenon
  <2> QED BY <1>4, <1>6, <1>7, <2>1, Zenon DEF LockerEnd
<1>9. SayLocker(t, 1) = Spoken(words)
  BY <1>5, <1>6, Zenon DEF SayLocker, Figures
<1>10. Expanded(t, 4) = Spoken(words)
  BY <1>3, <1>4, <1>8, <1>9, LockerTakes, ExpandedIs, Zenon
<1>11. \A r \in 1 .. 3 : Expanded(t, r) = t
  <2>1. \A i \in 1 .. Len(t) : t[i].w \in {"locker", " ", ""}
    BY <1>4, <1>5, AllOfThree, Zenon
  <2>2. \A r \in 1 .. 3 : r \in 1 .. 9 /\ (r = 1 \/ r = 2 \/ r = 3)
    BY SMT
  <2>3. \A r \in 1 .. 3 : {"locker", " ", ""} \cap Keys(r) = {}
    BY <2>2, KeysAre, Zenon
  <2> QED BY <1>3, <2>1, <2>2, <2>3, NoKeyThere, Zenon
<1>12. words \in Seq(Voice) /\ Len(words) > 0
  <2>1. DigitWords(item.a) \in Seq(Voice) /\ "locker" \in Voice
    BY <1>2, DigitsVoiced, Zenon DEF Voice
  <2> QED BY <2>1, FirstAndRest, Zenon
<1>13. Understood(item, words)
  <2>1. DigitWords(item.a) \in Seq(Voice) /\ "locker" \in Voice /\ Len(DigitWords(item.a)) > 0
    BY <1>2, DigitsVoiced, Zenon DEF Voice
  <2>2. words[1] = "locker" /\ SubSeq(words, 2, Len(words)) = DigitWords(item.a)
    BY <2>1, RestOf, Zenon
  <2>3. Digits(DigitWords(item.a)) = item.a
    BY <1>2, DigitsReadBack, Zenon
  <2> HIDE DEF words
  <2> QED BY <2>2, <2>3, Zenon DEF Understood
<1> QED
  <2>1. 4 \in 1 .. Rules - 1 /\ \A r \in 1 .. 4 - 1 : r \in 1 .. 3
    BY SMT DEF Rules
  <2> HIDE DEF words
  <2>2. Way(item, 4, Spoken(words))
    BY <1>1, <1>10, <1>11, <1>12, <1>13, <2>1, SpokenWay, Zenon
  <2> QED BY <2>2, Zenon

LEMMA RowOfFour ==
  ASSUME NEW x, NEW y, NEW z, NEW u
  PROVE  /\ Len(<<x, y, z, u>>) = 4
         /\ 1 \in 1 .. 4 /\ 2 \in 1 .. 4 /\ 3 \in 1 .. 4 /\ 4 \in 1 .. 4 /\ 4 > 0 /\ 5 \notin 1 .. 4
         /\ <<x, y, z, u>>[1] = x /\ <<x, y, z, u>>[2] = y
         /\ <<x, y, z, u>>[3] = z /\ <<x, y, z, u>>[4] = u
BY SMT

LEMMA AllOfFour ==
  ASSUME NEW t, Len(t) = 4, NEW x, Shows(t, 1, x), NEW y, Shows(t, 2, y),
         NEW z, Shows(t, 3, z), NEW u, Shows(t, 4, u)
  PROVE  \A i \in 1 .. Len(t) : t[i].w \in {x, y, z, u}
<1>1. \A i \in 1 .. 4 : i = 1 \/ i = 2 \/ i = 3 \/ i = 4
  BY SMT
<1> QED BY <1>1, Zenon DEF Shows

LEMMA ExtensionWay ==
  ASSUME NEW item \in Item, item.kind = "ext", Written(item)
  PROVE  \E own, mid : Way(item, own, mid)
<1> DEFINE t == <<W("ext"), W("."), Space, N(item.a)>>
           words == <<"extension">> \o DigitWords(item.a)
<1>1. Typed(item) = t
  BY Zenon DEF Typed
<1>2. item.a \in Seq(0 .. 9) /\ Len(item.a) > 0 /\ Len(item.a) \in 2 .. 5
  <2>1. item.a \in Seq(0 .. 9)
    BY DEF Item
  <2>2. Len(item.a) > 0 /\ Len(item.a) \in 2 .. 5
    BY Zenon DEF Written
  <2> QED BY <2>1, <2>2, Zenon
<1>3. t \in Seq(Token)
  <2>1. item.kind = "area" => Len(item.b) = 7
    BY Zenon
  <2> QED BY <1>1, <2>1, TypedType, Zenon
<1>4. /\ Len(t) = 4 /\ t[1] = W("ext") /\ t[2] = W(".") /\ t[3] = Space /\ t[4] = N(item.a)
      /\ 1 \in 1 .. 4 /\ 2 \in 1 .. 4 /\ 3 \in 1 .. 4 /\ 4 \in 1 .. 4 /\ 4 > 0
  BY RowOfFour, Zenon
<1> HIDE DEF t
<1>5. /\ Shows(t, 1, "ext") /\ Shows(t, 2, ".") /\ Shows(t, 3, " ") /\ Shows(t, 4, "")
      /\ Figures(t, 4, item.a)
  BY <1>4, Fields, Zenon DEF Shows, Figures
<1>6. Named(t, 1, ExtensionNames) = 4
  <2>1. "ext" \in ExtensionNames
    BY Zenon DEF ExtensionNames
  <2> QED BY <1>3, <1>5, <2>1, Successors, FirstEdge, NamedDot, Zenon
<1>7. NumAt(t, 4, 2 .. 5)
  BY <1>2, <1>5, FiguresAt, Zenon
<1>8. ExtensionEnd(t, 1) = Len(t) + 1
  <2>1. Edge(t, 4 + 1)
    BY <1>3, <1>4, Ends, Zenon
  <2> QED BY <1>4, <1>6, <1>7, <2>1, Zenon DEF ExtensionEnd
<1>9. SayExtension(t, 1) = Spoken(words)
  BY <1>5, <1>6, Zenon DEF SayExtension, Figures
<1>10. Expanded(t, 5) = Spoken(words)
  BY <1>3, <1>4, <1>8, <1>9, ExtensionTakes, ExpandedIs, Zenon
<1>11. \A r \in 1 .. 4 : Expanded(t, r) = t
  <2>1. \A i \in 1 .. Len(t) : t[i].w \in {"ext", ".", " ", ""}
    BY <1>4, <1>5, AllOfFour, Zenon
  <2>2. \A r \in 1 .. 4 : r \in 1 .. 9 /\ (r = 1 \/ r = 2 \/ r = 3 \/ r = 4)
    BY SMT
  <2>3. \A r \in 1 .. 4 : {"ext", ".", " ", ""} \cap Keys(r) = {}
    BY <2>2, KeysAre, Zenon
  <2> QED BY <1>3, <2>1, <2>2, <2>3, NoKeyThere, Zenon
<1>12. words \in Seq(Voice) /\ Len(words) > 0
  <2>1. DigitWords(item.a) \in Seq(Voice) /\ "extension" \in Voice
    BY <1>2, DigitsVoiced, Zenon DEF Voice
  <2> QED BY <2>1, FirstAndRest, Zenon
<1>13. Understood(item, words)
  <2>1. /\ DigitWords(item.a) \in Seq(Voice) /\ "extension" \in Voice
        /\ Len(DigitWords(item.a)) > 0
    BY <1>2, DigitsVoiced, Zenon DEF Voice
  <2>2. words[1] = "extension" /\ SubSeq(words, 2, Len(words)) = DigitWords(item.a)
    BY <2>1, RestOf, Zenon
  <2>3. Digits(DigitWords(item.a)) = item.a
    BY <1>2, DigitsReadBack, Zenon
  <2> HIDE DEF words
  <2> QED BY <2>2, <2>3, Zenon DEF Understood
<1> QED
  <2>1. 5 \in 1 .. Rules - 1 /\ \A r \in 1 .. 5 - 1 : r \in 1 .. 4
    BY SMT DEF Rules
  <2> HIDE DEF words
  <2>2. Way(item, 5, Spoken(words))
    BY <1>1, <1>10, <1>11, <1>12, <1>13, <2>1, SpokenWay, Zenon
  <2> QED BY <2>2, Zenon

(* The number of a room: two figures are a number, more are said in turn.  *)
RoomWords(digits) == IF Len(digits) <= 2 THEN NumberWords[Num(digits)] ELSE DigitWords(digits)

LEMMA RoomWordsVoiced ==
  ASSUME NEW digits \in Seq(0 .. 9), Len(digits) > 0
  PROVE  RoomWords(digits) \in Seq(Voice) /\ Len(RoomWords(digits)) > 0
BY NumType, NumberVoiced, DigitsVoiced, Zenon DEF RoomWords

LEMMA RoomReadsBack ==
  ASSUME NEW digits \in Seq(0 .. 9)
  PROVE  IF Len(digits) > 2 THEN Digits(RoomWords(digits)) = digits
         ELSE Value(RoomWords(digits)) = Num(digits)
<1>1. Len(digits) > 2 <=> ~(Len(digits) <= 2)
  BY LenProperties, SMT
<1> QED BY <1>1, NumType, NumbersReadBack, DigitsReadBack, Zenon DEF RoomWords

LEMMA RoomWay ==
  ASSUME NEW item \in Item, item.kind = "room", Written(item)
  PROVE  \E own, mid : Way(item, own, mid)
<1> DEFINE t == <<W("rm"), W("."), Space, N(item.a)>>
           words == <<"room">> \o RoomWords(item.a)
<1>1. Typed(item) = t
  BY Zenon DEF Typed
<1>2. item.a \in Seq(0 .. 9) /\ Len(item.a) > 0 /\ Len(item.a) \in 1 .. 4
  <2>1. item.a \in Seq(0 .. 9)
    BY DEF Item
  <2>2. Len(item.a) > 0 /\ Len(item.a) <= 4 /\ 4 \in Nat
    BY Zenon DEF Written
  <2> QED BY <2>1, <2>2, SomeFigures, Zenon
<1>3. t \in Seq(Token)
  <2>1. item.kind = "area" => Len(item.b) = 7
    BY Zenon
  <2> QED BY <1>1, <2>1, TypedType, Zenon
<1>4. /\ Len(t) = 4 /\ t[1] = W("rm") /\ t[2] = W(".") /\ t[3] = Space /\ t[4] = N(item.a)
      /\ 1 \in 1 .. 4 /\ 2 \in 1 .. 4 /\ 3 \in 1 .. 4 /\ 4 \in 1 .. 4 /\ 4 > 0 /\ 5 \notin 1 .. 4
  BY RowOfFour, Zenon
<1> HIDE DEF t
<1>5. /\ Shows(t, 1, "rm") /\ Shows(t, 2, ".") /\ Shows(t, 3, " ") /\ Shows(t, 4, "")
      /\ Figures(t, 4, item.a)
  BY <1>4, Fields, Zenon DEF Shows, Figures
<1>6. Named(t, 1, {"room", "rm"}) = 4
  BY <1>3, <1>5, Successors, FirstEdge, NamedDot, Zenon
<1>7. NumAt(t, 4, 1 .. 4)
  BY <1>2, <1>5, FiguresAt, Zenon
<1>8. RoomSuffix(t, 4) = 4 + 1 /\ 4 + 1 # 4 + 2
  <2>1. 4 + 1 = 5 /\ 4 + 1 # 4 + 2
    BY SMT
  <2>2. ~At(t, 4 + 1, {"b"})
    BY <1>4, <2>1, Zenon DEF At, In
  <2> QED BY <2>1, <2>2, Zenon DEF RoomSuffix
<1>9. RoomEnd(t, 1) = Len(t) + 1
  <2>1. Edge(t, 4 + 1)
    BY <1>3, <1>4, Ends, Zenon
  <2> QED BY <1>4, <1>6, <1>7, <1>8, <2>1, Zenon DEF RoomEnd
<1>10. SayRoom(t, 1) = Spoken(words)
  <2>1. RoomWords(item.a) \in Seq(Voice) /\ "room" \in Voice
    BY <1>2, RoomWordsVoiced, Zenon DEF Voice
  <2>2. words \in Seq(Voice)
    BY <2>1, FirstAndRest, Zenon
  <2>3. words \o <<>> = words
    BY <2>2, ConcatEmptySeq, Zenon
  <2>4. t[4].d = item.a
    BY <1>5, Zenon DEF Figures
  <2>5. SayRoom(t, 1) = Spoken(<<"room">> \o RoomWords(item.a) \o <<>>)
    BY <1>6, <1>8, <2>4, Zenon DEF SayRoom, RoomWords
  <2> QED BY <2>3, <2>5, Zenon
<1>11. Expanded(t, 2) = Spoken(words)
  BY <1>3, <1>4, <1>9, <1>10, RoomTakes, ExpandedIs, Zenon
<1>12. \A r \in 1 .. 1 : Expanded(t, r) = t
  <2>1. \A i \in 1 .. Len(t) : t[i].w \in {"rm", ".", " ", ""}
    BY <1>4, <1>5, AllOfFour, Zenon
  <2>2. \A r \in 1 .. 1 : r \in 1 .. 9 /\ r = 1
    BY SMT
  <2>3. \A r \in 1 .. 1 : {"rm", ".", " ", ""} \cap Keys(r) = {}
    BY <2>2, KeysAre, Zenon
  <2> QED BY <1>3, <2>1, <2>2, <2>3, NoKeyThere, Zenon
<1>13. words \in Seq(Voice) /\ Len(words) > 0
  <2>1. RoomWords(item.a) \in Seq(Voice) /\ "room" \in Voice
    BY <1>2, RoomWordsVoiced, Zenon DEF Voice
  <2> QED BY <2>1, FirstAndRest, Zenon
<1>14. Understood(item, words)
  <2>1. /\ RoomWords(item.a) \in Seq(Voice) /\ "room" \in Voice /\ Len(RoomWords(item.a)) > 0
    BY <1>2, RoomWordsVoiced, Zenon DEF Voice
  <2>2. words[1] = "room" /\ SubSeq(words, 2, Len(words)) = RoomWords(item.a)
    BY <2>1, RestOf, Zenon
  <2>3. IF Len(item.a) > 2 THEN Digits(RoomWords(item.a)) = item.a
        ELSE Value(RoomWords(item.a)) = Num(item.a)
    BY <1>2, RoomReadsBack, Zenon
  <2> HIDE DEF words
  <2> QED BY <2>2, <2>3, Zenon DEF Understood
<1> QED
  <2>1. 2 \in 1 .. Rules - 1 /\ \A r \in 1 .. 2 - 1 : r \in 1 .. 1
    BY SMT DEF Rules
  <2> HIDE DEF words
  <2>2. Way(item, 2, Spoken(words))
    BY <1>1, <1>11, <1>12, <1>13, <1>14, <2>1, SpokenWay, Zenon
  <2> QED BY <2>2, Zenon

Closing(w, s, y) == w = s \o <<y>>
Between(w, x, s, y) == w = <<x>> \o s \o <<y>>

LEMMA LastOf ==
  ASSUME NEW A, NEW s \in Seq(A), NEW y \in A, NEW w, Closing(w, s, y)
  PROVE  /\ w \in Seq(A) /\ Len(w) > 0 /\ Last(w) = y /\ Front(w) = s
         /\ SubSeq(w, 1, Len(w) - 1) = s
<1>1. /\ w \in Seq(A) /\ Len(w) = Len(s) + 1 /\ Len(s) \in Nat /\ w[Len(s) + 1] = y
      /\ \A k \in 1 .. Len(s) : w[k] = s[k]
  BY SMT DEF Closing
<1>2. SubSeq(w, 1, Len(w) - 1) = s
  <2>1. Len(w) - 1 = Len(s) /\ Len(s) \in Nat /\ Len(s) \in 0 .. Len(w)
    BY <1>1, SMT
  <2> QED BY <1>1, <2>1, SMT
<1>3. Len(w) > 0 /\ Len(w) = Len(s) + 1
  BY <1>1, SMT
<1>4. Last(w) = y /\ Front(w) = SubSeq(w, 1, Len(w) - 1)
  BY <1>1, Zenon DEF Last, Front
<1> QED BY <1>1, <1>2, <1>3, <1>4, Zenon

Framed(w, x, s, y, A) ==
  /\ w \in Seq(A) /\ Len(w) > 0 /\ w[1] = x /\ Last(w) = y
  /\ SubSeq(w, 2, Len(w) - 1) = s

LEMMA MiddleOf ==
  ASSUME NEW A, NEW x \in A, NEW s \in Seq(A), Len(s) > 0, NEW y \in A,
         NEW w, Between(w, x, s, y)
  PROVE  Framed(w, x, s, y, A)
<1> DEFINE u == <<x>> \o s
<1>1. u \in Seq(A) /\ Len(u) = 1 + Len(s) /\ Len(u) > 0
  BY SMT
<1>2. u[1] = x /\ SubSeq(u, 2, Len(u)) = s
  BY RestOf, Zenon
<1>3. Closing(w, u, y)
  BY Zenon DEF Between, Closing
<1> HIDE DEF u
<1>6. w \in Seq(A) /\ Len(w) > 0 /\ Last(w) = y /\ SubSeq(w, 1, Len(w) - 1) = u
  BY <1>1, <1>3, LastOf, Zenon
<1>4. w[1] = x /\ Len(w) = Len(u) + 1
  BY <1>1, <1>2, <1>3, SMT DEF Closing
<1>5. SubSeq(w, 2, Len(w) - 1) = SubSeq(u, 2, Len(u))
  BY <1>1, <1>4, <1>3, SMT DEF Closing
<1> QED BY <1>2, <1>4, <1>5, <1>6, Zenon DEF Framed

LEMMA WingWay ==
  ASSUME NEW item \in Item, item.kind = "wing", Written(item)
  PROVE  \E own, mid : Way(item, own, mid)
<1> DEFINE t == <<W("room"), Space, N(item.a), W("b")>>
           words == <<"room">> \o RoomWords(item.a) \o <<"b">>
<1>1. Typed(item) = t
  BY Zenon DEF Typed
<1>2. item.a \in Seq(0 .. 9) /\ Len(item.a) > 0 /\ Len(item.a) \in 1 .. 4
  <2>1. item.a \in Seq(0 .. 9)
    BY DEF Item
  <2>2. Len(item.a) > 0 /\ Len(item.a) <= 4 /\ 4 \in Nat
    BY Zenon DEF Written
  <2> QED BY <2>1, <2>2, SomeFigures, Zenon
<1>3. t \in Seq(Token)
  <2>1. item.kind = "area" => Len(item.b) = 7
    BY Zenon
  <2> QED BY <1>1, <2>1, TypedType, Zenon
<1>4. /\ Len(t) = 4 /\ t[1] = W("room") /\ t[2] = Space /\ t[3] = N(item.a) /\ t[4] = W("b")
      /\ 1 \in 1 .. 4 /\ 2 \in 1 .. 4 /\ 3 \in 1 .. 4 /\ 4 \in 1 .. 4 /\ 4 > 0
  BY RowOfFour, Zenon
<1> HIDE DEF t
<1>5. /\ Shows(t, 1, "room") /\ Shows(t, 2, " ") /\ Shows(t, 3, "") /\ Shows(t, 4, "b")
      /\ Figures(t, 3, item.a)
  BY <1>4, Fields, Zenon DEF Shows, Figures
<1>6. Named(t, 1, {"room", "rm"}) = 3
  BY <1>3, <1>5, Successors, FirstEdge, NamedSpace, Zenon
<1>7. NumAt(t, 3, 1 .. 4)
  BY <1>2, <1>5, FiguresAt, Zenon
<1>8. RoomSuffix(t, 3) = 3 + 2 /\ 3 + 2 = Len(t) + 1
  <2>1. 3 + 1 = 4 /\ 3 + 2 = 4 + 1
    BY SMT
  <2>2. At(t, 3 + 1, {"b"})
    BY <1>5, <2>1, Zenon DEF At, In, Shows
  <2> QED BY <1>4, <2>1, <2>2, Zenon DEF RoomSuffix
<1>9. RoomEnd(t, 1) = Len(t) + 1
  <2>1. Edge(t, Len(t) + 1)
    BY <1>3, <1>4, Ends, Zenon
  <2> QED BY <1>4, <1>6, <1>7, <1>8, <2>1, Zenon DEF RoomEnd
<1>10. SayRoom(t, 1) = Spoken(words)
  <2>1. t[3].d = item.a
    BY <1>5, Zenon DEF Figures
  <2> QED BY <1>6, <1>8, <2>1, Zenon DEF SayRoom, RoomWords
<1>11. Expanded(t, 2) = Spoken(words)
  BY <1>3, <1>4, <1>9, <1>10, RoomTakes, ExpandedIs, Zenon
<1>12. \A r \in 1 .. 1 : Expanded(t, r) = t
  <2>1. \A i \in 1 .. Len(t) : t[i].w \in {"room", " ", "", "b"}
    BY <1>4, <1>5, AllOfFour, Zenon
  <2>2. \A r \in 1 .. 1 : r \in 1 .. 9 /\ r = 1
    BY SMT
  <2>3. \A r \in 1 .. 1 : {"room", " ", "", "b"} \cap Keys(r) = {}
    BY <2>2, KeysAre, Zenon
  <2> QED BY <1>3, <2>1, <2>2, <2>3, NoKeyThere, Zenon
<1>13. /\ RoomWords(item.a) \in Seq(Voice) /\ Len(RoomWords(item.a)) > 0
       /\ "room" \in Voice /\ "b" \in Voice
  BY <1>2, RoomWordsVoiced, Zenon DEF Voice
<1>14. /\ words \in Seq(Voice) /\ Len(words) > 0 /\ words[1] = "room" /\ Last(words) = "b"
       /\ SubSeq(words, 2, Len(words) - 1) = RoomWords(item.a)
  <2> DEFINE body == RoomWords(item.a)
  <2>1. Between(words, "room", body, "b") /\ body \in Seq(Voice) /\ Len(body) > 0
    BY <1>13, Zenon DEF Between
  <2> HIDE DEF words, body
  <2>2. "room" \in Voice /\ "b" \in Voice
    BY <1>13, Zenon
  <2>3. Framed(words, "room", body, "b", Voice)
    BY <2>1, <2>2, MiddleOf, Zenon
  <2> QED BY <2>3, Zenon DEF body, Framed
<1>15. IF Len(item.a) > 2 THEN Digits(RoomWords(item.a)) = item.a
       ELSE Value(RoomWords(item.a)) = Num(item.a)
  BY <1>2, RoomReadsBack, Zenon
<1> HIDE DEF words
<1>16. Understood(item, words)
  BY <1>14, <1>15, Zenon DEF Understood
<1> QED
  <2>1. 2 \in 1 .. Rules - 1 /\ \A r \in 1 .. 2 - 1 : r \in 1 .. 1
    BY SMT DEF Rules
  <2>2. Way(item, 2, Spoken(words))
    BY <1>1, <1>11, <1>12, <1>14, <1>16, <2>1, SpokenWay, Zenon
  <2> QED BY <2>2, Zenon

(* The number of a bus: up to 99 a number, more are said in turn.          *)
BusWords(digits) == IF Num(digits) <= 99 THEN NumberWords[Num(digits)] ELSE DigitWords(digits)

LEMMA BusWordsVoiced ==
  ASSUME NEW digits \in Seq(0 .. 9), Len(digits) > 0
  PROVE  BusWords(digits) \in Seq(Voice) /\ Len(BusWords(digits)) > 0
BY NumType, NumberVoiced, DigitsVoiced, Zenon DEF BusWords

LEMMA BusReadsBack ==
  ASSUME NEW digits \in Seq(0 .. 9)
  PROVE  IF Num(digits) > 99 THEN Digits(BusWords(digits)) = digits
         ELSE Value(BusWords(digits)) = Num(digits)
<1>1. Num(digits) > 99 <=> ~(Num(digits) <= 99)
  BY NumType, SMT
<1> QED BY <1>1, NumType, NumbersReadBack, DigitsReadBack, Zenon DEF BusWords

LEMMA BusNumbered ==
  ASSUME NEW t, NEW i, Edge(t, i), Shows(t, i, "bus"), NEW j, Follows(j, i), Shows(t, j, " "),
         NEW k, Follows(k, j), Shows(t, k, "#"), NEW n, Follows(n, k), Shows(t, n, "")
  PROVE  BusNumber(t, i) = n
<1>1. At(t, i, {"bus"}) /\ i + 1 = j
  BY ShowsAt, Zenon DEF Follows
<1>2. " " \in {" "} /\ "#" \notin {"number", "no"} /\ "#" \in {"#"} /\ "" \notin {" "}
  BY Zenon
<1>3. After(t, j, {" "}) = k
  BY <1>2, AfterIt, Zenon
<1>4. ~At(t, k, {"number", "no"})
  BY <1>2, ShowsAt, Zenon
<1>5. After(t, k, {"#"}) = n
  BY <1>2, AfterIt, Zenon
<1>6. After(t, n, {" "}) = n
  BY <1>2, AfterNone, Zenon
<1> QED BY <1>1, <1>3, <1>4, <1>5, <1>6, Zenon DEF BusNumber

LEMMA BusWay ==
  ASSUME NEW item \in Item, item.kind = "bus", Written(item)
  PROVE  \E own, mid : Way(item, own, mid)
<1> DEFINE t == <<W("bus"), Space, W("#"), N(item.a)>>
           words == <<"bus", "number">> \o BusWords(item.a)
<1>1. Typed(item) = t
  BY Zenon DEF Typed
<1>2. item.a \in Seq(0 .. 9) /\ Len(item.a) > 0 /\ Len(item.a) \in 1 .. 4
  <2>1. item.a \in Seq(0 .. 9)
    BY DEF Item
  <2>2. Len(item.a) > 0 /\ Len(item.a) <= 4 /\ 4 \in Nat
    BY Zenon DEF Written
  <2> QED BY <2>1, <2>2, SomeFigures, Zenon
<1>3. t \in Seq(Token)
  <2>1. item.kind = "area" => Len(item.b) = 7
    BY Zenon
  <2> QED BY <1>1, <2>1, TypedType, Zenon
<1>4. /\ Len(t) = 4 /\ t[1] = W("bus") /\ t[2] = Space /\ t[3] = W("#") /\ t[4] = N(item.a)
      /\ 1 \in 1 .. 4 /\ 2 \in 1 .. 4 /\ 3 \in 1 .. 4 /\ 4 \in 1 .. 4 /\ 4 > 0
  BY RowOfFour, Zenon
<1> HIDE DEF t
<1>5. /\ Shows(t, 1, "bus") /\ Shows(t, 2, " ") /\ Shows(t, 3, "#") /\ Shows(t, 4, "")
      /\ Figures(t, 4, item.a)
  BY <1>4, Fields, Zenon DEF Shows, Figures
<1>6. BusNumber(t, 1) = 4
  BY <1>3, <1>5, Successors, FirstEdge, BusNumbered, Zenon
<1>7. NumAt(t, 4, 1 .. 4)
  BY <1>2, <1>5, FiguresAt, Zenon
<1>8. BusEnd(t, 1) = Len(t) + 1
  <2>1. Edge(t, 4 + 1)
    BY <1>3, <1>4, Ends, Zenon
  <2> QED BY <1>4, <1>6, <1>7, <2>1, Zenon DEF BusEnd
<1>9. SayBus(t, 1) = Spoken(words)
  <2>1. t[4].d = item.a
    BY <1>5, Zenon DEF Figures
  <2> QED BY <1>6, <2>1, Zenon DEF SayBus, BusWords
<1>10. Expanded(t, 3) = Spoken(words)
  BY <1>3, <1>4, <1>8, <1>9, BusTakes, ExpandedIs, Zenon
<1>11. \A r \in 1 .. 2 : Expanded(t, r) = t
  <2>1. \A i \in 1 .. Len(t) : t[i].w \in {"bus", " ", "#", ""}
    BY <1>4, <1>5, AllOfFour, Zenon
  <2>2. \A r \in 1 .. 2 : r \in 1 .. 9 /\ (r = 1 \/ r = 2)
    BY SMT
  <2>3. \A r \in 1 .. 2 : {"bus", " ", "#", ""} \cap Keys(r) = {}
    BY <2>2, KeysAre, Zenon
  <2> QED BY <1>3, <2>1, <2>2, <2>3, NoKeyThere, Zenon
<1>12. /\ words \in Seq(Voice) /\ Len(words) > 0 /\ SubSeq(words, 1, 2) = <<"bus", "number">>
       /\ SubSeq(words, 3, Len(words)) = BusWords(item.a)
  <2> DEFINE names == <<"bus", "number">>
             rest == BusWords(item.a)
  <2>1. rest \in Seq(Voice) /\ Len(rest) > 0
    BY <1>2, BusWordsVoiced, Zenon
  <2>2. names \in Seq(Voice) /\ Len(names) = 2 /\ 2 > 0
    <3>1. "bus" \in Voice /\ "number" \in Voice
      BY Zenon DEF Voice
    <3> QED BY <3>1, SMT
  <2> HIDE DEF names, rest
  <2>3. /\ names \o rest \in Seq(Voice) /\ Len(names \o rest) = 2 + Len(rest)
        /\ SubSeq(names \o rest, 1, 2) = names
        /\ SubSeq(names \o rest, 2 + 1, 2 + Len(rest)) = rest
    <3>1. Len(names) > 0
      BY <2>2, Zenon
    <3>2. /\ names \o rest \in Seq(Voice) /\ Len(names \o rest) = Len(names) + Len(rest)
          /\ SubSeq(names \o rest, 1, Len(names)) = names
          /\ SubSeq(names \o rest, Len(names) + 1, Len(names) + Len(rest)) = rest
      BY <2>1, <2>2, <3>1, TwoParts, Zenon
    <3> QED BY <2>2, <3>2, Zenon
  <2>4. 2 + 1 = 3 /\ 2 + Len(rest) > 0
    BY <2>1, LenProperties, SMT
  <2>5. SubSeq(names \o rest, 3, Len(names \o rest)) = rest /\ Len(names \o rest) > 0
    BY <2>3, <2>4, Zenon
  <2> QED BY <2>3, <2>5, Zenon DEF names, rest
<1>13. IF Num(item.a) > 99 THEN Digits(BusWords(item.a)) = item.a
       ELSE Value(BusWords(item.a)) = Num(item.a)
  BY <1>2, BusReadsBack, Zenon
<1> HIDE DEF words
<1>14. Understood(item, words)
  BY <1>12, <1>13, Zenon DEF Understood
<1> QED
  <2>1. 3 \in 1 .. Rules - 1 /\ \A r \in 1 .. 3 - 1 : r \in 1 .. 2
    BY SMT DEF Rules
  <2>2. Way(item, 3, Spoken(words))
    BY <1>1, <1>10, <1>11, <1>12, <1>14, <2>1, SpokenWay, Zenon
  <2> QED BY <2>2, Zenon
LEMMA DigitWordsBoth ==
  ASSUME NEW a \in Seq(0 .. 9), NEW b \in Seq(0 .. 9)
  PROVE  DigitWords(a \o b) = DigitWords(a) \o DigitWords(b)
<1> DEFINE value(x) == IF x = 0 THEN "oh" ELSE One(x)
           said(s) == [k \in 1 .. Len(s) |-> value(s[k])]
<1>1. \A s : DigitWords(s) = said(s)
  BY Zenon DEF DigitWords
<1> HIDE DEF value
<1>2. said(a \o b) = said(a) \o said(b)
  BY SMT
<1> HIDE DEF said
<1> QED BY <1>1, <1>2, Zenon

LEMMA PhoneWay ==
  ASSUME NEW item \in Item, item.kind = "phone", Written(item)
  PROVE  \E own, mid : Way(item, own, mid)
<1> DEFINE t == <<N(item.a), W("-"), N(item.b)>>
           words == DigitWords(item.a) \o DigitWords(item.b)
<1>1. Typed(item) = t
  BY Zenon DEF Typed
<1>2. item.a \in Seq(0 .. 9) /\ item.b \in Seq(0 .. 9) /\ Len(item.a) = 3 /\ Len(item.b) = 4
  <2>1. item.a \in Seq(0 .. 9) /\ item.b \in Seq(0 .. 9)
    BY DEF Item
  <2>2. Len(item.a) = 3 /\ Len(item.b) = 4
    BY Zenon DEF Written
  <2> QED BY <2>1, <2>2, Zenon
<1>3. t \in Seq(Token)
  <2>1. item.kind = "area" => Len(item.b) = 7
    BY Zenon
  <2> QED BY <1>1, <2>1, TypedType, Zenon
<1>4. /\ Len(t) = 3 /\ \A i \in 1 .. 3 : i = 1 \/ i = 2 \/ i = 3
      /\ t[1] = N(item.a) /\ t[2] = W("-") /\ t[3] = N(item.b)
      /\ 1 \in 1 .. 3 /\ 2 \in 1 .. 3 /\ 3 \in 1 .. 3 /\ 3 > 0
  BY RowOfThree, Zenon
<1> HIDE DEF t
<1>5. /\ Shows(t, 1, "") /\ Shows(t, 2, "-") /\ Shows(t, 3, "")
      /\ Figures(t, 1, item.a) /\ Figures(t, 3, item.b)
  BY <1>4, Fields, Zenon DEF Shows, Figures
<1>6. NumAt(t, 1, {3}) /\ NumAt(t, 3, {4}) /\ ~NumAt(t, 3, {3})
  <2>1. /\ Len(item.a) > 0 /\ Len(item.b) > 0
        /\ Len(item.a) \in {3} /\ Len(item.b) \in {4} /\ Len(item.b) \notin {3}
    BY <1>2, SMT
  <2> QED BY <1>2, <1>5, <2>1, FiguresAt, Zenon
<1>7. 1 + 1 = 2 /\ 1 + 2 = 3 /\ 1 + 3 = 4 /\ 1 + 3 - 3 = 1 /\ 1 + 3 - 1 = 3 /\ 1 + 3 = 3 + 1 /\ 1 + 3 # 0
  BY SMT
<1>8. ShortPhone(t, 1) /\ ~WithArea(t, 1)
  <2>1. At(t, 1 + 1, {"-", "."})
    BY <1>5, <1>7, ShowsAt, Zenon
  <2>2. Edge(t, 1) /\ Edge(t, 1 + 3)
    BY <1>3, <1>4, <1>7, FirstEdge, Ends, Zenon
  <2>3. NumAt(t, 1 + 2, {4}) /\ ~NumAt(t, 1 + 2, {3})
    BY <1>6, <1>7, Zenon
  <2> QED BY <1>6, <2>1, <2>2, <2>3, Zenon DEF ShortPhone, WithArea
<1>9. PhoneEnd(t, 1) = 1 + 3 /\ 1 + 3 = Len(t) + 1
  BY <1>4, <1>7, <1>8, Zenon DEF PhoneEnd
<1>10. words \in Seq(Voice) /\ Len(words) > 0 /\ <<>> \o DigitWords(item.a) = DigitWords(item.a)
  <2> DEFINE x == DigitWords(item.a)
             y == DigitWords(item.b)
  <2>1. Len(item.a) > 0 /\ Len(item.b) > 0
    BY <1>2, SMT
  <2>2. x \in Seq(Voice) /\ Len(x) > 0 /\ y \in Seq(Voice)
    BY <1>2, <2>1, DigitsVoiced, Zenon
  <2> HIDE DEF x, y
  <2>3. x \o y \in Seq(Voice) /\ Len(x \o y) > 0 /\ <<>> \o x = x
    BY <2>2, SMT
  <2> QED BY <2>3, Zenon DEF x, y
<1>11. SayPhone(t, 1) = Spoken(words)
  <2>1. t[1].d = item.a /\ t[3].d = item.b
    BY <1>5, Zenon DEF Figures
  <2>2. SayPhone(t, 1) = Spoken((IF WithArea(t, 1) THEN DigitWords(t[1].d) ELSE <<>>)
           \o DigitWords(t[PhoneEnd(t, 1) - 3].d) \o DigitWords(t[PhoneEnd(t, 1) - 1].d))
    BY Zenon DEF SayPhone
  <2>3. (IF WithArea(t, 1) THEN DigitWords(t[1].d) ELSE <<>>) = <<>>
    BY <1>8, Zenon
  <2>4. PhoneEnd(t, 1) - 3 = 1 /\ PhoneEnd(t, 1) - 1 = 3
    BY <1>9, SMT
  <2>5. SayPhone(t, 1) = Spoken(<<>> \o DigitWords(item.a) \o DigitWords(item.b))
    BY <2>1, <2>2, <2>3, <2>4, Zenon
  <2> QED BY <1>10, <2>5, Zenon
<1>12. Expanded(t, 6) = Spoken(words)
  BY <1>3, <1>4, <1>9, <1>11, PhoneTakes, ExpandedIs, Zenon
<1>13. \A r \in 1 .. 5 : Expanded(t, r) = t
  <2>1. \A i \in 1 .. Len(t) : t[i].w \in {"", "-", ""}
    BY <1>4, <1>5, AllOfThree, Zenon
  <2>2. \A r \in 1 .. 5 : r \in 1 .. 9 /\ (r = 1 \/ r = 2 \/ r = 3 \/ r = 4 \/ r = 5)
    BY SMT
  <2>3. \A r \in 1 .. 5 : {"", "-", ""} \cap Keys(r) = {}
    BY <2>2, KeysAre, Zenon DEF ExtensionNames
  <2> QED BY <1>3, <2>1, <2>2, <2>3, NoKeyThere, Zenon
<1>14. Understood(item, words)
  <2>1. Digits(words) = item.a \o item.b
    <3> DEFINE both == item.a \o item.b
    <3>1. both \in Seq(0 .. 9) /\ words = DigitWords(both)
      BY <1>2, DigitWordsBoth, ConcatProperties, Zenon
    <3> HIDE DEF both, words
    <3>2. Digits(words) = both
      BY <3>1, DigitsReadBack, Zenon
    <3> QED BY <3>2, Zenon DEF both
  <2> HIDE DEF words
  <2> QED BY <2>1, Zenon DEF Understood
<1> QED
  <2>1. 6 \in 1 .. Rules - 1 /\ \A r \in 1 .. 6 - 1 : r \in 1 .. 5
    BY SMT DEF Rules
  <2> HIDE DEF words
  <2>2. Way(item, 6, Spoken(words))
    BY <1>1, <1>10, <1>12, <1>13, <1>14, <2>1, SpokenWay, Zenon
  <2> QED BY <2>2, Zenon

(* The figure, the mark, and the rest, for the rules that take one number. *)
LEMMA RowOfTwo ==
  ASSUME NEW x, NEW y
  PROVE  /\ Len(<<x, y>>) = 2 /\ 1 \in 1 .. 2 /\ 2 \in 1 .. 2 /\ 2 > 0 /\ 3 \notin 1 .. 2
         /\ <<x, y>>[1] = x /\ <<x, y>>[2] = y
BY SMT

LEMMA AllOfTwo ==
  ASSUME NEW t, Len(t) = 2, NEW x, Shows(t, 1, x), NEW y, Shows(t, 2, y)
  PROVE  \A i \in 1 .. Len(t) : t[i].w \in {x, y}
<1>1. \A i \in 1 .. 2 : i = 1 \/ i = 2
  BY SMT
<1> QED BY <1>1, Zenon DEF Shows

LEMMA RowOfFive ==
  ASSUME NEW x, NEW y, NEW z, NEW u, NEW v
  PROVE  LET t == <<x, y, z, u, v>> IN
         /\ Len(t) = 5 /\ 5 > 0 /\ 6 \notin 1 .. 5
         /\ 1 \in 1 .. 5 /\ 2 \in 1 .. 5 /\ 3 \in 1 .. 5 /\ 4 \in 1 .. 5 /\ 5 \in 1 .. 5
         /\ t[1] = x /\ t[2] = y /\ t[3] = z /\ t[4] = u /\ t[5] = v
BY SMT

LEMMA AllOfFive ==
  ASSUME NEW t, Len(t) = 5, NEW x, Shows(t, 1, x), NEW y, Shows(t, 2, y), NEW z, Shows(t, 3, z),
         NEW u, Shows(t, 4, u), NEW v, Shows(t, 5, v)
  PROVE  \A i \in 1 .. Len(t) : t[i].w \in {x, y, z, u, v}
<1>1. \A i \in 1 .. 5 : i = 1 \/ i = 2 \/ i = 3 \/ i = 4 \/ i = 5
  BY SMT
<1> QED BY <1>1, Zenon DEF Shows

LEMMA SevenFigures ==
  ASSUME NEW b \in Seq(0 .. 9), Len(b) = 7
  PROVE  /\ SubSeq(b, 1, 3) \in Seq(0 .. 9) /\ Len(SubSeq(b, 1, 3)) = 3
         /\ SubSeq(b, 4, 7) \in Seq(0 .. 9) /\ Len(SubSeq(b, 4, 7)) = 4
         /\ SubSeq(b, 1, 3) \o SubSeq(b, 4, 7) = b
<1>1. /\ \A k \in 1 .. 3 : k \in 1 .. Len(b)
      /\ \A k \in 4 .. 7 : k \in 1 .. Len(b)
  BY SMT
<1>2. /\ \A k \in 1 .. 3 : b[k] \in 0 .. 9
      /\ \A k \in 4 .. 7 : b[k] \in 0 .. 9
  BY <1>1, ElementOfSeq, Zenon
<1>3. SubSeq(b, 1, 3) \in Seq(0 .. 9) /\ Len(SubSeq(b, 1, 3)) = 3
  <2>1. SubSeq(b, 1, 3) \in Seq(0 .. 9) /\ Len(SubSeq(b, 1, 3)) = IF 1 <= 3 THEN 3 - 1 + 1 ELSE 0
    BY <1>2, SubSeqProperties
  <2> QED BY <2>1, SMT
<1>4. SubSeq(b, 4, 7) \in Seq(0 .. 9) /\ Len(SubSeq(b, 4, 7)) = 4
  <2>1. SubSeq(b, 4, 7) \in Seq(0 .. 9) /\ Len(SubSeq(b, 4, 7)) = IF 4 <= 7 THEN 7 - 4 + 1 ELSE 0
    BY <1>2, SubSeqProperties
  <2> QED BY <2>1, SMT
<1>5. SubSeq(b, 1, 3) \o SubSeq(b, 3 + 1, 7) = SubSeq(b, 1, 7)
  <2>1. 1 \in 1 .. Len(b) + 1 /\ 3 \in 1 - 1 .. Len(b) /\ 7 \in 3 .. Len(b)
    BY SMT
  <2> QED BY <2>1, ConcatAdjacentSubSeq, Zenon
<1>6. SubSeq(b, 1, 7) = b /\ 3 + 1 = 4
  BY SubSeqFull, SMT
<1> QED BY <1>3, <1>4, <1>5, <1>6, Zenon

LEMMA AreaWay ==
  ASSUME NEW item \in Item, item.kind = "area", Written(item)
  PROVE  \E own, mid : Way(item, own, mid)
<1> DEFINE local == SubSeq(item.b, 1, 3)
           line == SubSeq(item.b, 4, 7)
           t == <<N(item.a), Space, N(local), W("."), N(line)>>
           words == DigitWords(item.a) \o DigitWords(local) \o DigitWords(line)
<1>1. Typed(item) = t
  BY Zenon DEF Typed
<1>2. item.a \in Seq(0 .. 9) /\ item.b \in Seq(0 .. 9) /\ Len(item.a) = 3 /\ Len(item.b) = 7
  <2>1. item.a \in Seq(0 .. 9) /\ item.b \in Seq(0 .. 9)
    BY DEF Item
  <2>2. Len(item.a) = 3 /\ Len(item.b) = 7
    BY Zenon DEF Written
  <2> QED BY <2>1, <2>2, Zenon
<1>3. t \in Seq(Token)
  BY <1>1, <1>2, TypedType, Zenon
<1>4. /\ local \in Seq(0 .. 9) /\ Len(local) = 3 /\ line \in Seq(0 .. 9) /\ Len(line) = 4
      /\ local \o line = item.b
  BY <1>2, SevenFigures, Zenon
<1> HIDE DEF local, line
<1>5. /\ Len(t) = 5 /\ 5 > 0
      /\ 1 \in 1 .. 5 /\ 2 \in 1 .. 5 /\ 3 \in 1 .. 5 /\ 4 \in 1 .. 5 /\ 5 \in 1 .. 5
      /\ t[1] = N(item.a) /\ t[2] = Space /\ t[3] = N(local) /\ t[4] = W(".") /\ t[5] = N(line)
  BY RowOfFive, Zenon
<1> HIDE DEF t
<1>6. /\ Shows(t, 1, "") /\ Shows(t, 2, " ") /\ Shows(t, 3, "") /\ Shows(t, 4, ".")
      /\ Shows(t, 5, "")
      /\ Figures(t, 1, item.a) /\ Figures(t, 3, local) /\ Figures(t, 5, line)
  BY <1>5, Fields, Zenon DEF Shows, Figures
<1>7. NumAt(t, 1, {3}) /\ NumAt(t, 3, {3}) /\ NumAt(t, 5, {4})
  <2>1. Len(item.a) > 0 /\ Len(local) > 0 /\ Len(line) > 0
    BY <1>2, <1>4, SMT
  <2>2. Len(item.a) \in {3} /\ Len(local) \in {3} /\ Len(line) \in {4}
    BY <1>2, <1>4, Zenon
  <2> QED BY <1>2, <1>4, <1>6, <2>1, <2>2, FiguresAt, Zenon
<1>8. /\ 1 + 1 = 2 /\ 1 + 2 = 3 /\ 3 + 1 = 4 /\ 3 + 2 = 5 /\ 3 + 3 = 5 + 1 /\ 3 - 1 = 2
      /\ 1 + 5 - 3 = 3 /\ 1 + 5 - 1 = 5 /\ 1 + 5 = 5 + 1
  BY SMT
<1>9. WithArea(t, 1)
  <2>1. At(t, 3 + 1, {"-", "."}) /\ At(t, 1 + 1, {"-", ".", " "})
    BY <1>6, <1>8, ShowsAt, Zenon
  <2>2. Edge(t, 1) /\ Edge(t, 3 + 3)
    BY <1>3, <1>5, <1>8, FirstEdge, Ends, Zenon
  <2>3. Edge(t, 3)
    BY <1>6, <1>8, Zenon DEF Edge, Marks, Shows
  <2>4. NumAt(t, 3 + 2, {4})
    BY <1>7, <1>8, Zenon
  <2>5. ShortPhone(t, 1 + 2)
    BY <1>7, <1>8, <2>1, <2>2, <2>3, <2>4, Zenon DEF ShortPhone
  <2> QED BY <1>7, <2>1, <2>2, <2>5, Zenon DEF WithArea
<1>10. PhoneEnd(t, 1) = 1 + 5 /\ 1 + 5 = Len(t) + 1
  BY <1>5, <1>8, <1>9, Zenon DEF PhoneEnd
<1>11. SayPhone(t, 1) = Spoken(words)
  <2>1. t[1].d = item.a /\ t[3].d = local /\ t[5].d = line
    BY <1>6, Zenon DEF Figures
  <2>2. SayPhone(t, 1) = Spoken((IF WithArea(t, 1) THEN DigitWords(t[1].d) ELSE <<>>)
           \o DigitWords(t[PhoneEnd(t, 1) - 3].d) \o DigitWords(t[PhoneEnd(t, 1) - 1].d))
    BY Zenon DEF SayPhone
  <2>3. (IF WithArea(t, 1) THEN DigitWords(t[1].d) ELSE <<>>) = DigitWords(item.a)
    BY <1>9, <2>1, Zenon
  <2>4. PhoneEnd(t, 1) - 3 = 3 /\ PhoneEnd(t, 1) - 1 = 5
    BY <1>10, SMT
  <2> QED BY <2>1, <2>2, <2>3, <2>4, Zenon
<1>12. Expanded(t, 6) = Spoken(words)
  BY <1>3, <1>5, <1>10, <1>11, PhoneTakes, ExpandedIs, Zenon
<1>13. \A r \in 1 .. 5 : Expanded(t, r) = t
  <2>1. \A i \in 1 .. Len(t) : t[i].w \in {"", " ", "", ".", ""}
    BY <1>5, <1>6, AllOfFive, Zenon
  <2>2. \A r \in 1 .. 5 : r \in 1 .. 9 /\ (r = 1 \/ r = 2 \/ r = 3 \/ r = 4 \/ r = 5)
    BY SMT
  <2>3. \A r \in 1 .. 5 : {"", " ", "", ".", ""} \cap Keys(r) = {}
    BY <2>2, KeysAre, Zenon DEF ExtensionNames
  <2> QED BY <1>3, <2>1, <2>2, <2>3, NoKeyThere, Zenon
<1>14. words = DigitWords(item.a \o item.b) /\ item.a \o item.b \in Seq(0 .. 9) /\ Len(item.a \o item.b) > 0
  <2> DEFINE x == DigitWords(item.a)
             y == DigitWords(local)
             z == DigitWords(line)
  <2>1. DigitWords(local \o line) = y \o z /\ DigitWords(item.a \o item.b) = x \o DigitWords(item.b)
    BY <1>2, <1>4, DigitWordsBoth, Zenon
  <2>2. x \in Seq(Voice) /\ y \in Seq(Voice) /\ z \in Seq(Voice)
    <3>1. Len(item.a) > 0 /\ Len(local) > 0 /\ Len(line) > 0
      BY <1>2, <1>4, SMT
    <3> QED BY <1>2, <1>4, <3>1, DigitsVoiced, Zenon
  <2>3. words = x \o y \o z
    OBVIOUS
  <2> HIDE DEF x, y, z, words
  <2>4. x \o y \o z = x \o (y \o z)
    BY <2>2, SMT
  <2>5. words = DigitWords(item.a \o item.b)
    BY <1>4, <2>1, <2>3, <2>4, Zenon
  <2>6. item.a \o item.b \in Seq(0 .. 9) /\ Len(item.a \o item.b) > 0
    <3>1. Len(item.a) > 0
      BY <1>2, SMT
    <3>2. item.a \o item.b \in Seq(0 .. 9) /\ Len(item.a \o item.b) = Len(item.a) + Len(item.b)
      BY <1>2, ConcatProperties, Zenon
    <3> QED BY <1>2, <3>2, SMT
  <2> QED BY <2>5, <2>6, Zenon
<1> HIDE DEF words
<1>15. words \in Seq(Voice) /\ Len(words) > 0
  BY <1>14, DigitsVoiced, Zenon
<1>16. Understood(item, words)
  <2>1. Digits(words) = item.a \o item.b
    BY <1>14, DigitsReadBack, Zenon
  <2> QED BY <2>1, Zenon DEF Understood
<1> QED
  <2>1. 6 \in 1 .. Rules - 1 /\ \A r \in 1 .. 6 - 1 : r \in 1 .. 5
    BY SMT DEF Rules
  <2>2. Way(item, 6, Spoken(words))
    BY <1>1, <1>12, <1>13, <1>15, <1>16, <2>1, SpokenWay, Zenon
  <2> QED BY <2>2, Zenon
----------------------------------------------------------------------------
(* What is heard of the numbers that no other rule has taken.              *)

Piece(x) ==
  IF x.d # <<>> THEN NumberWords[Num(x.d)] ELSE IF x = Space THEN <<>> ELSE <<x.w>>

HeardFrom(f, t) ==
  /\ f[Len(t) + 1] = <<>>
  /\ \A i \in 1 .. Len(t) : f[i] \in Seq(Vocabulary) /\ f[i + 1] \in Seq(Vocabulary)
                              /\ f[i] = Piece(t[i]) \o f[i + 1]

LEMMA IntsHeard ==
  ASSUME NEW t \in Seq(Token), Len(t) > 0
  PROVE  \E f : HeardFrom(f, t) /\ f[1] = Heard(Sub(t, IntEnd, SayInt))
<1> DEFINE n == Len(t)
           end == [i \in 1 .. n |-> IntEnd(t, i)]
           say == [i \in 1 .. n |-> SayInt(t, i)]
<1>1. n \in Nat /\ \A i \in 1 .. n : t[i] \in Token
  BY ElementOfSeq, LenProperties, Zenon
<1>2. Sub(t, IntEnd, SayInt) = Replaced(t, end, say)
  BY DomainOfText, Zenon DEF Sub
<1>3. \A i \in 1 .. n : end[i] = IntEnd(t, i) /\ say[i] = SayInt(t, i)
  BY Zenon
<1> HIDE DEF end, say
<1>4. \A x \in Token : x.d \in Seq(0 .. 9)
  BY DEF Token
<1>5. ASSUME NEW i \in 1 .. n
      PROVE  /\ t[i].d # <<>> => end[i] = i + 1 /\ end[i] # 0
                                   /\ say[i] = Spoken(NumberWords[Num(t[i].d)])
             /\ t[i].d = <<>> => end[i] = 0
  <2>1. i + 1 # 0
    BY <1>1, SMT
  <2>2. t[i].d \in Seq(0 .. 9) /\ Len(t[i].d) \in Nat
    BY <1>1, <1>4, LenProperties, Zenon
  <2> QED BY <1>3, <2>1, <2>2, Zenon DEF IntEnd, SayInt, NumAt, In
<1>6. \A i \in 1 .. n : end[i] # 0 => Claims(t, i, end[i], say[i])
  <2> SUFFICES ASSUME NEW i \in 1 .. n, end[i] # 0 PROVE Claims(t, i, end[i], say[i])
    BY Zenon
  <2>1. i + 1 \in i + 1 .. n + 1 /\ end[i] = i + 1 /\ say[i] = Spoken(NumberWords[Num(t[i].d)])
    <3>1. i + 1 \in i + 1 .. n + 1
      BY <1>1, SMT
    <3> QED BY <1>5, <3>1, Zenon
  <2>2. NumberWords[Num(t[i].d)] \in Seq(Vocabulary) /\ Len(NumberWords[Num(t[i].d)]) > 0
    BY <1>1, <1>4, NumType, NumberSaid, Zenon
  <2> QED BY <2>1, <2>2, SaidIsTokens, Zenon DEF Claims
<1>7. Fits(t, end, say, Token)
  BY <1>1, <1>6, Zenon DEF Fits, Claims
<1>8. PICK from : Replaced(t, end, say) = from[1] /\ Passing(from, t, end, say)
  BY <1>7, ReplacedFunction, Zenon
<1>9. from[n + 1] = <<>>
  <2>1. n + 1 \in 1 .. n + 1 /\ n + 1 > n
    BY <1>1, SMT
  <2> QED BY <1>8, <2>1, Zenon DEF Passing
<1> DEFINE put(i) == IF t[i].d # <<>> THEN Spoken(NumberWords[Num(t[i].d)]) ELSE <<t[i]>>
<1>10. ASSUME NEW i \in 1 .. n PROVE from[i] = put(i) \o from[i + 1]
  <2>1. i \in 1 .. n + 1 /\ ~(i > n)
    BY <1>1, SMT
  <2>2. from[i] = IF end[i] = 0 THEN <<t[i]>> \o from[i + 1] ELSE say[i] \o from[end[i]]
    BY <1>8, <2>1, Zenon DEF Passing
  <2>3. CASE t[i].d # <<>>
    <3>1. end[i] = i + 1 /\ end[i] # 0 /\ say[i] = Spoken(NumberWords[Num(t[i].d)])
      BY <1>5, <2>3, Zenon
    <3> QED BY <2>2, <2>3, <3>1, Zenon
  <2>4. CASE t[i].d = <<>>
    <3>1. end[i] = 0
      BY <1>5, <2>4, Zenon
    <3> QED BY <2>2, <2>4, <3>1, Zenon
  <2> QED BY <2>3, <2>4, Zenon
<1>11. ASSUME NEW i \in 1 .. n PROVE put(i) \in Seq(Token) /\ Heard(put(i)) = Piece(t[i])
  <2>1. t[i] \in Token
    BY <1>1, Zenon
  <2>2. CASE t[i].d # <<>>
    <3> DEFINE words == NumberWords[Num(t[i].d)]
    <3>1. words \in Seq(Voice) /\ Len(words) > 0
      BY <1>4, <2>1, NumType, NumberVoiced, Zenon
    <3>2. put(i) = Spoken(words) /\ Piece(t[i]) = words
      BY <2>2, Zenon DEF Piece
    <3> HIDE DEF words
    <3> QED BY <3>1, <3>2, SpokenStays, Zenon
  <2>3. CASE t[i].d = <<>>
    <3>1. put(i) = <<t[i]>> /\ Piece(t[i]) = IF t[i] = Space THEN <<>> ELSE <<t[i].w>>
      BY <2>3, Zenon DEF Piece
    <3>2. <<t[i]>> \in Seq(Token)
      BY <2>1, SMT
    <3>3. Heard(<<t[i]>>) = IF t[i] = Space THEN <<>> ELSE <<t[i].w>>
      BY <2>1, HeardOne, Zenon
    <3> QED BY <3>1, <3>2, <3>3, Zenon
  <2> QED BY <2>2, <2>3, Zenon
<1> HIDE DEF put, n
<1> DEFINE S == {j \in Nat : j <= n => from[n + 1 - j] \in Seq(Token)}
<1>12. 0 \in S
  <2>1. n + 1 - 0 = n + 1 /\ 0 \in Nat
    BY <1>1, SMT
  <2>2. <<>> \in Seq(Token)
    OBVIOUS
  <2> QED BY <1>9, <2>1, <2>2, Zenon
<1>13. ASSUME NEW j \in Nat, j \in S PROVE j + 1 \in S
  <2>1. j + 1 \in Nat
    OBVIOUS
  <2> SUFFICES ASSUME j + 1 <= n PROVE from[n + 1 - (j + 1)] \in Seq(Token)
    BY <2>1, Zenon
  <2> DEFINE i == n + 1 - (j + 1)
  <2>2. j <= n /\ i \in 1 .. n /\ n + 1 - j = i + 1
    BY <1>1, SMT
  <2>3. from[i + 1] \in Seq(Token)
    BY <1>13, <2>2, Zenon
  <2> HIDE DEF i
  <2>4. put(i) \o from[i + 1] \in Seq(Token)
    <3>1. put(i) \in Seq(Token)
      BY <1>11, <2>2, Zenon
    <3> QED BY <2>3, <3>1, ConcatProperties, Zenon
  <2>5. from[i] \in Seq(Token)
    BY <1>10, <2>2, <2>4, Zenon
  <2> QED BY <2>5 DEF i
<1> HIDE DEF S
<1>14. Nat \subseteq S
  BY <1>12, <1>13, SetInduction
<1>15. ASSUME NEW i \in 1 .. n + 1 PROVE from[i] \in Seq(Token)
  <2>1. n + 1 - i \in Nat /\ n + 1 - i <= n /\ n + 1 - (n + 1 - i) = i
    BY <1>1, SMT
  <2>2. n + 1 - i \in S
    BY <1>14, <2>1, Zenon
  <2>3. n + 1 - i <= n => from[n + 1 - (n + 1 - i)] \in Seq(Token)
    BY <2>2, Zenon DEF S
  <2> QED BY <2>1, <2>3, Zenon
<1> DEFINE f == [i \in 1 .. n + 1 |-> Heard(from[i])]
<1>16. /\ \A i \in 1 .. n : i \in 1 .. n + 1 /\ i + 1 \in 1 .. n + 1
       /\ 1 \in 1 .. n + 1 /\ n + 1 \in 1 .. n + 1
  BY <1>1, SMT
<1>17. \A i \in 1 .. n + 1 : f[i] = Heard(from[i])
  BY Zenon
<1> HIDE DEF f
<1>18. ASSUME NEW i \in 1 .. n
       PROVE  /\ f[i] \in Seq(Vocabulary) /\ f[i + 1] \in Seq(Vocabulary)
              /\ f[i] = Piece(t[i]) \o f[i + 1]
  <2>1. from[i] \in Seq(Token) /\ from[i + 1] \in Seq(Token) /\ put(i) \in Seq(Token)
    BY <1>11, <1>15, <1>16, Zenon
  <2>2. f[i] = Heard(from[i]) /\ f[i + 1] = Heard(from[i + 1])
    BY <1>16, <1>17, Zenon
  <2>3. f[i] \in Seq(Vocabulary) /\ f[i + 1] \in Seq(Vocabulary)
    BY <2>1, <2>2, HeardBoth, Zenon
  <2>4. Heard(put(i) \o from[i + 1]) = Heard(put(i)) \o Heard(from[i + 1])
    BY <2>1, HeardBoth, Zenon
  <2>5. from[i] = put(i) \o from[i + 1] /\ Heard(put(i)) = Piece(t[i])
    BY <1>10, <1>11, Zenon
  <2> QED BY <2>2, <2>3, <2>4, <2>5, Zenon
<1>19. f[n + 1] = <<>>
  BY <1>9, <1>16, <1>17, HeardNone, Zenon
<1>20. f[1] = Heard(Sub(t, IntEnd, SayInt))
  BY <1>2, <1>8, <1>16, <1>17, Zenon
<1>21. HeardFrom(f, t)
  BY <1>18, <1>19, Zenon DEF HeardFrom, n
<1> QED BY <1>20, <1>21, Zenon
Short(t) == \A i \in 1 .. Len(t) : t[i].w # "." /\ Len(t[i].d) \in 0 .. 4

LEMMA OnlyInts ==
  ASSUME NEW t \in Seq(Token), Short(t)
  PROVE  Expanded(t, Rules) = Sub(t, IntEnd, SayInt)
<1>1. \A i : DecimalEnd(t, i) = 0
  BY Zenon DEF DecimalEnd, At, In, Short
<1>2. \A i : LongRunEnd(t, i) = 0
  <2>1. \A k \in 0 .. 4 : k \notin Nat \ 0 .. 4
    BY Zenon
  <2> QED BY <2>1, Zenon DEF LongRunEnd, NumAt, In, Short
<1>3. Sub(t, DecimalEnd, SayDecimal) = t
  BY <1>1, PassNone, DomainOfText, Zenon DEF Sub
<1>4. Sub(t, LongRunEnd, SayLongRun) = t
  BY <1>2, PassNone, DomainOfText, Zenon DEF Sub
<1>5. Expanded(t, Rules) = ExpandNumbers(t)
  BY ExpandedIs, Zenon DEF Rules
<1> QED BY <1>3, <1>4, <1>5, Zenon DEF ExpandNumbers

LEMMA SpokenFigureless ==
  ASSUME NEW words \in Seq(Voice), Len(words) > 0
  PROVE  Spoken(words) \in Seq(Token) /\ Figureless(Spoken(words))
<1>1. words \in Seq(Vocabulary)
  BY VoiceIsKnown, SeqMonotonic, Zenon
<1>2. Spoken(words) \in Seq(Clean) /\ Spoken(words) \in Seq(Token)
  BY <1>1, SpokenType, SeqCleanIsSeqToken, Zenon
<1>3. \A x \in Clean : x.d = <<>>
  BY DEF Clean
<1>4. \A i \in 1 .. Len(Spoken(words)) : Spoken(words)[i] \in Clean
  BY <1>2, ElementOfSeq, Zenon
<1> QED BY <1>2, <1>3, <1>4, Zenon DEF Figureless

LEMMA IntsStay ==
  ASSUME NEW t \in Seq(Token), Figureless(t)
  PROVE  Sub(t, LongRunEnd, SayLongRun) = t /\ Sub(t, IntEnd, SayInt) = t
<1>1. \A i : LongRunEnd(t, i) = 0 /\ IntEnd(t, i) = 0
  BY NoNumberThere, Zenon DEF LongRunEnd, IntEnd
<1>2. Sub(t, LongRunEnd, SayLongRun) = t
  BY <1>1, PassNone, DomainOfText, Zenon DEF Sub
<1>3. Sub(t, IntEnd, SayInt) = t
  BY <1>1, PassNone, DomainOfText, Zenon DEF Sub
<1> QED BY <1>2, <1>3, Zenon

LEMMA NumberPiece ==
  ASSUME NEW digits \in Seq(0 .. 9), Len(digits) > 0
  PROVE  Piece(N(digits)) = NumberWords[Num(digits)]
<1>1. digits # <<>>
  BY SaidIsSome, Zenon
<1> QED BY <1>1, Fields, Zenon DEF Piece

LEMMA WordPiece ==
  /\ Piece(Space) = <<>>
  /\ \A word : ~Silent(word) => Piece(W(word)) = <<word>>
<1>1. Space.d = <<>>
  BY Fields, Zenon
<1>2. ASSUME NEW word, ~Silent(word) PROVE W(word).d = <<>> /\ W(word).w = word /\ W(word) # Space
  BY <1>2, Fields, Zenon DEF Silent
<1> QED BY <1>1, <1>2, Zenon DEF Piece

LEMMA FewOrMany ==
  ASSUME NEW digits \in Seq(0 .. 9)
  PROVE  /\ Len(digits) > 4 => Len(digits) \in Nat \ 0 .. 4
         /\ ~(Len(digits) > 4) => Len(digits) \in 0 .. 4
<1> DEFINE n == Len(digits)
<1>1. n \in Nat
  BY LenProperties, Zenon
<1> HIDE DEF n
<1>2. (n > 4 => n \in Nat \ 0 .. 4) /\ (~(n > 4) => n \in 0 .. 4)
  BY <1>1, SMT
<1> QED BY <1>2 DEF n

LEMMA RowOfOne ==
  ASSUME NEW x
  PROVE  Len(<<x>>) = 1 /\ 1 \in 1 .. 1 /\ 1 > 0 /\ 2 \notin 1 .. 1 /\ <<x>>[1] = x
BY SMT

LEMMA AllOfOne ==
  ASSUME NEW t, Len(t) = 1, NEW x, Shows(t, 1, x)
  PROVE  \A i \in 1 .. Len(t) : t[i].w \in {x}
<1>1. \A i \in 1 .. 1 : i = 1
  BY SMT
<1> QED BY <1>1, Zenon DEF Shows

LEMMA RulesBefore ==
  /\ 9 \in 1 .. Rules - 1 /\ 9 \in 1 .. 9
  /\ \A r \in 1 .. 9 : r = 1 \/ r = 2 \/ r = 3 \/ r = 4 \/ r = 5 \/ r = 6 \/ r = 7 \/ r = 8 \/ r = 9
  /\ \A r \in 1 .. 9 - 1 : r \in 1 .. 9 /\ r # 9
  /\ \A r \in 9 + 1 .. Rules - 1 : FALSE
BY SMT DEF Rules

LEMMA NumberWay ==
  ASSUME NEW item \in Item, item.kind = "number", Written(item)
  PROVE  \E own, mid : Way(item, own, mid)
<1> DEFINE t == <<N(item.a)>>
<1>1. Typed(item) = t
  BY Zenon DEF Typed
<1>2. item.a \in Seq(0 .. 9) /\ Len(item.a) > 0
  <2>1. item.a \in Seq(0 .. 9)
    BY DEF Item
  <2> QED BY <2>1, Zenon DEF Written
<1>3. t \in Seq(Token)
  <2>1. item.kind = "area" => Len(item.b) = 7
    BY Zenon
  <2> QED BY <1>1, <2>1, TypedType, Zenon
<1>4. Len(t) = 1 /\ t[1] = N(item.a) /\ 1 \in 1 .. 1 /\ 1 > 0 /\ 2 \notin 1 .. 1
  BY RowOfOne, Zenon
<1> HIDE DEF t
<1>5. Shows(t, 1, "") /\ Figures(t, 1, item.a)
  BY <1>4, Fields, Zenon DEF Shows, Figures
<1>6. \A r \in 1 .. 9 : Expanded(t, r) = t
  <2>1. \A i \in 1 .. Len(t) : t[i].w \in {""}
    BY <1>4, <1>5, AllOfOne, Zenon
  <2>2. DOMAIN Abbreviations = {"mr", "dr", "dept"}
    BY SMT DEF Abbreviations
  <2>3. \A r \in 1 .. 9 : {""} \cap Keys(r) = {}
    BY <2>2, RulesBefore, KeysAre, Zenon DEF ExtensionNames
  <2> QED BY <1>3, <2>1, <2>3, NoKeyThere, Zenon
<1>7. CASE Len(item.a) > 4
  <2> DEFINE words == DigitWords(item.a)
  <2>1. Len(item.a) \in Nat \ 0 .. 4
    BY <1>2, <1>7, FewOrMany, Zenon
  <2>2. NumAt(t, 1, Nat \ 0 .. 4)
    BY <1>2, <1>5, <2>1, FiguresAt, Zenon
  <2>3. LongRunEnd(t, 1) = Len(t) + 1
    BY <1>3, <1>4, <2>2, FirstEdge, Ends, Zenon DEF LongRunEnd
  <2>4. SayLongRun(t, 1) = Spoken(words)
    BY <1>5, Zenon DEF SayLongRun, Figures
  <2>5. \A i : DecimalEnd(t, i) = 0
    <3>1. \A i : ~At(t, i, {"."})
      <4>1. Uses(t, {""})
        BY <1>4, <1>5, AllOfOne, Zenon DEF Uses
      <4>2. {"."} \cap {""} = {}
        BY Zenon
      <4> QED BY <4>1, <4>2, NotThere, Zenon
    <3> QED BY <3>1, Zenon DEF DecimalEnd
  <2>6. Sub(t, DecimalEnd, SayDecimal) = t
    BY <1>3, <2>5, PassNone, DomainOfText, Zenon DEF Sub
  <2>7. Sub(t, LongRunEnd, SayLongRun) = Spoken(words)
    BY <1>3, <1>4, <2>3, <2>4, LongRunTakes, Zenon
  <2>8. words \in Seq(Voice) /\ Len(words) > 0 /\ Digits(words) = item.a
    BY <1>2, DigitsVoiced, DigitsReadBack, Zenon
  <2> HIDE DEF words
  <2>9. Expanded(t, Rules) = Spoken(words)
    <3>1. Expanded(t, Rules) = ExpandNumbers(t)
      BY ExpandedIs, Zenon DEF Rules
    <3>2. Sub(Spoken(words), IntEnd, SayInt) = Spoken(words)
      BY <2>8, SpokenFigureless, IntsStay, Zenon
    <3> QED BY <2>6, <2>7, <3>1, <3>2, Zenon DEF ExpandNumbers
  <2>10. Understood(item, words)
    BY <1>7, <2>8, Zenon DEF Understood
  <2>11. Way(item, 9, Typed(item))
    BY <1>1, <1>6, <2>8, <2>9, <2>10, LateWay, Zenon
  <2> QED BY <2>11, Zenon
<1>8. CASE ~(Len(item.a) > 4)
  <2>1. Short(t)
    <3>1. Len(item.a) \in 0 .. 4
      BY <1>2, <1>8, FewOrMany, Zenon
    <3>2. \A i \in 1 .. 1 : i = 1
      BY SMT
    <3>3. t[1].w # "." /\ t[1].d = item.a
      BY <1>5, Zenon DEF Shows, Figures
    <3> QED BY <1>4, <3>1, <3>2, <3>3, Zenon DEF Short
  <2>2. PICK f : HeardFrom(f, t) /\ f[1] = Heard(Sub(t, IntEnd, SayInt))
    BY <1>3, <1>4, IntsHeard, Zenon
  <2> DEFINE words == NumberWords[Num(item.a)]
  <2>3. f[1] = words \o <<>>
    <3>1. f[1] = Piece(t[1]) \o f[1 + 1] /\ f[1 + 1] = <<>>
      BY <1>4, <2>2, Zenon DEF HeardFrom
    <3> QED BY <1>2, <1>4, <3>1, NumberPiece, Zenon
  <2>4. words \in Seq(Voice) /\ Value(words) = Num(item.a)
    BY <1>2, NumType, NumberVoiced, NumbersReadBack, Zenon
  <2> HIDE DEF words
  <2>5. Heard(Expanded(t, Rules)) = words
    BY <1>3, <2>1, <2>2, <2>3, <2>4, OnlyInts, ConcatEmptySeq, Zenon
  <2>6. Understood(item, words)
    BY <1>8, <2>4, Zenon DEF Understood
  <2>7. Way(item, 9, t)
    BY <1>1, <1>6, <2>5, <2>6, RulesBefore, Zenon DEF Way
  <2> QED BY <2>7, Zenon
<1> QED BY <1>7, <1>8, Zenon
(* What ordinal_to_words says is understood: its last word is that of one  *)
(* cardinal only, and with it the words are those of the number.           *)
THEOREM OrdinalsReadBack ==
  \A n \in Nat : Value(Front(OrdinalWords(n)) \o <<Cardinal(Last(OrdinalWords(n)))>>) = n
<1> SUFFICES ASSUME NEW n \in Nat
             PROVE  Value(Front(OrdinalWords(n)) \o <<Cardinal(Last(OrdinalWords(n)))>>) = n
  OBVIOUS
<1> DEFINE words == NumberWords[n]
           said == OrdinalWords(n)
           begin == Front(words)
           last == Last(words)
<1>1. words \in Seq(NumberVocabulary) /\ Len(words) > 0
  BY NumberWordsType, Zenon DEF WordSeq
<1>2. Closing(said, begin, Ordinal(last))
  BY Zenon DEF OrdinalWords, Closing
<1>3. Value(words) = n
  BY NumbersReadBack, Zenon
<1> HIDE DEF words, said
<1>4. last \in NumberVocabulary /\ begin \in Seq(NumberVocabulary) /\ begin \o <<last>> = words
  <2>1. last \in NumberVocabulary /\ begin \in Seq(NumberVocabulary)
    BY <1>1, SMT DEF Front, Last
  <2>2. begin \o <<last>> = words
    BY <1>1, SMT DEF Front, Last
  <2> QED BY <2>1, <2>2, Zenon
<1> HIDE DEF last, begin
<1>5. Ordinal(last) \in Voice /\ begin \in Seq(Voice)
  <2>1. NumberVocabulary \subseteq Voice /\ Ordinal(last) \in Voice
    BY <1>4, Zenon DEF Voice
  <2> QED BY <1>4, <2>1, SeqMonotonic, Zenon
<1>6. Last(said) = Ordinal(last) /\ Front(said) = begin
  BY <1>2, <1>5, LastOf, Zenon
<1>7. Cardinal(Ordinal(last)) = last
  <2>1. \A x \in NumberVocabulary : Ordinal(x) = Ordinal(last) => x = last
    BY <1>4, CardinalsAre, OrdinalsDiffer, Zenon
  <2> QED BY <1>4, <2>1, Zenon DEF Cardinal
<1>8. Value(Front(said) \o <<Cardinal(Last(said))>>) = n
  BY <1>3, <1>4, <1>6, <1>7, Zenon
<1> QED BY <1>8 DEF said

LEMMA OrdinalWay ==
  ASSUME NEW item \in Item, item.kind = "ordinal", Written(item)
  PROVE  \E own, mid : Way(item, own, mid)
<1> DEFINE t == <<N(item.a), W("th")>>
           words == OrdinalWords(Num(item.a))
<1>1. Typed(item) = t
  BY Zenon DEF Typed
<1>2. item.a \in Seq(0 .. 9) /\ Len(item.a) > 0 /\ Len(item.a) \in 1 .. 4
  <2>1. item.a \in Seq(0 .. 9)
    BY DEF Item
  <2>2. Len(item.a) > 0 /\ Len(item.a) <= 4 /\ 4 \in Nat
    BY Zenon DEF Written
  <2> QED BY <2>1, <2>2, SomeFigures, Zenon
<1>3. t \in Seq(Token)
  <2>1. item.kind = "area" => Len(item.b) = 7
    BY Zenon
  <2> QED BY <1>1, <2>1, TypedType, Zenon
<1>4. /\ Len(t) = 2 /\ 1 \in 1 .. 2 /\ 2 \in 1 .. 2 /\ 2 > 0
      /\ t[1] = N(item.a) /\ t[2] = W("th")
  BY RowOfTwo, Zenon
<1> HIDE DEF t
<1>5. Shows(t, 1, "") /\ Shows(t, 2, "th") /\ Figures(t, 1, item.a)
  BY <1>4, Fields, Zenon DEF Shows, Figures
<1>6. NumAt(t, 1, 1 .. 4)
  BY <1>2, <1>5, FiguresAt, Zenon
<1>7. 1 + 1 = 2 /\ 1 + 2 = 2 + 1 /\ 1 + 2 # 0
  BY SMT
<1>8. OrdinalEnd(t, 1) = 1 + 2 /\ 1 + 2 = Len(t) + 1
  <2>1. Edge(t, 1) /\ Edge(t, 1 + 2)
    BY <1>3, <1>4, <1>7, FirstEdge, Ends, Zenon
  <2>2. At(t, 1 + 1, {"st", "nd", "rd", "th"})
    BY <1>5, <1>7, ShowsAt, Zenon
  <2> QED BY <1>4, <1>6, <1>7, <2>1, <2>2, Zenon DEF OrdinalEnd
<1>9. SayOrdinal(t, 1) = Spoken(words)
  BY <1>5, Zenon DEF SayOrdinal, Figures
<1>10. Expanded(t, 8) = Spoken(words)
  BY <1>3, <1>4, <1>8, <1>9, OrdinalTakes, ExpandedIs, Zenon
<1>11. \A r \in 1 .. 7 : Expanded(t, r) = t
  <2>1. \A i \in 1 .. Len(t) : t[i].w \in {"", "th"}
    BY <1>4, <1>5, AllOfTwo, Zenon
  <2>2. \A r \in 1 .. 7 : r \in 1 .. 9 /\ (r = 1 \/ r = 2 \/ r = 3 \/ r = 4 \/ r = 5 \/ r = 6 \/ r = 7)
    BY SMT
  <2>3. \A r \in 1 .. 7 : {"", "th"} \cap Keys(r) = {}
    BY <2>2, KeysAre, Zenon DEF ExtensionNames
  <2> QED BY <1>3, <2>1, <2>2, <2>3, NoKeyThere, Zenon
<1>12. words \in Seq(Voice) /\ Len(words) > 0
  BY <1>2, NumType, OrdinalVoiced, Zenon
<1>13. Value(Front(words) \o <<Cardinal(Last(words))>>) = Num(item.a)
  BY <1>2, NumType, OrdinalsReadBack, Zenon
<1> HIDE DEF words
<1>14. Understood(item, words)
  BY <1>13, Zenon DEF Understood
<1> QED
  <2>1. 8 \in 1 .. Rules - 1 /\ \A r \in 1 .. 8 - 1 : r \in 1 .. 7
    BY SMT DEF Rules
  <2>2. Way(item, 8, Spoken(words))
    BY <1>1, <1>10, <1>11, <1>12, <1>14, <2>1, SpokenWay, Zenon
  <2> QED BY <2>2, Zenon

LEMMA NoPhone ==
  ASSUME NEW t \in Seq(Token),
         \A i : ~(NumAt(t, i, {3}) /\ At(t, i + 1, {"-", "."}) /\ NumAt(t, i + 2, {4}))
  PROVE  Expanded(t, 6) = t
<1>1. \A i : PhoneEnd(t, i) = 0
  BY Zenon DEF PhoneEnd, WithArea, ShortPhone
<1>2. Sub(t, PhoneEnd, SayPhone) = t
  BY <1>1, PassNone, DomainOfText, Zenon DEF Sub
<1> QED BY <1>2, ExpandedIs, Zenon

LEMMA NoPhoneOfThree ==
  ASSUME NEW t \in Seq(Token), Len(t) = 3, t[2].d = <<>>, ~(Len(t[1].d) = 3 /\ Len(t[3].d) = 4)
  PROVE  Expanded(t, 6) = t
<1>1. /\ \A i \in 1 .. 3 : i = 1 \/ i = 2 \/ i = 3
      /\ 3 + 2 \notin 1 .. 3 /\ 1 + 2 = 3
  BY SMT
<1>2. \A i : ~(NumAt(t, i, {3}) /\ NumAt(t, i + 2, {4}))
  BY <1>1, Zenon DEF NumAt, In
<1> QED BY <1>2, NoPhone, Zenon

LEMMA DecimalWay ==
  ASSUME NEW item \in Item, item.kind = "decimal", Written(item)
  PROVE  \E own, mid : Way(item, own, mid)
<1> DEFINE t == <<N(item.a), W("."), N(item.b)>>
           words == DecimalWords(item.a, item.b)
<1>1. Typed(item) = t
  BY Zenon DEF Typed
<1>2. /\ item.a \in Seq(0 .. 9) /\ Len(item.a) > 0 /\ item.b \in Seq(0 .. 9) /\ Len(item.b) > 0
      /\ ~(Len(item.a) = 3 /\ Len(item.b) = 4)
  <2>1. item.a \in Seq(0 .. 9) /\ item.b \in Seq(0 .. 9)
    BY DEF Item
  <2>2. Len(item.a) > 0 /\ Len(item.b) > 0 /\ ~(Len(item.a) = 3 /\ Len(item.b) = 4)
    BY Zenon DEF Written
  <2> QED BY <2>1, <2>2, Zenon
<1>3. t \in Seq(Token)
  <2>1. item.kind = "area" => Len(item.b) = 7
    BY Zenon
  <2> QED BY <1>1, <2>1, TypedType, Zenon
<1>4. /\ Len(t) = 3 /\ t[1] = N(item.a) /\ t[2] = W(".") /\ t[3] = N(item.b)
      /\ 1 \in 1 .. 3 /\ 2 \in 1 .. 3 /\ 3 \in 1 .. 3 /\ 3 > 0
  BY RowOfThree, Zenon
<1> HIDE DEF t
<1>5. /\ Shows(t, 1, "") /\ Shows(t, 2, ".") /\ Shows(t, 3, "") /\ t[2].d = <<>>
      /\ Figures(t, 1, item.a) /\ Figures(t, 3, item.b)
  BY <1>4, Fields, Zenon DEF Shows, Figures
<1>6. NumAt(t, 1, Nat) /\ NumAt(t, 3, Nat)
  <2>1. Len(item.a) \in Nat /\ Len(item.b) \in Nat
    BY <1>2, LenProperties, Zenon
  <2> QED BY <1>2, <1>5, <2>1, FiguresAt, Zenon
<1>7. 1 + 1 = 2 /\ 1 + 2 = 3 /\ 1 + 3 = 3 + 1
  BY SMT
<1>8. DecimalEnd(t, 1) = Len(t) + 1
  <2>1. At(t, 1 + 1, {"."})
    BY <1>5, <1>7, ShowsAt, Zenon
  <2>2. Edge(t, 1) /\ Edge(t, 1 + 3)
    BY <1>3, <1>4, <1>7, FirstEdge, Ends, Zenon
  <2>3. NumAt(t, 1 + 2, Nat)
    BY <1>6, <1>7, Zenon
  <2>4. DecimalEnd(t, 1) = 1 + 3
    BY <1>6, <2>1, <2>2, <2>3, Zenon DEF DecimalEnd
  <2> QED BY <1>4, <1>7, <2>4, Zenon
<1>9. SayDecimal(t, 1) = Spoken(words)
  BY <1>5, <1>7, Zenon DEF SayDecimal, Figures
<1>10. Sub(t, DecimalEnd, SayDecimal) = Spoken(words)
  BY <1>3, <1>4, <1>8, <1>9, DecimalTakes, Zenon
<1>11. \A r \in 1 .. 9 : Expanded(t, r) = t
  <2>1. \A i \in 1 .. Len(t) : t[i].w \in {"", ".", ""}
    BY <1>4, <1>5, AllOfThree, Zenon
  <2>2. DOMAIN Abbreviations = {"mr", "dr", "dept"}
    BY SMT DEF Abbreviations
  <2>3. \A r \in 1 .. 9 : r # 6 => {"", ".", ""} \cap Keys(r) = {}
    BY <2>2, RulesBefore, KeysAre, Zenon DEF ExtensionNames
  <2>4. Expanded(t, 6) = t
    BY <1>2, <1>3, <1>4, <1>5, NoPhoneOfThree, Zenon DEF Figures
  <2> QED BY <1>3, <2>1, <2>3, <2>4, NoKeyThere, Zenon
<1>12. words \in Seq(Voice) /\ Len(words) > 0
  BY <1>2, DecimalVoiced, Zenon
<1>13. /\ Says(words, "point") /\ Value(Until(words, "point")) = Num(item.a)
       /\ Digits(Since(words, "point")) = item.b
  BY <1>2, DecimalsReadBack, Zenon
<1> HIDE DEF words
<1>14. Understood(item, words)
  BY <1>13, Zenon DEF Understood
<1>15. Expanded(t, Rules) = Spoken(words)
  <2>1. Expanded(t, Rules) = ExpandNumbers(t)
    BY ExpandedIs, Zenon DEF Rules
  <2>2. Sub(Spoken(words), LongRunEnd, SayLongRun) = Spoken(words)
        /\ Sub(Spoken(words), IntEnd, SayInt) = Spoken(words)
    BY <1>12, SpokenFigureless, IntsStay, Zenon
  <2> QED BY <1>10, <2>1, <2>2, Zenon DEF ExpandNumbers
<1> QED
  <2>1. Way(item, 9, Typed(item))
    BY <1>1, <1>11, <1>12, <1>14, <1>15, LateWay, Zenon
  <2> QED BY <2>1, Zenon
(* A number, a word that is none of a number's, and what follows it.       *)
LEMMA MarkedNumber ==
  ASSUME NEW digits \in Seq(0 .. 9), NEW word \in Vocabulary \ NumberVocabulary,
         NEW r \in Seq(Vocabulary), NEW heard,
         heard = NumberWords[Num(digits)] \o (<<word>> \o r)
  PROVE  Says(heard, word) /\ Value(Until(heard, word)) = Num(digits) /\ Since(heard, word) = r
<1> DEFINE s == NumberWords[Num(digits)]
<1>1. s \in Seq(NumberVocabulary) /\ s \in Seq(Vocabulary) /\ Len(s) > 0 /\ Value(s) = Num(digits)
  BY NumType, NumberWordsBegin, NumberSaid, NumbersReadBack, Zenon
<1>2. \A k \in 1 .. Len(s) : s[k] # word
  <2>1. \A k \in 1 .. Len(s) : s[k] \in NumberVocabulary
    BY <1>1, ElementOfSeq, Zenon
  <2> QED BY <2>1, Zenon
<1>3. heard = s \o (<<word>> \o r)
  OBVIOUS
<1> HIDE DEF s
<1>4. word \in Vocabulary /\ <<word>> \in Seq(Vocabulary)
  BY FirstAndRest, Zenon
<1>5. heard = s \o <<word>> \o r
  <2> DEFINE u == <<word>>
  <2>1. u \in Seq(Vocabulary)
    BY <1>4
  <2>2. heard = s \o (u \o r)
    BY <1>3
  <2> HIDE DEF u
  <2>3. (s \o u) \o r = s \o (u \o r)
    BY <1>1, <2>1, ConcatAssociative
  <2>4. heard = (s \o u) \o r
    BY <2>2, <2>3
  <2> QED BY <2>4 DEF u
<1>6. /\ Says(s \o <<word>> \o r, word) /\ Until(s \o <<word>> \o r, word) = s
      /\ Since(s \o <<word>> \o r, word) = r
  BY <1>1, <1>2, <1>4, SplitAt, Zenon
<1> QED BY <1>1, <1>5, <1>6, Zenon

LEMMA NotOfNumbers ==
  {"to", ":"} \subseteq Vocabulary \ NumberVocabulary
<1>1. "to" \in Vocabulary /\ ":" \in Vocabulary
  BY Zenon DEF Vocabulary, WordsSaid, WordsTyped, Voice
<1>2. "to" \notin CardinalNames /\ ":" \notin CardinalNames
  BY Zenon DEF CardinalNames
<1> QED BY <1>1, <1>2, CardinalsAre, Zenon

LEMMA RangeHeard ==
  ASSUME NEW a \in Seq(0 .. 9), NEW b \in Seq(0 .. 9), Len(a) \in 1 .. 2, Len(b) \in 1 .. 2,
         NEW mid, mid = <<N(a), Space, W("to"), Space, N(b)>>, mid \in Seq(Token)
  PROVE  LET heard == Heard(Expanded(mid, Rules))
         IN Says(heard, "to") /\ Value(Until(heard, "to")) = Num(a)
              /\ Value(Since(heard, "to")) = Num(b)
<1>1. /\ Len(mid) = 5 /\ 5 > 0
      /\ 1 \in 1 .. 5 /\ 2 \in 1 .. 5 /\ 3 \in 1 .. 5 /\ 4 \in 1 .. 5 /\ 5 \in 1 .. 5
      /\ mid[1] = N(a) /\ mid[2] = Space /\ mid[3] = W("to") /\ mid[4] = Space /\ mid[5] = N(b)
  BY RowOfFive, Zenon
<1>2. Short(mid)
  <2>1. \A i \in 1 .. 5 : i = 1 \/ i = 2 \/ i = 3 \/ i = 4 \/ i = 5
    BY SMT
  <2>2. Len(<<>>) \in 0 .. 4 /\ \A n \in 1 .. 2 : n \in 0 .. 4
    BY SMT
  <2>3. Space.w # "." /\ W("to").w # "." /\ N(a).w # "." /\ N(b).w # "."
    BY Fields, Zenon
  <2>4. Len(Space.d) \in 0 .. 4 /\ Len(W("to").d) \in 0 .. 4 /\ Len(N(a).d) \in 0 .. 4
        /\ Len(N(b).d) \in 0 .. 4
    BY <2>2, Fields, Zenon
  <2> QED BY <1>1, <2>1, <2>3, <2>4, Zenon DEF Short
<1>3. PICK f : HeardFrom(f, mid) /\ f[1] = Heard(Sub(mid, IntEnd, SayInt))
  BY <1>1, IntsHeard, Zenon
<1>4. 1 + 1 = 2 /\ 2 + 1 = 3 /\ 3 + 1 = 4 /\ 4 + 1 = 5 /\ 5 + 1 = 6
  BY SMT
<1>5. /\ f[1] = Piece(mid[1]) \o f[2] /\ f[2] = Piece(mid[2]) \o f[3]
      /\ f[3] = Piece(mid[3]) \o f[4] /\ f[4] = Piece(mid[4]) \o f[5]
      /\ f[5] = Piece(mid[5]) \o f[6] /\ f[6] = <<>>
      /\ f[3] \in Seq(Vocabulary) /\ f[5] \in Seq(Vocabulary)
  BY <1>1, <1>3, <1>4, Zenon DEF HeardFrom
<1>6. Len(a) > 0 /\ Len(b) > 0
  <2>1. \A n \in 1 .. 2 : n > 0
    BY SMT
  <2> QED BY <2>1, Zenon
<1>7. /\ Piece(mid[1]) = NumberWords[Num(a)] /\ Piece(mid[2]) = <<>>
      /\ Piece(mid[3]) = <<"to">> /\ Piece(mid[4]) = <<>> /\ Piece(mid[5]) = NumberWords[Num(b)]
  <2>1. ~Silent("to")
    BY Zenon DEF Silent
  <2> QED BY <1>1, <1>6, <2>1, NumberPiece, WordPiece, Zenon
<1>8. f[5] = NumberWords[Num(b)] /\ Value(f[5]) = Num(b)
  <2>1. NumberWords[Num(b)] \in Seq(Voice) /\ Value(NumberWords[Num(b)]) = Num(b)
    BY NumType, NumberVoiced, NumbersReadBack, Zenon
  <2> QED BY <1>5, <1>7, <2>1, ConcatEmptySeq, Zenon
<1>9. f[4] = f[5] /\ f[2] = f[3]
  BY <1>5, <1>7, ConcatEmptySeq, Zenon
<1>10. f[1] = NumberWords[Num(a)] \o (<<"to">> \o f[5])
  BY <1>5, <1>7, <1>9, Zenon
<1>11. Heard(Expanded(mid, Rules)) = f[1]
  BY <1>2, <1>3, OnlyInts, Zenon
<1>12. Says(f[1], "to") /\ Value(Until(f[1], "to")) = Num(a) /\ Since(f[1], "to") = f[5]
  BY <1>5, <1>10, NotOfNumbers, MarkedNumber, Zenon
<1> QED BY <1>8, <1>11, <1>12, Zenon

LEMMA RangeWay ==
  ASSUME NEW item \in Item, item.kind = "range", Written(item)
  PROVE  \E own, mid : Way(item, own, mid)
<1> DEFINE t == <<N(item.a), W("-"), N(item.b)>>
           mid == <<N(item.a), Space, W("to"), Space, N(item.b)>>
<1>1. Typed(item) = t
  BY Zenon DEF Typed
<1>2. /\ item.a \in Seq(0 .. 9) /\ Len(item.a) > 0 /\ Len(item.a) \in 1 .. 2
      /\ item.b \in Seq(0 .. 9) /\ Len(item.b) > 0 /\ Len(item.b) \in 1 .. 2
  <2>1. item.a \in Seq(0 .. 9) /\ item.b \in Seq(0 .. 9)
    BY DEF Item
  <2>2. Len(item.a) > 0 /\ Len(item.a) <= 2 /\ 2 \in Nat /\ Len(item.b) \in 1 .. 2
    BY Zenon DEF Written
  <2>3. Len(item.b) > 0
    BY <2>2, SMT
  <2> QED BY <2>1, <2>2, <2>3, SomeFigures, Zenon
<1>3. t \in Seq(Token)
  <2>1. item.kind = "area" => Len(item.b) = 7
    BY Zenon
  <2> QED BY <1>1, <2>1, TypedType, Zenon
<1>4. /\ Len(t) = 3 /\ t[1] = N(item.a) /\ t[2] = W("-") /\ t[3] = N(item.b)
      /\ 1 \in 1 .. 3 /\ 2 \in 1 .. 3 /\ 3 \in 1 .. 3 /\ 3 > 0
  BY RowOfThree, Zenon
<1>5. mid = <<N(item.a), Space, W("to"), Space, N(item.b)>>
  OBVIOUS
<1> HIDE DEF t, mid
<1>6. /\ Shows(t, 1, "") /\ Shows(t, 2, "-") /\ Shows(t, 3, "") /\ t[2].d = <<>>
      /\ Figures(t, 1, item.a) /\ Figures(t, 3, item.b)
  BY <1>4, Fields, Zenon DEF Shows, Figures
<1>7. NumAt(t, 1, 1 .. 2) /\ NumAt(t, 3, 1 .. 2)
  BY <1>2, <1>6, FiguresAt, Zenon
<1>8. 1 + 1 = 2 /\ 2 + 1 = 3 /\ (3 + 1) - 1 = 3
  BY SMT
<1>9. RangeEnd(t, 1) = 3 + 1
  <2>1. "-" \notin {" "} /\ "" \notin {" "}
    BY Zenon
  <2>2. \A j : Shows(t, j, "-") => After(t, j, {" "}) = j
    BY <2>1, AfterNone, Zenon
  <2>3. \A j : Shows(t, j, "") => After(t, j, {" "}) = j
    BY <2>1, AfterNone, Zenon
  <2>4. At(t, 2, {"-"}) /\ Edge(t, 1) /\ Edge(t, 3 + 1)
    BY <1>3, <1>4, <1>6, ShowsAt, Ends, Zenon
  <2> QED BY <1>6, <1>7, <1>8, <2>2, <2>3, <2>4, Zenon DEF RangeEnd
<1>10. SayRange(t, 1) = mid
  BY <1>4, <1>5, <1>8, <1>9, Zenon DEF SayRange
<1>11. Expanded(t, 7) = mid
  BY <1>3, <1>4, <1>9, <1>10, RangeTakes, ExpandedIs, Zenon
<1>12. \A r \in 1 .. 6 : Expanded(t, r) = t
  <2>1. \A i \in 1 .. Len(t) : t[i].w \in {"", "-", ""}
    BY <1>4, <1>6, AllOfThree, Zenon
  <2>2. \A r \in 1 .. 6 : r \in 1 .. 9 /\ (r = 1 \/ r = 2 \/ r = 3 \/ r = 4 \/ r = 5 \/ r = 6)
    BY SMT
  <2>3. \A r \in 1 .. 6 : r # 6 => {"", "-", ""} \cap Keys(r) = {}
    BY <2>2, KeysAre, Zenon DEF ExtensionNames
  <2>4. Expanded(t, 6) = t
    <3>1. ~(Len(item.a) = 3)
      <4>1. \A n \in 1 .. 2 : n # 3
        BY SMT
      <4> QED BY <1>2, <4>1, Zenon
    <3> QED BY <1>3, <1>4, <1>6, <3>1, NoPhoneOfThree, Zenon DEF Figures
  <2> QED BY <1>3, <2>1, <2>2, <2>3, <2>4, NoKeyThere, Zenon
<1>13. mid \in Seq(Token)
  <2>1. 7 \in 1 .. Rules
    BY SMT DEF Rules
  <2> QED BY <1>3, <1>11, <2>1, ExpandedType, Zenon
<1>14. \A r \in 8 .. Rules - 1 : Expanded(mid, r) = mid
  <2>1. \A i \in 1 .. Len(mid) : mid[i].w \in {"", " ", "to", " ", ""}
    <3>1. /\ Len(mid) = 5 /\ 1 \in 1 .. 5 /\ 2 \in 1 .. 5 /\ 3 \in 1 .. 5 /\ 4 \in 1 .. 5 /\ 5 \in 1 .. 5
          /\ mid[1] = N(item.a) /\ mid[2] = Space /\ mid[3] = W("to") /\ mid[4] = Space
          /\ mid[5] = N(item.b)
      BY <1>5, RowOfFive, Zenon
    <3>2. Shows(mid, 1, "") /\ Shows(mid, 2, " ") /\ Shows(mid, 3, "to") /\ Shows(mid, 4, " ")
            /\ Shows(mid, 5, "")
      BY <3>1, Fields, Zenon DEF Shows
    <3> QED BY <3>1, <3>2, AllOfFive, Zenon
  <2>2. \A r \in 8 .. Rules - 1 : r \in 1 .. 9 /\ (r = 8 \/ r = 9)
    BY SMT DEF Rules
  <2>3. DOMAIN Abbreviations = {"mr", "dr", "dept"}
    BY SMT DEF Abbreviations
  <2>4. \A r \in 8 .. Rules - 1 : {"", " ", "to", " ", ""} \cap Keys(r) = {}
    BY <2>2, <2>3, KeysAre, Zenon
  <2> QED BY <1>13, <2>1, <2>2, <2>4, NoKeyThere, Zenon
<1>15. Understood(item, Heard(Expanded(mid, Rules)))
  <2> DEFINE heard == Heard(Expanded(mid, Rules))
  <2>1. Says(heard, "to") /\ Value(Until(heard, "to")) = Num(item.a)
          /\ Value(Since(heard, "to")) = Num(item.b)
    BY <1>2, <1>5, <1>13, RangeHeard, Zenon
  <2> HIDE DEF heard
  <2>2. Understood(item, heard)
    BY <2>1, Zenon DEF Understood
  <2> QED BY <2>2 DEF heard
<1> QED
  <2>1. 7 \in 1 .. Rules - 1 /\ (\A r \in 1 .. 7 - 1 : r \in 1 .. 6)
          /\ \A r \in 7 + 1 .. Rules - 1 : r \in 8 .. Rules - 1
    BY SMT DEF Rules
  <2>2. Way(item, 7, mid)
    BY <1>1, <1>11, <1>12, <1>14, <1>15, <2>1, Zenon DEF Way
  <2> QED BY <2>2, Zenon
Opened(t, x, y, z, u) == t = <<x>> \o <<y, z, u>>

LEMMA OneAndThree ==
  ASSUME NEW x, NEW y, NEW z, NEW u, NEW t, Opened(t, x, y, z, u)
  PROVE  /\ Len(t) = 4 /\ 4 > 0 /\ 1 \in 1 .. 4 /\ 2 \in 1 .. 4 /\ 3 \in 1 .. 4 /\ 4 \in 1 .. 4
         /\ t[1] = x /\ t[2] = y /\ t[3] = z /\ t[4] = u
<1> DEFINE A == {x, y, z, u}
<1>0. t = <<x>> \o <<y, z, u>>
  BY DEF Opened
<1>1. <<x>> \in Seq(A) /\ <<y, z, u>> \in Seq(A)
  BY SMT
<1>2. Len(<<x>>) = 1 /\ Len(<<y, z, u>>) = 3
  BY SMT
<1>3. Len(t) = 4 /\ t[1] = x
  BY <1>0, <1>1, <1>2, SMT
<1>4. \A k \in 1 .. 3 : t[1 + k] = <<y, z, u>>[k]
  BY <1>0, <1>1, <1>2, SMT
<1>5. t[2] = y /\ t[3] = z /\ t[4] = u
  <2>1. 1 \in 1 .. 3 /\ 2 \in 1 .. 3 /\ 3 \in 1 .. 3 /\ 1 + 1 = 2 /\ 1 + 2 = 3 /\ 1 + 3 = 4
    BY SMT
  <2>2. <<y, z, u>>[1] = y /\ <<y, z, u>>[2] = z /\ <<y, z, u>>[3] = u
    BY SMT
  <2> QED BY <1>4, <2>1, <2>2, Zenon
<1>6. 4 > 0 /\ 1 \in 1 .. 4 /\ 2 \in 1 .. 4 /\ 3 \in 1 .. 4 /\ 4 \in 1 .. 4
  BY SMT
<1> QED BY <1>3, <1>5, <1>6, Zenon

LEMMA SymbolClosing ==
  ASSUME NEW t \in Seq(Token), Len(t) = 2, SymbolEnd(t, 1) = 0, SymbolEnd(t, 2) = 2 + 1
  PROVE  Sub(t, SymbolEnd, SaySymbol) = <<t[1]>> \o SaySymbol(t, 2)
<1> DEFINE end == [i \in 1 .. Len(t) |-> SymbolEnd(t, i)]
           say == [i \in 1 .. Len(t) |-> SaySymbol(t, i)]
<1>1. Sub(t, SymbolEnd, SaySymbol) = Replaced(t, end, say)
  BY DomainOfText, Zenon DEF Sub
<1>2. \A i \in 1 .. Len(t) : end[i] # 0 => Claims(t, i, end[i], say[i])
  BY SymbolClaims, Zenon
<1>3. /\ 1 \in 1 .. 2 /\ 2 \in 1 .. 2 /\ 2 + 1 # 0 /\ ~(1 > 2) /\ ~(2 > 2) /\ 2 + 1 > 2
      /\ 1 \in 1 .. 2 + 1 /\ 2 \in 1 .. 2 + 1 /\ 2 + 1 \in 1 .. 2 + 1 /\ 1 + 1 = 2
  BY SMT
<1>4. end[1] = 0 /\ end[2] = 2 + 1 /\ say[2] = SaySymbol(t, 2)
  BY <1>3, Zenon
<1> HIDE DEF end, say
<1>5. Fits(t, end, say, Token)
  <2>1. \A i \in 1 .. Len(t) : t[i] \in Token
    BY ElementOfSeq, Zenon
  <2> QED BY <1>2, <2>1, Zenon DEF Fits, Claims
<1>6. PICK from : Replaced(t, end, say) = from[1] /\ Passing(from, t, end, say)
  BY <1>5, ReplacedFunction, Zenon
<1>7. from[1] = <<t[1]>> \o from[1 + 1]
  BY <1>3, <1>4, <1>6, Zenon DEF Passing
<1>8. from[2] = say[2] \o from[2 + 1]
  BY <1>3, <1>4, <1>6, Zenon DEF Passing
<1>9. from[2 + 1] = <<>>
  BY <1>3, <1>6, Zenon DEF Passing
<1>10. say[2] \in Seq(Token)
  BY <1>2, <1>3, <1>4, Zenon DEF Claims
<1>11. from[2] = say[2]
  BY <1>8, <1>9, <1>10, ConcatEmptySeq, Zenon
<1> QED BY <1>1, <1>3, <1>4, <1>6, <1>7, <1>11, Zenon

LEMMA AbbreviationsAlone ==
  ASSUME NEW t \in Seq(Token), \A i \in 1 .. Len(t) : t[i].w \notin {"mr", "dr", "dept"}
  PROVE  Sub(t, AbbreviationEnd, SayAbbreviation) = t
<1>1. DOMAIN Abbreviations = {"mr", "dr", "dept"}
  BY SMT DEF Abbreviations
<1>2. \A i : AbbreviationEnd(t, i) = 0
  BY <1>1, Zenon DEF AbbreviationEnd, At, In
<1> QED BY <1>2, PassNone, DomainOfText, Zenon DEF Sub

LEMMA PercentHeard ==
  ASSUME NEW a \in Seq(0 .. 9), Len(a) \in 1 .. 4,
         NEW mid, mid = <<N(a)>> \o <<Space, W("percent"), Space>>, mid \in Seq(Token)
  PROVE  LET heard == Heard(Expanded(mid, Rules))
         IN Last(heard) = "percent" /\ Value(Front(heard)) = Num(a)
<1>1. /\ Len(mid) = 4 /\ 4 > 0 /\ 1 \in 1 .. 4 /\ 2 \in 1 .. 4 /\ 3 \in 1 .. 4 /\ 4 \in 1 .. 4
      /\ mid[1] = N(a) /\ mid[2] = Space /\ mid[3] = W("percent") /\ mid[4] = Space
  <2>1. Opened(mid, N(a), Space, W("percent"), Space)
    BY Zenon DEF Opened
  <2> QED BY <2>1, OneAndThree
<1>2. Short(mid)
  <2>1. \A i \in 1 .. 4 : i = 1 \/ i = 2 \/ i = 3 \/ i = 4
    BY SMT
  <2>2. Len(<<>>) \in 0 .. 4 /\ \A n \in 1 .. 4 : n \in 0 .. 4
    BY SMT
  <2>3. Space.w # "." /\ W("percent").w # "." /\ N(a).w # "."
    BY Fields, Zenon
  <2>4. Len(Space.d) \in 0 .. 4 /\ Len(W("percent").d) \in 0 .. 4 /\ Len(N(a).d) \in 0 .. 4
    BY <2>2, Fields, Zenon
  <2> QED BY <1>1, <2>1, <2>3, <2>4, Zenon DEF Short
<1>3. PICK f : HeardFrom(f, mid) /\ f[1] = Heard(Sub(mid, IntEnd, SayInt))
  BY <1>1, IntsHeard, Zenon
<1>4. 1 + 1 = 2 /\ 2 + 1 = 3 /\ 3 + 1 = 4 /\ 4 + 1 = 5
  BY SMT
<1>5. /\ f[1] = Piece(mid[1]) \o f[2] /\ f[2] = Piece(mid[2]) \o f[3]
      /\ f[3] = Piece(mid[3]) \o f[4] /\ f[4] = Piece(mid[4]) \o f[5]
      /\ f[5] = <<>> /\ f[3] \in Seq(Vocabulary)
  BY <1>1, <1>3, <1>4, Zenon DEF HeardFrom
<1>6. Len(a) > 0
  <2>1. \A n \in 1 .. 4 : n > 0
    BY SMT
  <2> QED BY <2>1, Zenon
<1>7. /\ Piece(mid[1]) = NumberWords[Num(a)] /\ Piece(mid[2]) = <<>>
      /\ Piece(mid[3]) = <<"percent">> /\ Piece(mid[4]) = <<>>
  <2>1. ~Silent("percent")
    BY Zenon DEF Silent
  <2> QED BY <1>1, <1>6, <2>1, NumberPiece, WordPiece, Zenon
<1>8. f[4] = <<>> /\ f[2] = f[3]
  <2>1. <<>> \in Seq(Vocabulary)
    BY SMT
  <2> QED BY <1>5, <1>7, <2>1, ConcatEmptySeq, Zenon
<1>9. f[3] = <<"percent">>
  <2>1. <<"percent">> \in Seq(Vocabulary)
    <3>1. "percent" \in Vocabulary
      BY VocabularyHas, Zenon
    <3> QED BY <3>1, SaidWord, Zenon
  <2> QED BY <1>5, <1>7, <1>8, <2>1, ConcatEmptySeq, Zenon
<1>10. Closing(f[1], NumberWords[Num(a)], "percent")
  BY <1>5, <1>7, <1>8, <1>9, Zenon DEF Closing
<1>11. /\ NumberWords[Num(a)] \in Seq(Vocabulary) /\ "percent" \in Vocabulary
       /\ Value(NumberWords[Num(a)]) = Num(a)
  BY NumType, NumberSaid, NumbersReadBack, VocabularyHas, Zenon
<1>12. Last(f[1]) = "percent" /\ Front(f[1]) = NumberWords[Num(a)]
  BY <1>10, <1>11, LastOf, Zenon
<1>13. Heard(Expanded(mid, Rules)) = f[1]
  BY <1>2, <1>3, OnlyInts, Zenon
<1> QED BY <1>11, <1>12, <1>13, Zenon

LEMMA PercentWay ==
  ASSUME NEW item \in Item, item.kind = "percent", Written(item)
  PROVE  \E own, mid : Way(item, own, mid)
<1> DEFINE t == <<N(item.a), W("%")>>
           mid == <<N(item.a)>> \o <<Space, W("percent"), Space>>
<1>1. Typed(item) = t
  BY Zenon DEF Typed
<1>2. item.a \in Seq(0 .. 9) /\ Len(item.a) > 0 /\ Len(item.a) \in 1 .. 4
  <2>1. item.a \in Seq(0 .. 9)
    BY DEF Item
  <2>2. Len(item.a) > 0 /\ Len(item.a) <= 4 /\ 4 \in Nat
    BY Zenon DEF Written
  <2> QED BY <2>1, <2>2, SomeFigures, Zenon
<1>3. t \in Seq(Token)
  <2>1. item.kind = "area" => Len(item.b) = 7
    BY Zenon
  <2> QED BY <1>1, <2>1, TypedType, Zenon
<1>4. /\ Len(t) = 2 /\ 1 \in 1 .. 2 /\ 2 \in 1 .. 2 /\ 2 > 0
      /\ t[1] = N(item.a) /\ t[2] = W("%")
  BY RowOfTwo, Zenon
<1>5. mid = <<N(item.a)>> \o <<Space, W("percent"), Space>>
  OBVIOUS
<1> HIDE DEF t, mid
<1>6. Shows(t, 1, "") /\ Shows(t, 2, "%")
  BY <1>4, Fields, Zenon DEF Shows
<1>7. Sub(t, SymbolEnd, SaySymbol) = mid
  <2>1. ~At(t, 1, {"&", "%", "#"}) /\ At(t, 2, {"&", "%", "#"})
    <3> DEFINE marks == {"&", "%", "#"}
    <3>1. "" \notin marks /\ "%" \in marks
      BY Zenon
    <3> HIDE DEF marks
    <3>2. ~At(t, 1, marks) /\ At(t, 2, marks)
      BY <1>6, <3>1, ShowsAt, Zenon
    <3> QED BY <3>2 DEF marks
  <2>2. SymbolEnd(t, 1) = 0 /\ SymbolEnd(t, 2) = 2 + 1
    BY <2>1, Zenon DEF SymbolEnd
  <2>3. Symbol("%") = "percent"
    BY SMT DEF Symbol
  <2>4. SaySymbol(t, 2) = <<Space, W("percent"), Space>>
    BY <1>4, <2>3, Fields, Zenon DEF SaySymbol
  <2>5. Sub(t, SymbolEnd, SaySymbol) = <<N(item.a)>> \o <<Space, W("percent"), Space>>
    BY <1>3, <1>4, <2>2, <2>4, SymbolClosing, Zenon
  <2> QED BY <1>5, <2>5, Zenon
<1>8. mid \in Seq(Token)
  <2>1. Sub(t, SymbolEnd, SaySymbol) \in Seq(Token)
    <3>1. \A u \in Seq(Token) : Sub(u, SymbolEnd, SaySymbol) \in Seq(Token)
      BY SymbolClaims, PassType, DomainOfText, Zenon DEF Sub
    <3> QED BY <1>3, <3>1, Zenon
  <2> QED BY <1>7, <2>1, Zenon
<1>9. \A i \in 1 .. Len(mid) : mid[i].w \notin {"mr", "dr", "dept"}
  <2>1. /\ Len(mid) = 4 /\ 1 \in 1 .. 4 /\ 2 \in 1 .. 4 /\ 3 \in 1 .. 4 /\ 4 \in 1 .. 4
        /\ mid[1] = N(item.a) /\ mid[2] = Space /\ mid[3] = W("percent") /\ mid[4] = Space
    <3>1. Opened(mid, N(item.a), Space, W("percent"), Space)
      BY <1>5, Zenon DEF Opened
    <3> QED BY <3>1, OneAndThree
  <2>2. Shows(mid, 1, "") /\ Shows(mid, 2, " ") /\ Shows(mid, 3, "percent") /\ Shows(mid, 4, " ")
    BY <2>1, Fields, Zenon DEF Shows
  <2>3. \A i \in 1 .. Len(mid) : mid[i].w \in {"", " ", "percent", " "}
    BY <2>1, <2>2, AllOfFour, Zenon
  <2> QED BY <2>3, Zenon
<1>10. Expanded(t, 9) = mid
  BY <1>7, <1>8, <1>9, AbbreviationsAlone, ExpandedIs, Zenon
<1>11. \A r \in 1 .. 8 : Expanded(t, r) = t
  <2>1. \A i \in 1 .. Len(t) : t[i].w \in {"", "%"}
    BY <1>4, <1>6, AllOfTwo, Zenon
  <2>2. \A r \in 1 .. 8 : r \in 1 .. 9 /\ (r = 1 \/ r = 2 \/ r = 3 \/ r = 4 \/ r = 5 \/ r = 6 \/ r = 7 \/ r = 8)
    BY SMT
  <2>3. \A r \in 1 .. 8 : {"", "%"} \cap Keys(r) = {}
    BY <2>2, KeysAre, Zenon DEF ExtensionNames
  <2> QED BY <1>3, <2>1, <2>2, <2>3, NoKeyThere, Zenon
<1>12. Understood(item, Heard(Expanded(mid, Rules)))
  <2> DEFINE heard == Heard(Expanded(mid, Rules))
  <2>1. Last(heard) = "percent" /\ Value(Front(heard)) = Num(item.a)
    BY <1>2, <1>5, <1>8, PercentHeard, Zenon
  <2> HIDE DEF heard
  <2>2. Understood(item, heard)
    BY <2>1, Zenon DEF Understood
  <2> QED BY <2>2 DEF heard
<1> QED
  <2>1. 9 \in 1 .. Rules - 1 /\ (\A r \in 1 .. 9 - 1 : r \in 1 .. 8)
          /\ \A r \in 9 + 1 .. Rules - 1 : FALSE
    BY SMT DEF Rules
  <2>2. Way(item, 9, mid)
    BY <1>1, <1>10, <1>11, <1>12, <2>1, Zenon DEF Way
  <2> QED BY <2>2, Zenon
(* A pass that puts back what it takes changes nothing.                    *)
LEMMA PassSame ==
  ASSUME NEW t \in Seq(Token), NEW end, NEW say,
         \A i \in 1 .. Len(t) : end[i] # 0 =>
           Claims(t, i, end[i], say[i]) /\ say[i] = SubSeq(t, i, end[i] - 1)
  PROVE  Replaced(t, end, say) = t
<1> DEFINE n == Len(t)
<1>1. n \in Nat /\ \A i \in 1 .. n : t[i] \in Token
  BY ElementOfSeq, LenProperties, Zenon
<1>2. Fits(t, end, say, Token)
  BY <1>1, Zenon DEF Fits, Claims
<1>3. PICK from : Replaced(t, end, say) = from[1] /\ Passing(from, t, end, say)
  BY <1>2, ReplacedFunction, Zenon
<1>4. from[n + 1] = <<>>
  <2>1. n + 1 \in 1 .. n + 1 /\ n + 1 > n
    BY <1>1, SMT
  <2> QED BY <1>3, <2>1, Zenon DEF Passing
<1>5. ASSUME NEW i \in 1 .. n
      PROVE  \/ end[i] = 0 /\ from[i] = <<t[i]>> \o from[i + 1]
             \/ /\ end[i] \in i + 1 .. n + 1
                /\ from[i] = SubSeq(t, i, end[i] - 1) \o from[end[i]]
  <2>1. i \in 1 .. n + 1 /\ ~(i > n)
    BY <1>1, SMT
  <2>2. from[i] = IF end[i] = 0 THEN <<t[i]>> \o from[i + 1] ELSE say[i] \o from[end[i]]
    BY <1>3, <2>1, Zenon DEF Passing
  <2> QED BY <2>2, Zenon DEF Claims
<1>6. \A i \in 1 .. n : SubSeq(t, i, n) = <<t[i]>> \o SubSeq(t, i + 1, n)
  <2>1. \A i \in 1 .. n : n \in i .. n
    BY <1>1, SMT
  <2> QED BY <2>1, SubSeqRecursiveFirst, Zenon
<1>7. ASSUME NEW i \in 1 .. n, NEW e \in i + 1 .. n + 1
      PROVE  SubSeq(t, i, n) = SubSeq(t, i, e - 1) \o SubSeq(t, e, n)
  <2>1. /\ i \in 1 .. n + 1 /\ e - 1 \in i - 1 .. n /\ n \in e - 1 .. n /\ (e - 1) + 1 = e
    BY <1>1, SMT
  <2>2. SubSeq(t, i, e - 1) \o SubSeq(t, (e - 1) + 1, n) = SubSeq(t, i, n)
    BY <2>1, ConcatAdjacentSubSeq
  <2> QED BY <2>1, <2>2
<1>8. SubSeq(t, n + 1, n) = <<>>
  <2>1. n + 1 \in Int /\ n \in Int /\ n < n + 1
    BY <1>1, SMT
  <2> QED BY <2>1, SubSeqEmpty, Zenon
<1>9. SubSeq(t, 1, n) = t
  BY SubSeqFull, Zenon
<1> HIDE DEF n
<1> DEFINE Stands(i) == from[i] = SubSeq(t, i, n)
           S == {j \in Nat : j <= n => Stands(n + 1 - j)}
<1>10. ASSUME NEW j \in Nat, \A k \in Nat : k < j => k \in S PROVE j \in S
  <2> SUFFICES ASSUME j <= n PROVE Stands(n + 1 - j)
    BY Zenon
  <2> DEFINE i == n + 1 - j
  <2>1. i \in Int /\ (j = 0 => i = n + 1) /\ (j # 0 => i \in 1 .. n)
    BY <1>1, SMT
  <2>2. ASSUME NEW e \in i + 1 .. n + 1 PROVE Stands(e)
    <3>1. n + 1 - e \in Nat /\ n + 1 - e < j /\ n + 1 - e <= n /\ n + 1 - (n + 1 - e) = e
      BY <1>1, SMT
    <3>2. n + 1 - e \in S
      BY <1>10, <3>1, Zenon
    <3> QED BY <3>1, <3>2, Zenon
  <2>3. CASE j = 0
    BY <1>4, <1>8, <2>1, <2>3, Zenon
  <2>4. CASE j # 0
    <3>1. i \in 1 .. n /\ i + 1 \in i + 1 .. n + 1
      <4>1. i \in 1 .. n
        BY <2>1, <2>4, Zenon
      <4> HIDE DEF i
      <4> QED BY <1>1, <4>1, SMT
    <3> HIDE DEF i
    <3>2. ASSUME end[i] = 0, from[i] = <<t[i]>> \o from[i + 1] PROVE Stands(i)
      <4>1. from[i + 1] = SubSeq(t, i + 1, n)
        BY <2>2, <3>1, Zenon
      <4>2. SubSeq(t, i, n) = <<t[i]>> \o SubSeq(t, i + 1, n)
        BY <1>6, <3>1, Zenon
      <4> QED BY <3>2, <4>1, <4>2
    <3>3. ASSUME end[i] \in i + 1 .. n + 1, from[i] = SubSeq(t, i, end[i] - 1) \o from[end[i]]
          PROVE  Stands(i)
      <4>1. from[end[i]] = SubSeq(t, end[i], n)
        BY <2>2, <3>3, Zenon
      <4>2. SubSeq(t, i, n) = SubSeq(t, i, end[i] - 1) \o SubSeq(t, end[i], n)
        BY <1>7, <3>1, <3>3, Zenon
      <4> QED BY <3>3, <4>1, <4>2
    <3>4. Stands(i)
      <4> HIDE DEF Stands
      <4> QED BY <1>5, <3>1, <3>2, <3>3
    <3> QED BY <3>4 DEF i
  <2> QED BY <2>3, <2>4, Zenon
<1> HIDE DEF S
<1>11. Nat \subseteq S
  BY <1>10, StrongInduction, Zenon
<1>12. Stands(1)
  <2>1. n <= n /\ n + 1 - n = 1
    BY <1>1, SMT
  <2>2. n <= n => Stands(n + 1 - n)
    BY <1>1, <1>11, Zenon DEF S
  <2> QED BY <2>1, <2>2, Zenon
<1> QED BY <1>3, <1>9, <1>12, Zenon

(* Figures with a colon or a meridiem that are no time of day stay.        *)
LEMMA NotATime ==
  ASSUME NEW t \in Seq(Token),
         \A i \in 1 .. Len(t) : ClockAt(t, i) => ~IsTime(Num(t[i].d), Num(t[i + 2].d)),
         \A i \in 1 .. Len(t) : HourEnd(t, i) # 0 => Num(t[i].d) > 23
  PROVE  ExpandTimes(t) = t
<1>1. Sub(t, TimeMeridiemEnd, SayTimeMeridiem) = t
  <2> DEFINE end == [i \in 1 .. Len(t) |-> TimeMeridiemEnd(t, i)]
             say == [i \in 1 .. Len(t) |-> SayTimeMeridiem(t, i)]
  <2>1. Sub(t, TimeMeridiemEnd, SayTimeMeridiem) = Replaced(t, end, say)
    BY DomainOfText, Zenon DEF Sub
  <2>2. ASSUME NEW i \in 1 .. Len(t), TimeMeridiemEnd(t, i) # 0
        PROVE  /\ Claims(t, i, TimeMeridiemEnd(t, i), SayTimeMeridiem(t, i))
               /\ SayTimeMeridiem(t, i) = SubSeq(t, i, TimeMeridiemEnd(t, i) - 1)
    <3>1. ClockAt(t, i)
      BY <2>2, Zenon DEF TimeMeridiemEnd
    <3> QED BY <2>2, <3>1, TimeMeridiemClaims, Zenon DEF SayTimeMeridiem, SayClock
  <2>3. \A i \in 1 .. Len(t) : end[i] = TimeMeridiemEnd(t, i) /\ say[i] = SayTimeMeridiem(t, i)
    BY Zenon
  <2> HIDE DEF end, say
  <2>4. Replaced(t, end, say) = t
    BY <2>2, <2>3, PassSame, Zenon
  <2> QED BY <2>1, <2>4, Zenon
<1>2. Sub(t, TimeBareEnd, SayTimeBare) = t
  <2> DEFINE end == [i \in 1 .. Len(t) |-> TimeBareEnd(t, i)]
             say == [i \in 1 .. Len(t) |-> SayTimeBare(t, i)]
  <2>1. Sub(t, TimeBareEnd, SayTimeBare) = Replaced(t, end, say)
    BY DomainOfText, Zenon DEF Sub
  <2>2. ASSUME NEW i \in 1 .. Len(t), TimeBareEnd(t, i) # 0
        PROVE  /\ Claims(t, i, TimeBareEnd(t, i), SayTimeBare(t, i))
               /\ SayTimeBare(t, i) = SubSeq(t, i, TimeBareEnd(t, i) - 1)
    <3>1. ClockAt(t, i) /\ TimeBareEnd(t, i) = i + 3
      BY <2>2, Zenon DEF TimeBareEnd
    <3> QED BY <2>2, <3>1, TimeBareClaims, Zenon DEF SayTimeBare, SayClock
  <2>3. \A i \in 1 .. Len(t) : end[i] = TimeBareEnd(t, i) /\ say[i] = SayTimeBare(t, i)
    BY Zenon
  <2> HIDE DEF end, say
  <2>4. Replaced(t, end, say) = t
    BY <2>2, <2>3, PassSame, Zenon
  <2> QED BY <2>1, <2>4, Zenon
<1>3. Sub(t, HourEnd, SayHour) = t
  <2> DEFINE end == [i \in 1 .. Len(t) |-> HourEnd(t, i)]
             say == [i \in 1 .. Len(t) |-> SayHour(t, i)]
  <2>1. Sub(t, HourEnd, SayHour) = Replaced(t, end, say)
    BY DomainOfText, Zenon DEF Sub
  <2>2. ASSUME NEW i \in 1 .. Len(t), HourEnd(t, i) # 0
        PROVE  /\ Claims(t, i, HourEnd(t, i), SayHour(t, i))
               /\ SayHour(t, i) = SubSeq(t, i, HourEnd(t, i) - 1)
    <3>1. Num(t[i].d) > 23
      BY <2>2, Zenon
    <3> QED BY <2>2, <3>1, HourClaims, Zenon DEF SayHour
  <2>3. \A i \in 1 .. Len(t) : end[i] = HourEnd(t, i) /\ say[i] = SayHour(t, i)
    BY Zenon
  <2> HIDE DEF end, say
  <2>4. Replaced(t, end, say) = t
    BY <2>2, <2>3, PassSame, Zenon
  <2> QED BY <2>1, <2>4, Zenon
<1> QED BY <1>1, <1>2, <1>3, Zenon DEF ExpandTimes
(* A time as it is typed: its hour, a colon, its minutes, and no other     *)
(* figures but after a colon.                                              *)
Dial(t, a, b) ==
  /\ t \in Seq(Token) /\ t[1] = N(a) /\ t[2] = W(":") /\ t[3] = N(b)
  /\ 1 \in 1 .. Len(t) /\ 2 \in 1 .. Len(t) /\ 3 \in 1 .. Len(t)
  /\ \A i \in 1 .. Len(t) : t[i].d = <<>> \/ i = 1 \/ At(t, i - 1, {":"})
  /\ \A i \in 1 .. Len(t) : t[i].w \in {"", ":", " ", "am", "pm"} /\ Len(t[i].d) \in 0 .. 4

Shown(t, m) ==
  \/ /\ m # "" /\ TimeMeridiemEnd(t, 1) = Len(t) + 1 /\ t[MeridiemOf(t, 1)].w = m
  \/ /\ m = "" /\ TimeBareEnd(t, 1) = Len(t) + 1 /\ \A i : TimeMeridiemEnd(t, i) = 0

LEMMA DialOnce ==
  ASSUME NEW t, NEW a, NEW b, Dial(t, a, b)
  PROVE  /\ \A i : ClockAt(t, i) => i = 1
         /\ \A i : HourEnd(t, i) = 0
<1>1. \A i : At(t, i, {":"}) => At(t, i, {":", "."})
  BY Zenon DEF At
<1>2. \A i, lengths : NumAt(t, i, lengths) => i = 1 \/ At(t, i - 1, {":"})
  BY Zenon DEF Dial, NumAt, In
<1>3. \A i : ClockAt(t, i) => i = 1
  BY <1>2, Zenon DEF ClockAt
<1>4. ASSUME NEW i, HourEnd(t, i) # 0 PROVE FALSE
  <2>1. /\ NumAt(t, i, 1 .. 2) /\ ~At(t, i - 1, {":", "."})
        /\ At(t, After(t, i + 1, {" "}), Meridiems)
    BY <1>4, Zenon DEF HourEnd
  <2>2. i = 1
    BY <1>1, <1>2, <2>1, Zenon
  <2>3. 1 + 1 = 2
    BY SMT
  <2>4. Shows(t, 2, ":")
    BY Fields, Zenon DEF Dial, Shows
  <2>5. ":" \notin {" "} /\ ":" \notin Meridiems
    BY Zenon DEF Meridiems
  <2>6. After(t, 2, {" "}) = 2
    BY <2>4, <2>5, AfterNone, Zenon
  <2>7. ~At(t, 2, Meridiems)
    BY <2>4, <2>5, ShowsAt, Zenon
  <2> QED BY <2>1, <2>2, <2>3, <2>6, <2>7, Zenon
<1> QED BY <1>3, <1>4, Zenon

LEMMA DialSpoken ==
  ASSUME NEW t, NEW a \in Seq(0 .. 9), NEW b \in Seq(0 .. 9), Dial(t, a, b), NEW m, Shown(t, m),
         IsTime(Num(a), Num(b))
  PROVE  /\ Expanded(t, 1) = Spoken(SpokenTime(Num(a), Num(b), m))
         /\ SpokenTime(Num(a), Num(b), m) \in Seq(Voice)
         /\ Len(SpokenTime(Num(a), Num(b), m)) > 0
         /\ Num(a) \in 0 .. 23 /\ Num(b) \in 0 .. 59
<1> DEFINE words == SpokenTime(Num(a), Num(b), m)
<1>1. Num(a) \in 0 .. 23 /\ Num(b) \in 0 .. 59 /\ Num(b) \in Nat
  <2>1. Num(a) \in Nat /\ Num(b) \in Nat /\ Num(a) <= 23 /\ Num(b) <= 59
    BY NumType, Zenon DEF IsTime
  <2>2. \A x \in Nat : (x <= 23 => x \in 0 .. 23) /\ (x <= 59 => x \in 0 .. 59)
    BY SMT
  <2> QED BY <2>1, <2>2, Zenon
<1>2. words \in Seq(Voice) /\ Len(words) > 0
  BY <1>1, SpokenTimeVoiced, Zenon
<1>3. t \in Seq(Token) /\ t[1].d = a /\ t[3].d = b /\ Len(t) > 0
  <2>1. \A k \in Nat : 1 \in 1 .. k => k > 0
    BY SMT
  <2>2. t \in Seq(Token) /\ Len(t) \in Nat
    BY LenProperties, Zenon DEF Dial
  <2> QED BY <2>1, <2>2, Fields, Zenon DEF Dial
<1>4. 1 + 2 = 3
  BY SMT
<1> HIDE DEF words
<1>5. /\ Sub(Spoken(words), TimeBareEnd, SayTimeBare) = Spoken(words)
      /\ Sub(Spoken(words), HourEnd, SayHour) = Spoken(words)
  <2>1. Spoken(words) \in Seq(Token) /\ Figureless(Spoken(words))
    BY <1>2, SpokenFigureless, Zenon
  <2>2. \A i : TimeBareEnd(Spoken(words), i) = 0 /\ HourEnd(Spoken(words), i) = 0
    BY <2>1, NoNumberThere, Zenon DEF TimeBareEnd, ClockAt, HourEnd
  <2>3. Sub(Spoken(words), TimeBareEnd, SayTimeBare) = Spoken(words)
    BY <2>1, <2>2, PassNone, DomainOfText, Zenon DEF Sub
  <2>4. Sub(Spoken(words), HourEnd, SayHour) = Spoken(words)
    BY <2>1, <2>2, PassNone, DomainOfText, Zenon DEF Sub
  <2> QED BY <2>3, <2>4, Zenon
<1>6. CASE m # "" /\ TimeMeridiemEnd(t, 1) = Len(t) + 1 /\ t[MeridiemOf(t, 1)].w = m
  <2>1. SayTimeMeridiem(t, 1) = Spoken(words)
    BY <1>3, <1>4, <1>6, Zenon DEF SayTimeMeridiem, SayClock, words
  <2>2. Sub(t, TimeMeridiemEnd, SayTimeMeridiem) = Spoken(words)
    BY <1>3, <1>6, <2>1, TimeMeridiemTakes, Zenon
  <2>3. ExpandTimes(t) = Spoken(words)
    BY <1>5, <2>2, Zenon DEF ExpandTimes
  <2> QED BY <1>1, <1>2, <2>3, ExpandedIs, Zenon DEF words
<1>7. CASE m = "" /\ TimeBareEnd(t, 1) = Len(t) + 1 /\ \A i : TimeMeridiemEnd(t, i) = 0
  <2>1. SayTimeBare(t, 1) = Spoken(words)
    BY <1>3, <1>4, <1>7, Zenon DEF SayTimeBare, SayClock, words
  <2>2. Sub(t, TimeMeridiemEnd, SayTimeMeridiem) = t
    BY <1>3, <1>7, PassNone, DomainOfText, Zenon DEF Sub
  <2>3. Sub(t, TimeBareEnd, SayTimeBare) = Spoken(words)
    BY <1>3, <1>7, <2>1, TimeBareTakes, Zenon
  <2>4. ExpandTimes(t) = Spoken(words)
    BY <1>5, <2>2, <2>3, Zenon DEF ExpandTimes
  <2> QED BY <1>1, <1>2, <2>4, ExpandedIs, Zenon DEF words
<1> QED BY <1>6, <1>7, Zenon DEF Shown

LEMMA DialLeft ==
  ASSUME NEW t, NEW a \in Seq(0 .. 9), NEW b \in Seq(0 .. 9), Len(a) > 0, Dial(t, a, b),
         ~IsTime(Num(a), Num(b))
  PROVE  /\ \A r \in 1 .. Rules - 1 : Expanded(t, r) = t
         /\ LET heard == Heard(Expanded(t, Rules))
            IN Says(heard, ":") /\ Value(Until(heard, ":")) = Num(a)
<1>1. /\ t \in Seq(Token) /\ t[1] = N(a) /\ t[2] = W(":") /\ t[1].d = a /\ t[3].d = b /\ Len(t) > 0
      /\ 1 \in 1 .. Len(t) /\ 2 \in 1 .. Len(t)
  <2>1. \A k \in Nat : 1 \in 1 .. k => k > 0
    BY SMT
  <2>2. t \in Seq(Token) /\ Len(t) \in Nat
    BY LenProperties, Zenon DEF Dial
  <2> QED BY <2>1, <2>2, Fields, Zenon DEF Dial
<1>2. 1 + 2 = 3 /\ 1 + 1 = 2 /\ 2 + 1 = 3
  BY SMT
<1>3. Expanded(t, 1) = t
  <2>1. ~IsTime(Num(t[1].d), Num(t[1 + 2].d))
    BY <1>1, <1>2, Zenon
  <2>2. \A i \in 1 .. Len(t) : ClockAt(t, i) => ~IsTime(Num(t[i].d), Num(t[i + 2].d))
    BY <2>1, DialOnce, Zenon
  <2>3. ExpandTimes(t) = t
    BY <1>1, <2>2, DialOnce, NotATime, Zenon
  <2> QED BY <2>3, ExpandedIs, Zenon
<1>4. \A r \in 1 .. Rules - 1 : Expanded(t, r) = t
  <2>1. \A i \in 1 .. Len(t) : t[i].w \in {"", ":", " ", "am", "pm"}
    BY Zenon DEF Dial
  <2>2. \A r \in 1 .. Rules - 1 : r \in 1 .. 9 /\ (r = 1 \/ r = 2 \/ r = 3 \/ r = 4 \/ r = 5 \/ r = 6 \/ r = 7
                                                  \/ r = 8 \/ r = 9)
    BY SMT DEF Rules
  <2>3. DOMAIN Abbreviations = {"mr", "dr", "dept"}
    BY SMT DEF Abbreviations
  <2>4. \A r \in 1 .. Rules - 1 : r # 1 => {"", ":", " ", "am", "pm"} \cap Keys(r) = {}
    BY <2>2, <2>3, KeysAre, Zenon DEF ExtensionNames
  <2> QED BY <1>1, <1>3, <2>1, <2>2, <2>4, NoKeyThere, Zenon
<1>5. Short(t)
  BY Zenon DEF Short, Dial
<1>6. PICK f : HeardFrom(f, t) /\ f[1] = Heard(Sub(t, IntEnd, SayInt))
  BY <1>1, IntsHeard, Zenon
<1>7. f[1] = Piece(t[1]) \o f[2] /\ f[2] = Piece(t[2]) \o f[3] /\ f[3] \in Seq(Vocabulary)
  BY <1>1, <1>2, <1>6, Zenon DEF HeardFrom
<1>8. Piece(t[1]) = NumberWords[Num(a)] /\ Piece(t[2]) = <<":">>
  <2>1. ~Silent(":")
    BY Zenon DEF Silent
  <2> QED BY <1>1, <2>1, NumberPiece, WordPiece, Zenon
<1>9. f[1] = NumberWords[Num(a)] \o (<<":">> \o f[3])
  BY <1>7, <1>8, Zenon
<1>10. Says(f[1], ":") /\ Value(Until(f[1], ":")) = Num(a)
  BY <1>7, <1>9, NotOfNumbers, MarkedNumber, Zenon
<1>11. Heard(Expanded(t, Rules)) = f[1]
  BY <1>1, <1>5, <1>6, OnlyInts, Zenon
<1> QED BY <1>4, <1>10, <1>11, Zenon

LEMMA DialWay ==
  ASSUME NEW item \in Item, item.kind \in {"time", "clock"}, Len(item.a) > 0,
         Dial(Typed(item), item.a, item.b), Shown(Typed(item), item.m)
  PROVE  \E own, mid : Way(item, own, mid)
<1>1. item.a \in Seq(0 .. 9) /\ item.b \in Seq(0 .. 9) /\ item.m \in {"", "am", "pm"}
  BY DEF Item
<1>2. /\ 1 \in 1 .. Rules - 1 /\ (\A r \in 1 .. 1 - 1 : FALSE)
      /\ \A r \in 1 + 1 .. Rules - 1 : r \in 1 .. Rules - 1
  BY SMT DEF Rules
<1>3. CASE IsTime(Num(item.a), Num(item.b))
  <2> DEFINE words == SpokenTime(Num(item.a), Num(item.b), item.m)
  <2>1. /\ Expanded(Typed(item), 1) = Spoken(words) /\ words \in Seq(Voice) /\ Len(words) > 0
        /\ Num(item.a) \in 0 .. 23 /\ Num(item.b) \in 0 .. 59
    BY <1>1, <1>3, DialSpoken, Zenon
  <2>2. ClockIs(words, Num(item.a), Num(item.b), item.m)
    BY <1>1, <2>1, TimesReadBack, Zenon
  <2> HIDE DEF words
  <2>3. Understood(item, words)
    <3>1. CASE item.kind = "time"
      BY <1>3, <2>2, <3>1, Zenon DEF Understood
    <3>2. CASE item.kind = "clock"
      BY <1>3, <2>2, <3>2, Zenon DEF Understood
    <3> QED BY <3>1, <3>2, Zenon
  <2>4. Way(item, 1, Spoken(words))
    BY <1>2, <2>1, <2>3, SpokenWay, Zenon
  <2> QED BY <2>4, Zenon
<1>4. CASE ~IsTime(Num(item.a), Num(item.b))
  <2> DEFINE heard == Heard(Expanded(Typed(item), Rules))
  <2>1. /\ \A r \in 1 .. Rules - 1 : Expanded(Typed(item), r) = Typed(item)
        /\ Says(heard, ":") /\ Value(Until(heard, ":")) = Num(item.a)
    BY <1>1, <1>4, DialLeft, Zenon
  <2> HIDE DEF heard
  <2>2. Understood(item, heard)
    <3>1. CASE item.kind = "time"
      BY <1>4, <2>1, <3>1, Zenon DEF Understood
    <3>2. CASE item.kind = "clock"
      BY <1>4, <2>1, <3>2, Zenon DEF Understood
    <3> QED BY <3>1, <3>2, Zenon
  <2>3. Way(item, 1, Typed(item))
    BY <1>2, <2>1, <2>2, Zenon DEF Way, heard
  <2> QED BY <2>3, Zenon
<1> QED BY <1>3, <1>4, Zenon
LEMMA RowOfSeven ==
  ASSUME NEW x, NEW y, NEW z, NEW u, NEW v, NEW p, NEW q
  PROVE  LET t == <<x, y, z, u, v, p, q>> IN
         /\ Len(t) = 7 /\ 7 > 0
         /\ 1 \in 1 .. 7 /\ 2 \in 1 .. 7 /\ 3 \in 1 .. 7 /\ 4 \in 1 .. 7 /\ 5 \in 1 .. 7
         /\ 6 \in 1 .. 7 /\ 7 \in 1 .. 7
         /\ t[1] = x /\ t[2] = y /\ t[3] = z /\ t[4] = u /\ t[5] = v /\ t[6] = p /\ t[7] = q
BY SMT

LEMMA DialFigures ==
  ASSUME NEW a \in Seq(0 .. 9), NEW b \in Seq(0 .. 9), Len(a) \in 1 .. 2, Len(b) = 2
  PROVE  /\ Len(a) \in 0 .. 4 /\ Len(b) \in 0 .. 4 /\ Len(<<>>) \in 0 .. 4
         /\ Len(a) > 0 /\ Len(b) > 0 /\ Len(b) \in {2}
<1>1. \A n \in 1 .. 2 : n \in 0 .. 4 /\ n > 0
  BY SMT
<1>2. 2 \in 0 .. 4 /\ 2 > 0 /\ Len(<<>>) \in 0 .. 4
  BY SMT
<1> QED BY <1>1, <1>2, Zenon

LEMMA DialOfThree ==
  ASSUME NEW a \in Seq(0 .. 9), NEW b \in Seq(0 .. 9), Len(a) \in 1 .. 2, Len(b) = 2,
         NEW t, t \in Seq(Token), t = <<N(a), W(":"), N(b)>>
  PROVE  Dial(t, a, b) /\ Shown(t, "")
<1>1. /\ Len(t) = 3 /\ t[1] = N(a) /\ t[2] = W(":") /\ t[3] = N(b)
      /\ 1 \in 1 .. 3 /\ 2 \in 1 .. 3 /\ 3 \in 1 .. 3 /\ 3 > 0
  BY RowOfThree, Zenon
<1>2. /\ \A i \in 1 .. 3 : i = 1 \/ i = 2 \/ i = 3
      /\ 1 + 1 = 2 /\ 1 + 2 = 3 /\ 1 + 3 = 4 /\ 3 - 1 = 2 /\ 4 \notin 1 .. 3 /\ 4 = 3 + 1
  BY SMT
<1>3. /\ t[1].d = a /\ t[2].d = <<>> /\ t[3].d = b
      /\ t[1].w = "" /\ t[2].w = ":" /\ t[3].w = ""
  BY <1>1, Fields, Zenon
<1>4. /\ Shows(t, 2, ":") /\ Figures(t, 1, a) /\ Figures(t, 3, b)
  BY <1>1, <1>3, Zenon DEF Shows, Figures
<1>5. \A i \in 1 .. Len(t) : t[i].d = <<>> \/ i = 1 \/ At(t, i - 1, {":"})
  <2>1. At(t, 2, {":"})
    BY <1>4, ShowsAt, Zenon
  <2> QED BY <1>1, <1>2, <1>3, <2>1, Zenon
<1>6. \A i \in 1 .. Len(t) : t[i].w \in {"", ":", " ", "am", "pm"} /\ Len(t[i].d) \in 0 .. 4
  BY <1>1, <1>2, <1>3, DialFigures, Zenon
<1>7. Dial(t, a, b)
  BY <1>1, <1>5, <1>6, Zenon DEF Dial
<1>8. ClockAt(t, 1)
  <2>1. NumAt(t, 1, 1 .. 2) /\ NumAt(t, 3, {2}) /\ At(t, 2, {":"})
    BY <1>4, DialFigures, FiguresAt, ShowsAt, Zenon
  <2>2. ~At(t, 1 - 1, {":"})
    BY FirstEdge, Zenon DEF At
  <2> QED BY <1>2, <2>1, <2>2, Zenon DEF ClockAt
<1>9. \A words : ~At(t, 1 + 3, words)
  BY <1>1, <1>2, Zenon DEF At, In
<1>10. TimeBareEnd(t, 1) = Len(t) + 1
  BY <1>1, <1>2, <1>8, <1>9, Zenon DEF TimeBareEnd
<1>11. TimeMeridiemEnd(t, 1) = 0
  BY <1>9, Zenon DEF TimeMeridiemEnd, MeridiemOf, After
<1>12. \A i : TimeMeridiemEnd(t, i) = 0
  <2>1. \A i : TimeMeridiemEnd(t, i) # 0 => i = 1
    BY <1>7, DialOnce, Zenon DEF TimeMeridiemEnd
  <2> QED BY <1>11, <2>1, Zenon
<1>13. Shown(t, "")
  BY <1>10, <1>12, Zenon DEF Shown
<1> QED BY <1>7, <1>13, Zenon

LEMMA DialOfFive ==
  ASSUME NEW a \in Seq(0 .. 9), NEW b \in Seq(0 .. 9), Len(a) \in 1 .. 2, Len(b) = 2,
         NEW m \in Meridiems,
         NEW t, t \in Seq(Token), t = <<N(a), W(":"), N(b), Space, W(m)>>
  PROVE  Dial(t, a, b) /\ Shown(t, m)
<1>1. /\ Len(t) = 5 /\ t[1] = N(a) /\ t[2] = W(":") /\ t[3] = N(b) /\ t[4] = Space /\ t[5] = W(m)
      /\ 1 \in 1 .. 5 /\ 2 \in 1 .. 5 /\ 3 \in 1 .. 5 /\ 4 \in 1 .. 5 /\ 5 \in 1 .. 5
  BY RowOfFive, Zenon
<1>2. /\ \A i \in 1 .. 5 : i = 1 \/ i = 2 \/ i = 3 \/ i = 4 \/ i = 5
      /\ 1 + 1 = 2 /\ 1 + 2 = 3 /\ 1 + 3 = 4 /\ 3 - 1 = 2
  BY SMT
<1>3. /\ t[1].d = a /\ t[2].d = <<>> /\ t[3].d = b /\ t[4].d = <<>> /\ t[5].d = <<>>
      /\ t[1].w = "" /\ t[2].w = ":" /\ t[3].w = "" /\ t[4].w = " " /\ t[5].w = m
  BY <1>1, Fields, Zenon
<1>4. /\ Shows(t, 2, ":") /\ Figures(t, 1, a) /\ Figures(t, 3, b) /\ Shows(t, 4, " ")
      /\ Shows(t, 5, m)
  BY <1>1, <1>3, Zenon DEF Shows, Figures
<1>5. \A i \in 1 .. Len(t) : t[i].d = <<>> \/ i = 1 \/ At(t, i - 1, {":"})
  <2>1. At(t, 2, {":"})
    BY <1>4, ShowsAt, Zenon
  <2> QED BY <1>1, <1>2, <1>3, <2>1, Zenon
<1>6. \A i \in 1 .. Len(t) : t[i].w \in {"", ":", " ", "am", "pm"} /\ Len(t[i].d) \in 0 .. 4
  <2> DEFINE marks == {"", ":", " ", "am", "pm"}
  <2>1. "" \in marks /\ ":" \in marks /\ " " \in marks /\ m \in marks
    BY Zenon DEF Meridiems
  <2> HIDE DEF marks
  <2>2. \A i \in 1 .. 5 : t[i].w \in marks
    BY <1>2, <1>3, <2>1, Zenon
  <2>3. Len(a) \in 0 .. 4 /\ Len(b) \in 0 .. 4 /\ Len(<<>>) \in 0 .. 4
    BY DialFigures, Zenon
  <2>4. \A i \in 1 .. 5 : Len(t[i].d) \in 0 .. 4
    BY <1>2, <1>3, <2>3, Zenon
  <2> QED BY <1>1, <2>2, <2>4, Zenon DEF marks
<1>7. Dial(t, a, b)
  BY <1>1, <1>5, <1>6, Zenon DEF Dial
<1>8. ClockAt(t, 1)
  <2>1. NumAt(t, 1, 1 .. 2) /\ NumAt(t, 3, {2}) /\ At(t, 2, {":"})
    BY <1>4, DialFigures, FiguresAt, ShowsAt, Zenon
  <2>2. ~At(t, 1 - 1, {":"})
    BY FirstEdge, Zenon DEF At
  <2> QED BY <1>2, <2>1, <2>2, Zenon DEF ClockAt
<1>9. MeridiemOf(t, 1) = 5
  <2>1. " " \notin {":"} /\ " " \in {" "}
    BY Zenon
  <2>2. ~At(t, 4, {":"})
    BY <1>4, <2>1, ShowsAt, Zenon
  <2>3. After(t, 4, {" "}) = 5
    BY <1>4, <2>1, AfterIt, Successors, Zenon
  <2> QED BY <1>2, <2>2, <2>3, Zenon DEF MeridiemOf
<1>10. TimeMeridiemEnd(t, 1) = Len(t) + 1
  <2>1. At(t, 5, Meridiems)
    BY <1>4, ShowsAt, Zenon
  <2> QED BY <1>1, <1>8, <1>9, <2>1, Zenon DEF TimeMeridiemEnd
<1>11. m # ""
  BY Zenon DEF Meridiems
<1>12. Shown(t, m)
  BY <1>3, <1>9, <1>10, <1>11, Zenon DEF Shown
<1> QED BY <1>7, <1>12, Zenon

LEMMA DialOfSeven ==
  ASSUME NEW a \in Seq(0 .. 9), NEW b \in Seq(0 .. 9), Len(a) \in 1 .. 2, Len(b) = 2,
         NEW m \in Meridiems,
         NEW t, t \in Seq(Token), t = <<N(a), W(":"), N(b), W(":"), N(b), Space, W(m)>>
  PROVE  Dial(t, a, b) /\ Shown(t, m)
<1>1. /\ Len(t) = 7 /\ t[1] = N(a) /\ t[2] = W(":") /\ t[3] = N(b) /\ t[4] = W(":") /\ t[5] = N(b)
      /\ t[6] = Space /\ t[7] = W(m)
      /\ 1 \in 1 .. 7 /\ 2 \in 1 .. 7 /\ 3 \in 1 .. 7 /\ 4 \in 1 .. 7 /\ 5 \in 1 .. 7
      /\ 6 \in 1 .. 7 /\ 7 \in 1 .. 7
  BY RowOfSeven, Zenon
<1>2. /\ \A i \in 1 .. 7 : i = 1 \/ i = 2 \/ i = 3 \/ i = 4 \/ i = 5 \/ i = 6 \/ i = 7
      /\ 1 + 1 = 2 /\ 1 + 2 = 3 /\ 1 + 3 = 4 /\ 3 - 1 = 2 /\ 5 - 1 = 4 /\ 1 + 4 = 5 /\ 1 + 5 = 6
  BY SMT
<1>3. /\ t[1].d = a /\ t[2].d = <<>> /\ t[3].d = b /\ t[4].d = <<>> /\ t[5].d = b
      /\ t[6].d = <<>> /\ t[7].d = <<>>
      /\ t[1].w = "" /\ t[2].w = ":" /\ t[3].w = "" /\ t[4].w = ":" /\ t[5].w = ""
      /\ t[6].w = " " /\ t[7].w = m
  BY <1>1, Fields, Zenon
<1>4. /\ Shows(t, 2, ":") /\ Figures(t, 1, a) /\ Figures(t, 3, b) /\ Shows(t, 4, ":")
      /\ Figures(t, 5, b) /\ Shows(t, 6, " ") /\ Shows(t, 7, m)
  BY <1>1, <1>3, Zenon DEF Shows, Figures
<1>5. \A i \in 1 .. Len(t) : t[i].d = <<>> \/ i = 1 \/ At(t, i - 1, {":"})
  <2>1. At(t, 2, {":"}) /\ At(t, 4, {":"})
    BY <1>4, ShowsAt, Zenon
  <2> QED BY <1>1, <1>2, <1>3, <2>1, Zenon
<1>6. \A i \in 1 .. Len(t) : t[i].w \in {"", ":", " ", "am", "pm"} /\ Len(t[i].d) \in 0 .. 4
  <2> DEFINE marks == {"", ":", " ", "am", "pm"}
  <2>1. "" \in marks /\ ":" \in marks /\ " " \in marks /\ m \in marks
    BY Zenon DEF Meridiems
  <2> HIDE DEF marks
  <2>2. \A i \in 1 .. 7 : t[i].w \in marks
    BY <1>2, <1>3, <2>1, Zenon
  <2>3. Len(a) \in 0 .. 4 /\ Len(b) \in 0 .. 4 /\ Len(<<>>) \in 0 .. 4
    BY DialFigures, Zenon
  <2>4. \A i \in 1 .. 7 : Len(t[i].d) \in 0 .. 4
    BY <1>2, <1>3, <2>3, Zenon
  <2> QED BY <1>1, <2>2, <2>4, Zenon DEF marks
<1>7. Dial(t, a, b)
  BY <1>1, <1>5, <1>6, Zenon DEF Dial
<1>8. ClockAt(t, 1)
  <2>1. NumAt(t, 1, 1 .. 2) /\ NumAt(t, 3, {2}) /\ At(t, 2, {":"})
    BY <1>4, DialFigures, FiguresAt, ShowsAt, Zenon
  <2>2. ~At(t, 1 - 1, {":"})
    BY FirstEdge, Zenon DEF At
  <2> QED BY <1>2, <2>1, <2>2, Zenon DEF ClockAt
<1>9. MeridiemOf(t, 1) = 7
  <2>1. At(t, 4, {":"}) /\ NumAt(t, 5, {2})
    BY <1>4, DialFigures, FiguresAt, ShowsAt, Zenon
  <2>2. After(t, 6, {" "}) = 7
    BY <1>4, AfterIt, Successors, Zenon
  <2> QED BY <1>2, <2>1, <2>2, Zenon DEF MeridiemOf
<1>10. TimeMeridiemEnd(t, 1) = Len(t) + 1
  <2>1. At(t, 7, Meridiems)
    BY <1>4, ShowsAt, Zenon
  <2> QED BY <1>1, <1>8, <1>9, <2>1, Zenon DEF TimeMeridiemEnd
<1>11. m # ""
  BY Zenon DEF Meridiems
<1>12. Shown(t, m)
  BY <1>3, <1>9, <1>10, <1>11, Zenon DEF Shown
<1> QED BY <1>7, <1>12, Zenon
LEMMA Joins ==
  ASSUME NEW A, NEW s \in Seq(A), NEW r \in Seq(A), NEW whole \in Seq(A),
         Len(whole) = Len(s) + Len(r),
         \A k \in 1 .. Len(s) : whole[k] = s[k],
         \A k \in 1 .. Len(r) : whole[Len(s) + k] = r[k]
  PROVE  s \o r = whole
<1> DEFINE both == s \o r
<1>1. /\ both \in Seq(A) /\ Len(both) = Len(s) + Len(r)
      /\ \A i \in 1 .. Len(s) + Len(r) : both[i] = IF i <= Len(s) THEN s[i] ELSE r[i - Len(s)]
  BY ConcatProperties, Zenon
<1> HIDE DEF both
<1>2. Len(s) \in Nat /\ Len(r) \in Nat
  BY LenProperties, Zenon
<1>3. ASSUME NEW i \in 1 .. Len(s) + Len(r) PROVE both[i] = whole[i]
  <2>1. CASE i <= Len(s)
    <3>1. i \in 1 .. Len(s)
      BY <1>2, <2>1, SMT
    <3> QED BY <1>1, <2>1, <3>1, Zenon
  <2>2. CASE ~(i <= Len(s))
    <3>1. i - Len(s) \in 1 .. Len(r) /\ Len(s) + (i - Len(s)) = i
      BY <1>2, <2>2, SMT
    <3> QED BY <1>1, <2>2, <3>1, Zenon
  <2> QED BY <2>1, <2>2, Zenon
<1>4. both = whole
  BY <1>1, <1>3, SeqEqual, Zenon
<1> QED BY <1>4 DEF both

LEMMA ThreeAndTwo ==
  \A x, y, z, p, q : <<x, y, z>> \o <<p, q>> = <<x, y, z, p, q>>
<1> SUFFICES ASSUME NEW x, NEW y, NEW z, NEW p, NEW q
             PROVE  <<x, y, z>> \o <<p, q>> = <<x, y, z, p, q>>
  OBVIOUS
<1> DEFINE A == {x, y, z, p, q}
           three == <<x, y, z>>
           pair == <<p, q>>
           whole == <<x, y, z, p, q>>
<1>1. three \in Seq(A) /\ pair \in Seq(A) /\ whole \in Seq(A)
  BY SMT
<1>2. /\ Len(three) = 3 /\ three[1] = x /\ three[2] = y /\ three[3] = z
      /\ Len(pair) = 2 /\ pair[1] = p /\ pair[2] = q
      /\ Len(whole) = 5 /\ whole[1] = x /\ whole[2] = y /\ whole[3] = z /\ whole[4] = p /\ whole[5] = q
  BY SMT
<1> HIDE DEF A, three, pair, whole
<1>3. /\ \A k \in 1 .. 2 : k = 1 \/ k = 2
      /\ \A k \in 1 .. 3 : k = 1 \/ k = 2 \/ k = 3
      /\ 3 + 1 = 4 /\ 3 + 2 = 5
  BY SMT
<1>4. Len(whole) = Len(three) + Len(pair)
  BY <1>2, <1>3, Zenon
<1>5. \A k \in 1 .. Len(three) : whole[k] = three[k]
  BY <1>2, <1>3, Zenon
<1>6. \A k \in 1 .. Len(pair) : whole[Len(three) + k] = pair[k]
  BY <1>2, <1>3, Zenon
<1>7. three \o pair = whole
  BY <1>1, <1>4, <1>5, <1>6, Joins, Zenon
<1> QED BY <1>7 DEF three, pair, whole

LEMMA FiveAndTwo ==
  \A x, y, z, u, v, p, q : <<x, y, z, u, v>> \o <<p, q>> = <<x, y, z, u, v, p, q>>
<1> SUFFICES ASSUME NEW x, NEW y, NEW z, NEW u, NEW v, NEW p, NEW q
             PROVE  <<x, y, z, u, v>> \o <<p, q>> = <<x, y, z, u, v, p, q>>
  OBVIOUS
<1> DEFINE A == {x, y, z, u, v, p, q}
           five == <<x, y, z, u, v>>
           pair == <<p, q>>
           whole == <<x, y, z, u, v, p, q>>
<1>1. five \in Seq(A) /\ pair \in Seq(A) /\ whole \in Seq(A)
  BY SMT
<1>2. /\ Len(five) = 5 /\ five[1] = x /\ five[2] = y /\ five[3] = z /\ five[4] = u /\ five[5] = v
      /\ Len(pair) = 2 /\ pair[1] = p /\ pair[2] = q
      /\ Len(whole) = 7 /\ whole[1] = x /\ whole[2] = y /\ whole[3] = z /\ whole[4] = u
      /\ whole[5] = v /\ whole[6] = p /\ whole[7] = q
  BY SMT
<1> HIDE DEF A, five, pair, whole
<1>3. /\ \A k \in 1 .. 2 : k = 1 \/ k = 2
      /\ \A k \in 1 .. 5 : k = 1 \/ k = 2 \/ k = 3 \/ k = 4 \/ k = 5
      /\ 5 + 1 = 6 /\ 5 + 2 = 7
  BY SMT
<1>4. Len(whole) = Len(five) + Len(pair)
  BY <1>2, <1>3, Zenon
<1>5. \A k \in 1 .. Len(five) : whole[k] = five[k]
  BY <1>2, <1>3, Zenon
<1>6. \A k \in 1 .. Len(pair) : whole[Len(five) + k] = pair[k]
  BY <1>2, <1>3, Zenon
<1>7. five \o pair = whole
  BY <1>1, <1>4, <1>5, <1>6, Joins, Zenon
<1> QED BY <1>7 DEF five, pair, whole

LEMMA TimeWay ==
  ASSUME NEW item \in Item, item.kind = "time", Written(item)
  PROVE  \E own, mid : Way(item, own, mid)
<1> DEFINE t == Typed(item)
<1>1. /\ item.a \in Seq(0 .. 9) /\ Len(item.a) > 0 /\ Len(item.a) \in 1 .. 2
      /\ item.b \in Seq(0 .. 9) /\ Len(item.b) = 2 /\ item.m \in {"", "am", "pm"}
  <2>1. item.a \in Seq(0 .. 9) /\ item.b \in Seq(0 .. 9) /\ item.m \in {"", "am", "pm"}
    BY DEF Item
  <2>2. Len(item.a) > 0 /\ Len(item.a) <= 2 /\ 2 \in Nat /\ Len(item.b) = 2
    BY Zenon DEF Written
  <2> QED BY <2>1, <2>2, SomeFigures, Zenon
<1>2. t \in Seq(Token)
  <2>1. item.kind = "area" => Len(item.b) = 7
    BY Zenon
  <2> QED BY <2>1, TypedType, Zenon
<1>3. t = <<N(item.a), W(":"), N(item.b)>> \o (IF item.m = "" THEN <<>> ELSE <<Space, W(item.m)>>)
  BY Zenon DEF Typed
<1> HIDE DEF t
<1>4. Dial(t, item.a, item.b) /\ Shown(t, item.m)
  <2>1. CASE item.m = ""
    <3> DEFINE row == <<N(item.a), W(":"), N(item.b)>>
    <3>1. t = row \o <<>>
      BY <1>3, <2>1, Zenon
    <3>2. row \o <<>> = row
      BY SMT
    <3>3. t = <<N(item.a), W(":"), N(item.b)>>
      BY <3>1, <3>2, Zenon
    <3> QED BY <1>1, <1>2, <2>1, <3>3, DialOfThree, Zenon
  <2>2. CASE item.m # ""
    <3>1. item.m \in Meridiems
      BY <1>1, <2>2, Zenon DEF Meridiems
    <3>2. t = <<N(item.a), W(":"), N(item.b)>> \o <<Space, W(item.m)>>
      BY <1>3, <2>2, Zenon
    <3>3. t = <<N(item.a), W(":"), N(item.b), Space, W(item.m)>>
      BY <3>2, ThreeAndTwo
    <3> QED BY <1>1, <1>2, <3>1, <3>3, DialOfFive, Zenon
  <2> QED BY <2>1, <2>2, Zenon
<1> QED BY <1>1, <1>4, DialWay, Zenon DEF t

LEMMA ClockWay ==
  ASSUME NEW item \in Item, item.kind = "clock", Written(item)
  PROVE  \E own, mid : Way(item, own, mid)
<1> DEFINE t == Typed(item)
<1>1. /\ item.a \in Seq(0 .. 9) /\ Len(item.a) > 0 /\ Len(item.a) \in 1 .. 2
      /\ item.b \in Seq(0 .. 9) /\ Len(item.b) = 2 /\ item.m # "" /\ item.m \in Meridiems
  <2>1. item.a \in Seq(0 .. 9) /\ item.b \in Seq(0 .. 9) /\ item.m \in {"", "am", "pm"}
    BY DEF Item
  <2>2. Len(item.a) > 0 /\ Len(item.a) <= 2 /\ 2 \in Nat /\ Len(item.b) = 2 /\ item.m # ""
    BY Zenon DEF Written
  <2>3. item.m \in Meridiems
    BY <2>1, <2>2, Zenon DEF Meridiems
  <2> QED BY <2>1, <2>2, <2>3, SomeFigures, Zenon
<1>2. t \in Seq(Token)
  <2>1. item.kind = "area" => Len(item.b) = 7
    BY Zenon
  <2> QED BY <2>1, TypedType, Zenon
<1>3. t = <<N(item.a), W(":"), N(item.b), W(":"), N(item.b)>> \o <<Space, W(item.m)>>
  BY <1>1, Zenon DEF Typed
<1> HIDE DEF t
<1>4. t = <<N(item.a), W(":"), N(item.b), W(":"), N(item.b), Space, W(item.m)>>
  <2> DEFINE a == N(item.a)
             b == N(item.b)
             c == W(":")
             q == W(item.m)
  <2>1. t = <<a, c, b, c, b>> \o <<Space, q>>
    BY <1>3
  <2> HIDE DEF a, b, c, q
  <2>2. <<a, c, b, c, b>> \o <<Space, q>> = <<a, c, b, c, b, Space, q>>
    BY FiveAndTwo
  <2>3. t = <<a, c, b, c, b, Space, q>>
    BY <2>1, <2>2, Zenon
  <2> QED BY <2>3 DEF a, b, c, q
<1>5. Dial(t, item.a, item.b) /\ Shown(t, item.m)
  BY <1>1, <1>2, <1>4, DialOfSeven, Zenon
<1> QED BY <1>1, <1>5, DialWay, Zenon DEF t

LEMMA HourHeard ==
  ASSUME NEW a \in Seq(0 .. 9), Len(a) \in 1 .. 2, NEW m \in Meridiems,
         NEW t, t \in Seq(Token), t = <<N(a), W(m)>>
  PROVE  LET heard == Heard(Expanded(t, Rules)) IN Value(SubSeq(heard, 1, Len(heard) - 1)) = Num(a)
<1>1. Len(t) = 2 /\ 1 \in 1 .. 2 /\ 2 \in 1 .. 2 /\ 2 > 0 /\ t[1] = N(a) /\ t[2] = W(m)
  BY RowOfTwo, Zenon
<1>2. m # "." /\ ~Silent(m)
  BY Zenon DEF Meridiems, Silent
<1>3. Len(a) \in 0 .. 4 /\ Len(<<>>) \in 0 .. 4 /\ Len(a) > 0
  <2>1. \A n \in 1 .. 2 : n \in 0 .. 4 /\ n > 0
    BY SMT
  <2>2. Len(<<>>) \in 0 .. 4
    BY SMT
  <2> QED BY <2>1, <2>2, Zenon
<1>4. Short(t)
  <2>1. \A i \in 1 .. 2 : i = 1 \/ i = 2
    BY SMT
  <2>2. N(a).w # "." /\ W(m).w # "."
    BY <1>2, Fields, Zenon
  <2>3. Len(N(a).d) \in 0 .. 4 /\ Len(W(m).d) \in 0 .. 4
    BY <1>3, Fields, Zenon
  <2> QED BY <1>1, <2>1, <2>2, <2>3, Zenon DEF Short
<1>5. PICK f : HeardFrom(f, t) /\ f[1] = Heard(Sub(t, IntEnd, SayInt))
  BY <1>1, IntsHeard, Zenon
<1>6. f[1] = Piece(t[1]) \o f[2] /\ f[2] = Piece(t[2]) \o f[3] /\ f[3] = <<>>
  <2>1. 1 + 1 = 2 /\ 2 + 1 = 3
    BY SMT
  <2> QED BY <1>1, <1>5, <2>1, Zenon DEF HeardFrom
<1>7. Piece(t[1]) = NumberWords[Num(a)] /\ Piece(t[2]) = <<m>>
  BY <1>1, <1>2, <1>3, NumberPiece, WordPiece, Zenon
<1>8. m \in Vocabulary /\ <<m>> \in Seq(Vocabulary)
  <2>1. m \in Vocabulary
    BY Zenon DEF Meridiems, Vocabulary, WordsTyped
  <2> QED BY <2>1, SaidWord, Zenon
<1>9. f[2] = <<m>>
  BY <1>6, <1>7, <1>8, ConcatEmptySeq, Zenon
<1>10. Closing(f[1], NumberWords[Num(a)], m)
  BY <1>6, <1>7, <1>9, Zenon DEF Closing
<1>11. NumberWords[Num(a)] \in Seq(Vocabulary) /\ Value(NumberWords[Num(a)]) = Num(a)
  BY NumType, NumberSaid, NumbersReadBack, Zenon
<1>12. SubSeq(f[1], 1, Len(f[1]) - 1) = NumberWords[Num(a)]
  <2>1. m \in Vocabulary /\ NumberWords[Num(a)] \in Seq(Vocabulary)
    BY <1>8, <1>11, Zenon
  <2> QED BY <1>10, <2>1, LastOf
<1>13. Heard(Expanded(t, Rules)) = f[1]
  BY <1>4, <1>5, OnlyInts, Zenon
<1> QED BY <1>11, <1>12, <1>13, Zenon

LEMMA HourWay ==
  ASSUME NEW item \in Item, item.kind = "hour", Written(item)
  PROVE  \E own, mid : Way(item, own, mid)
<1> DEFINE t == <<N(item.a), W(item.m)>>
           hour == Num(item.a)
           words == SpokenTime(hour, 0, item.m)
<1>1. Typed(item) = t
  BY Zenon DEF Typed
<1>2. /\ item.a \in Seq(0 .. 9) /\ Len(item.a) > 0 /\ Len(item.a) \in 1 .. 2
      /\ item.m \in {"", "am", "pm"} /\ item.m \in Meridiems
  <2>1. item.a \in Seq(0 .. 9) /\ item.m \in {"", "am", "pm"}
    BY DEF Item
  <2>2. Len(item.a) > 0 /\ Len(item.a) <= 2 /\ 2 \in Nat /\ item.m # ""
    BY Zenon DEF Written
  <2>3. item.m \in Meridiems
    BY <2>1, <2>2, Zenon DEF Meridiems
  <2> QED BY <2>1, <2>2, <2>3, SomeFigures, Zenon
<1>3. t \in Seq(Token)
  <2>1. item.kind = "area" => Len(item.b) = 7
    BY Zenon
  <2> QED BY <1>1, <2>1, TypedType, Zenon
<1>4. t = <<N(item.a), W(item.m)>>
  OBVIOUS
<1> HIDE DEF t
<1>5. Len(t) = 2 /\ 1 \in 1 .. 2 /\ 2 \in 1 .. 2 /\ 2 > 0 /\ t[1] = N(item.a) /\ t[2] = W(item.m)
  BY <1>4, RowOfTwo, Zenon
<1>6. /\ Shows(t, 1, "") /\ Shows(t, 2, item.m) /\ Figures(t, 1, item.a)
      /\ t[1].d = item.a /\ t[2].d = <<>>
  BY <1>5, Fields, Zenon DEF Shows, Figures
<1>7. \A i \in 1 .. 2 : i = 1 \/ i = 2
  BY SMT
<1>8. \A i : ~ClockAt(t, i)
  <2>1. ":" \notin Meridiems /\ "" \notin {":"}
    BY Zenon DEF Meridiems
  <2>2. ~At(t, 1, {":"}) /\ ~At(t, 2, {":"})
    BY <1>2, <1>6, <2>1, ShowsAt, Zenon
  <2>3. \A i : At(t, i, {":"}) => i = 1 \/ i = 2
    BY <1>5, <1>7, Zenon DEF At, In
  <2> QED BY <2>2, <2>3, Zenon DEF ClockAt
<1>9. \A i : HourEnd(t, i) # 0 => i = 1
  BY <1>5, <1>6, <1>7, Zenon DEF HourEnd, NumAt, In
<1>10. HourEnd(t, 1) = 2 + 1
  <2>2. After(t, 2, {" "}) = 2
    <3> DEFINE space == {" "}
    <3>1. item.m \notin space
      BY <1>2, Zenon DEF Meridiems
    <3> HIDE DEF space
    <3>2. \A j : Shows(t, j, item.m) => After(t, j, space) = j
      BY <3>1, AfterNone, Zenon
    <3> QED BY <1>6, <3>2, Zenon DEF space
  <2>3. At(t, 2, Meridiems) /\ NumAt(t, 1, 1 .. 2)
    BY <1>2, <1>6, ShowsAt, FiguresAt, Zenon
  <2>4. ~At(t, 1 - 1, {":", "."})
    BY <1>3, FirstEdge, Zenon DEF At
  <2>5. 1 + 1 = 2
    BY SMT
  <2> QED BY <2>2, <2>3, <2>4, <2>5, Zenon DEF HourEnd
<1>11. hour \in Nat
  BY <1>2, NumType, Zenon
<1>12. /\ 1 \in 1 .. Rules - 1 /\ (\A r \in 1 .. 1 - 1 : FALSE)
       /\ \A r \in 1 + 1 .. Rules - 1 : r \in 1 .. 9 /\ r # 1
  BY SMT DEF Rules
<1>13. CASE hour > 23
  <2> DEFINE heard == Heard(Expanded(t, Rules))
  <2>1. Expanded(t, 1) = t
    <3>1. \A i \in 1 .. Len(t) : HourEnd(t, i) # 0 => Num(t[i].d) > 23
      BY <1>6, <1>9, <1>13, Zenon
    <3>2. ExpandTimes(t) = t
      BY <1>3, <1>8, <3>1, NotATime, Zenon
    <3> QED BY <3>2, ExpandedIs, Zenon
  <2>2. \A r \in 1 + 1 .. Rules - 1 : Expanded(t, r) = t
    <3> DEFINE S == {"", item.m}
    <3>1. \A i \in 1 .. Len(t) : t[i].w \in S
      BY <1>5, <1>6, AllOfTwo, Zenon
    <3>2. S \subseteq {"", "am", "pm"}
      BY <1>2
    <3> HIDE DEF S
    <3>3. DOMAIN Abbreviations = {"mr", "dr", "dept"}
      BY SMT DEF Abbreviations
    <3>4. \A r \in 1 .. 9 : r # 1 => {"", "am", "pm"} \cap Keys(r) = {}
      BY <3>3, RulesBefore, KeysAre, Zenon DEF ExtensionNames
    <3>5. \A r \in 1 .. 9 : r # 1 => S \cap Keys(r) = {}
      BY <3>2, <3>4, Zenon
    <3> QED BY <1>3, <1>12, <3>1, <3>5, NoKeyThere, Zenon
  <2>3. Value(SubSeq(heard, 1, Len(heard) - 1)) = hour
    BY <1>2, <1>3, <1>4, HourHeard, Zenon
  <2> HIDE DEF heard
  <2>4. ~(Num(item.a) <= 23)
    <3> HIDE DEF hour
    <3>1. ~(hour <= 23)
      BY <1>11, <1>13, SMT
    <3> QED BY <3>1 DEF hour
  <2>5. Understood(item, heard)
    BY <2>3, <2>4, Zenon DEF Understood
  <2>6. Way(item, 1, t)
    BY <1>1, <1>12, <2>1, <2>2, <2>5, Zenon DEF Way, heard
  <2> QED BY <2>6, Zenon
<1>14. CASE ~(hour > 23)
  <2>1. hour \in 0 .. 23 /\ Num(item.a) <= 23 /\ 0 \in 0 .. 59 /\ 0 \in Nat
    <3> HIDE DEF hour
    <3>1. hour \in 0 .. 23 /\ hour <= 23 /\ 0 \in 0 .. 59 /\ 0 \in Nat
      BY <1>11, <1>14, SMT
    <3> QED BY <3>1 DEF hour
  <2>2. words \in Seq(Voice) /\ Len(words) > 0
    BY <2>1, SpokenTimeVoiced, Zenon
  <2>3. ClockIs(words, hour, 0, item.m)
    BY <1>2, <2>1, TimesReadBack, Zenon
  <2>4. SayHour(t, 1) = Spoken(words)
    <3>1. (2 + 1) - 1 = 2
      BY SMT
    <3>2. t[HourEnd(t, 1) - 1].w = item.m
      BY <1>6, <1>10, <3>1, Zenon DEF Shows
    <3> QED BY <1>6, <1>14, <3>2, Zenon DEF SayHour
  <2> HIDE DEF words
  <2>5. Sub(t, TimeMeridiemEnd, SayTimeMeridiem) = t
    <3>1. \A i : TimeMeridiemEnd(t, i) = 0
      BY <1>8, Zenon DEF TimeMeridiemEnd
    <3> QED BY <1>3, <3>1, PassNone, DomainOfText, Zenon DEF Sub
  <2>6. Sub(t, TimeBareEnd, SayTimeBare) = t
    <3>1. \A i : TimeBareEnd(t, i) = 0
      BY <1>8, Zenon DEF TimeBareEnd
    <3> QED BY <1>3, <3>1, PassNone, DomainOfText, Zenon DEF Sub
  <2>7. Sub(t, HourEnd, SayHour) = Spoken(words)
    BY <1>3, <1>5, <1>10, <2>4, HourTakes, Zenon
  <2>8. Expanded(t, 1) = Spoken(words)
    <3>1. ExpandTimes(t) = Spoken(words)
      BY <2>5, <2>6, <2>7, Zenon DEF ExpandTimes
    <3> QED BY <3>1, ExpandedIs, Zenon
  <2>9. Understood(item, words)
    BY <2>1, <2>3, Zenon DEF Understood
  <2>10. Way(item, 1, Spoken(words))
    BY <1>1, <1>12, <2>2, <2>8, <2>9, SpokenWay, Zenon
  <2> QED BY <2>10, Zenon
<1> QED BY <1>13, <1>14, Zenon
----------------------------------------------------------------------------
(* Every item that is written as such items are finds its way.             *)

LEMMA EveryWay ==
  ASSUME NEW item \in Item, Written(item)
  PROVE  \E own, mid : Way(item, own, mid)
<1>1. item.kind \in Kinds
  BY DEF Item
<1>2. \/ item.kind = "number" \/ item.kind = "time" \/ item.kind = "hour" \/ item.kind = "room"
      \/ item.kind = "wing" \/ item.kind = "bus" \/ item.kind = "locker" \/ item.kind = "ext"
      \/ item.kind = "phone" \/ item.kind = "range" \/ item.kind = "ordinal"
      \/ item.kind = "decimal" \/ item.kind = "percent" \/ item.kind = "area"
      \/ item.kind = "clock"
  BY <1>1, Zenon DEF Kinds
<1>3. \/ item.kind = "number" \/ item.kind = "time" \/ item.kind = "hour" \/ item.kind = "room"
      \/ item.kind = "wing" \/ item.kind = "bus" \/ item.kind = "locker" \/ item.kind = "ext"
      => \E own, mid : Way(item, own, mid)
  BY NumberWay, TimeWay, HourWay, RoomWay, WingWay, BusWay, LockerWay, ExtensionWay, Zenon
<1>4. \/ item.kind = "phone" \/ item.kind = "range" \/ item.kind = "ordinal"
      \/ item.kind = "decimal" \/ item.kind = "percent" \/ item.kind = "area"
      \/ item.kind = "clock"
      => \E own, mid : Way(item, own, mid)
  BY PhoneWay, RangeWay, OrdinalWay, DecimalWay, PercentWay, AreaWay, ClockWay, Zenon
<1> QED BY <1>2, <1>3, <1>4, Zenon

(* The text of one item after r rules.                                     *)
Stage(item, own, mid, r) ==
  IF r < own THEN Typed(item) ELSE IF r < Rules THEN mid ELSE Expanded(mid, Rules)

LEMMA StageStep ==
  ASSUME NEW item, NEW own, NEW mid, Way(item, own, mid), NEW r \in 0 .. Rules - 1
  PROVE  Expanded(Stage(item, own, mid, r), r + 1) = Stage(item, own, mid, r + 1)
<1>1. own \in 1 .. Rules - 1
  BY Zenon DEF Way
<1>2. \/ r < own /\ r + 1 < own /\ r + 1 \in 1 .. own - 1
      \/ r < own /\ ~(r + 1 < own) /\ r + 1 = own /\ r + 1 < Rules
      \/ ~(r < own) /\ ~(r + 1 < own) /\ r < Rules /\ r + 1 < Rules /\ r + 1 \in own + 1 .. Rules - 1
      \/ ~(r < own) /\ ~(r + 1 < own) /\ r < Rules /\ ~(r + 1 < Rules) /\ r + 1 = Rules
  BY <1>1, SMT DEF Rules
<1>3. CASE r < own /\ r + 1 < own /\ r + 1 \in 1 .. own - 1
  BY <1>3, Zenon DEF Way, Stage
<1>4. CASE r < own /\ ~(r + 1 < own) /\ r + 1 = own /\ r + 1 < Rules
  BY <1>4, Zenon DEF Way, Stage
<1>5. CASE ~(r < own) /\ ~(r + 1 < own) /\ r < Rules /\ r + 1 < Rules /\ r + 1 \in own + 1 .. Rules - 1
  BY <1>5, Zenon DEF Way, Stage
<1>6. CASE ~(r < own) /\ ~(r + 1 < own) /\ r < Rules /\ ~(r + 1 < Rules) /\ r + 1 = Rules
  BY <1>6, Zenon DEF Stage
<1> QED BY <1>2, <1>3, <1>4, <1>5, <1>6, Zenon

LEMMA JoinedOne ==
  ASSUME NEW parts, NEW glue, Len(parts) = 1
  PROVE  Joined(parts, glue) = parts[1]
<1> DEFINE Body(f) == [k \in 0 .. Len(parts) |-> IF k = 0 THEN <<>> ELSE IF k = 1 THEN parts[1]
                                                 ELSE f[k - 1] \o glue \o parts[k]]
           up == CHOOSE f : f = Body(f)
           g == [k \in 0 .. Len(parts) |-> IF k = 0 THEN <<>> ELSE parts[1]]
<1>1. 1 \in 0 .. Len(parts) /\ 1 # 0 /\ \A k \in 0 .. Len(parts) : k = 0 \/ k = 1
  BY SMT
<1>2. g = Body(g)
  BY <1>1, Zenon
<1> HIDE DEF g
<1>3. up = Body(up)
  BY <1>2, Zenon
<1>4. Joined(parts, glue) = up[Len(parts)]
  BY Zenon DEF Joined
<1> HIDE DEF up
<1>5. up[1] = parts[1]
  BY <1>1, <1>3, Zenon
<1> QED BY <1>4, <1>5, Zenon

(* On its way: what was typed, then what its own rule has made of it.      *)
OnItsWay ==
  /\ rule \in 0 .. Rules
  /\ Len(typed) = 1 /\ Written(typed[1]) =>
       \E own, mid : Way(typed[1], own, mid) /\ text = Stage(typed[1], own, mid, rule)

(* Whatever is typed, with whatever digits: somebody who hears one item    *)
(* understands it, after all the rules of _expand_chunk in their order.    *)
THEOREM ItemsAreUnderstoodAlways == Spec => []ItemsAreUnderstood
<1>1. Init => OnItsWay
  <2> SUFFICES ASSUME Init PROVE OnItsWay
    OBVIOUS
  <2>1. rule = 0 /\ rule \in 0 .. Rules
    BY SMT DEF Init, Rules
  <2> SUFFICES ASSUME Len(typed) = 1, Written(typed[1])
               PROVE  \E own, mid : Way(typed[1], own, mid)
                                      /\ text = Stage(typed[1], own, mid, rule)
    BY <2>1, Zenon DEF OnItsWay
  <2> DEFINE parts == [k \in DOMAIN typed |-> Typed(typed[k])]
  <2>2. typed \in Seq(Item)
    BY SentencesAssumption, Zenon DEF Init
  <2>3. DOMAIN typed = 1 .. 1 /\ 1 \in 1 .. 1 /\ typed[1] \in Item
    <3>1. DOMAIN typed = 1 .. 1
      BY <2>2, LenProperties, Zenon
    <3>2. 1 \in 1 .. 1
      BY SMT
    <3> QED BY <2>2, <3>1, <3>2, ElementOfSeq, Zenon
  <2>4. parts[1] = Typed(typed[1]) /\ parts = [k \in 1 .. 1 |-> Typed(typed[k])]
    BY <2>3, Zenon
  <2>5. text = Joined(parts, And)
    BY Zenon DEF Init
  <2>6. Len(parts) = 1
    <3> HIDE DEF parts
    <3> QED BY <2>4, SMT
  <2> HIDE DEF parts
  <2>7. text = Typed(typed[1])
    BY <2>4, <2>5, <2>6, JoinedOne, Zenon
  <2>8. PICK own, mid : Way(typed[1], own, mid)
    BY <2>3, EveryWay, Zenon
  <2>9. 0 < own
    <3>1. own \in 1 .. Rules - 1
      BY <2>8, Zenon DEF Way
    <3> QED BY <3>1, SMT
  <2> QED BY <2>1, <2>7, <2>8, <2>9, Zenon DEF Stage
<1>2. OnItsWay /\ [Next]_vars => OnItsWay'
  <2> SUFFICES ASSUME OnItsWay, [Next]_vars PROVE OnItsWay'
    OBVIOUS
  <2>1. CASE Apply
    <3>1. /\ rule' = rule + 1 /\ text' = Expanded(text, rule + 1) /\ typed' = typed
          /\ rule \in 0 .. Rules - 1 /\ rule' \in 0 .. Rules
      BY <2>1, SMT DEF Apply, OnItsWay, Rules
    <3> SUFFICES ASSUME Len(typed) = 1, Written(typed[1])
                 PROVE  \E own, mid : Way(typed[1], own, mid)
                                        /\ text' = Stage(typed[1], own, mid, rule + 1)
      BY <3>1, Zenon DEF OnItsWay
    <3>2. PICK own, mid : Way(typed[1], own, mid) /\ text = Stage(typed[1], own, mid, rule)
      BY Zenon DEF OnItsWay
    <3>3. Expanded(Stage(typed[1], own, mid, rule), rule + 1) = Stage(typed[1], own, mid, rule + 1)
      BY <3>1, <3>2, StageStep, Zenon
    <3> QED BY <3>1, <3>2, <3>3, Zenon
  <2>2. CASE UNCHANGED vars
    BY <2>2, Zenon DEF vars, OnItsWay
  <2> QED BY <2>1, <2>2 DEF Next
<1>3. OnItsWay => ItemsAreUnderstood
  <2> SUFFICES ASSUME OnItsWay, Finished, Len(typed) = 1, Written(typed[1])
               PROVE  Understood(typed[1], Heard(text))
    BY Zenon DEF ItemsAreUnderstood
  <2>1. PICK own, mid : Way(typed[1], own, mid) /\ text = Stage(typed[1], own, mid, rule)
    BY Zenon DEF OnItsWay
  <2>2. rule = Rules /\ own \in 1 .. Rules - 1
    BY <2>1, Zenon DEF Finished, Way
  <2>3. ~(rule < own) /\ ~(rule < Rules)
    BY <2>2, SMT DEF Rules
  <2>4. text = Expanded(mid, Rules)
    BY <2>1, <2>3, Zenon DEF Stage
  <2> QED BY <2>1, <2>4, Zenon DEF Way
<1> QED BY <1>1, <1>2, <1>3, PTL DEF Spec
----------------------------------------------------------------------------
(* A sentence of several items: what the rules make of each does not       *)
(* depend on the others.  A pattern looks a few tokens ahead and one       *)
(* behind.  Between two items stand a space, an "and" and a space: every   *)
(* look that starts in an item finds in the sentence what it finds in the  *)
(* item alone (the ...Alike lemmas), or nothing in both.  So a pass over   *)
(* the sentence is a pass over each item (PassBoth), and so is a rule      *)
(* (ExpandedBoth).                                                         *)

(* A part of a text, between spaces: what the rules see in it is what they *)
(* see in it alone.                                                        *)

(* u holds t after s tokens, with a space before it and an "and" behind.   *)
Within(t, u, s) ==
  /\ t \in Seq(Token) /\ u \in Seq(Token)
  /\ s \in Nat /\ s + Len(t) <= Len(u)
  /\ \A k \in 1 .. Len(t) : u[s + k] = t[k]
  /\ In(u, s) => u[s] = Space
  /\ In(u, s + Len(t) + 1) => u[s + Len(t) + 1] = Space
  /\ In(u, s + Len(t) + 2) => u[s + Len(t) + 2] = W("and")

(* A look at k in t and one at l in u find the same, or what stands behind.*)
Behind(t, u, s, k, l) == k = Len(t) + 1 /\ l \in {s + Len(t) + 1, s + Len(t) + 2}
Meets(t, u, s, k, l) ==
  \/ k \in 1 .. Len(t) /\ l = s + k
  \/ Behind(t, u, s, k, l)
  \/ k = 0 /\ l = 0

Plain(words) == " " \notin words /\ "and" \notin words

LEMMA WithinFacts ==
  ASSUME NEW t, NEW u, NEW s, Within(t, u, s)
  PROVE  /\ Len(t) \in Nat /\ Len(u) \in Nat /\ s \in Nat /\ s + Len(t) <= Len(u)
         /\ t \in Seq(Token) /\ u \in Seq(Token)
BY LenProperties, Zenon DEF Within

LEMMA InPart ==
  ASSUME NEW t, NEW u, NEW s, Within(t, u, s), NEW k \in 1 .. Len(t)
  PROVE  /\ In(t, k) /\ In(u, s + k) /\ u[s + k] = t[k]
         /\ \A words : At(u, s + k, words) <=> At(t, k, words)
         /\ \A lengths : NumAt(u, s + k, lengths) <=> NumAt(t, k, lengths)
<1>1. s + k \in 1 .. Len(u)
  BY WithinFacts, SMT
<1> QED BY <1>1, Zenon DEF Within, In, At, NumAt

(* Behind the part stand a space and an "and".                             *)
LEMMA BehindPart ==
  ASSUME NEW t, NEW u, NEW s, Within(t, u, s), NEW k, NEW l, Behind(t, u, s, k, l)
  PROVE  /\ ~In(t, k)
         /\ In(u, l) => u[l] = Space \/ u[l] = W("and")
         /\ In(u, l) /\ l # s + Len(t) + 1 => u[l] = W("and")
<1>1. ~In(t, k)
  BY WithinFacts, SMT DEF Behind, In
<1> QED BY <1>1, Zenon DEF Behind, Within

LEMMA TokensBetween ==
  /\ Space.w = " " /\ Space.d = <<>> /\ W("and").w = "and" /\ W("and").d = <<>>
  /\ Space.w \in Marks
  /\ \A x : x = Space \/ x = W("and") =>
       x.d = <<>> /\ \A words : Plain(words) => x.w \notin words
<1>1. /\ Space.w = " " /\ Space.d = <<>> /\ W("and").w = "and" /\ W("and").d = <<>>
      /\ Space.w \in Marks
  BY Zenon DEF Space, W, Marks
<1>2. ASSUME NEW x, x = Space \/ x = W("and")
      PROVE  x.d = <<>> /\ \A words : Plain(words) => x.w \notin words
  BY <1>1, <1>2 DEF Plain
<1> QED BY <1>1, <1>2, Zenon

LEMMA NothingAtZero ==
  ASSUME NEW t \in Seq(Token)
  PROVE  ~In(t, 0)
BY SMT DEF In

LEMMA MeetNum ==
  ASSUME NEW t, NEW u, NEW s, Within(t, u, s), NEW k, NEW l, Meets(t, u, s, k, l), NEW lengths
  PROVE  NumAt(u, l, lengths) <=> NumAt(t, k, lengths)
<1>1. CASE k \in 1 .. Len(t) /\ l = s + k
  BY <1>1, InPart, Zenon
<1>2. CASE Behind(t, u, s, k, l)
  <2>0. ~In(t, k) /\ (In(u, l) => u[l] = Space \/ u[l] = W("and"))
    BY <1>2, BehindPart, Zenon
  <2>1. ~In(t, k) /\ (In(u, l) => u[l].d = <<>>)
    BY <2>0, TokensBetween
  <2> QED BY <2>1, Zenon DEF NumAt
<1>3. CASE k = 0 /\ l = 0
  BY <1>3, WithinFacts, NothingAtZero, Zenon DEF NumAt
<1> QED BY <1>1, <1>2, <1>3, Zenon DEF Meets

LEMMA MeetAt ==
  ASSUME NEW t, NEW u, NEW s, Within(t, u, s), NEW k, NEW l, Meets(t, u, s, k, l),
         NEW words, Plain(words)
  PROVE  At(u, l, words) <=> At(t, k, words)
<1>1. CASE k \in 1 .. Len(t) /\ l = s + k
  BY <1>1, InPart, Zenon
<1>2. CASE Behind(t, u, s, k, l)
  <2>0. ~In(t, k) /\ (In(u, l) => u[l] = Space \/ u[l] = W("and"))
    BY <1>2, BehindPart, Zenon
  <2>1. ~In(t, k) /\ (In(u, l) => u[l].w \notin words)
    BY <2>0, TokensBetween
  <2> QED BY <2>1, Zenon DEF At
<1>3. CASE k = 0 /\ l = 0
  BY <1>3, WithinFacts, NothingAtZero, Zenon DEF At
<1> QED BY <1>1, <1>2, <1>3, Zenon DEF Meets

LEMMA NextInPart ==
  ASSUME NEW t, NEW u, NEW s, Within(t, u, s), NEW k \in 1 .. Len(t), NEW l, l = s + k
  PROVE  Meets(t, u, s, k + 1, l + 1) /\ k + 1 \in 1 .. Len(t) + 1 /\ l + 1 = s + (k + 1)
<1>0. Len(t) \in Nat /\ s \in Nat
  BY WithinFacts, Zenon
<1>1. /\ k + 1 \in 1 .. Len(t) + 1 /\ l + 1 = s + (k + 1)
      /\ k + 1 \in 1 .. Len(t) \/ (k + 1 = Len(t) + 1 /\ l + 1 = s + Len(t) + 1)
  BY <1>0, SMT
<1> QED BY <1>1, Zenon DEF Meets, Behind

(* Skipping a space or a mark keeps the two looks together.                *)
LEMMA MeetAfter ==
  ASSUME NEW t, NEW u, NEW s, Within(t, u, s), NEW k, NEW l, Meets(t, u, s, k, l),
         NEW words, "and" \notin words
  PROVE  Meets(t, u, s, After(t, k, words), After(u, l, words))
<1>1. CASE k \in 1 .. Len(t) /\ l = s + k
  <2>1. At(u, l, words) <=> At(t, k, words)
    BY <1>1, InPart, Zenon
  <2>2. Meets(t, u, s, k + 1, l + 1)
    BY <1>1, NextInPart, Zenon
  <2> QED BY <2>1, <2>2, Zenon DEF After
<1>2. CASE Behind(t, u, s, k, l)
  <2>1. After(t, k, words) = k
    BY <1>2, BehindPart, Zenon DEF After, At
  <2>2. CASE l = s + Len(t) + 1
    <3>1. l + 1 = s + Len(t) + 2 /\ k = Len(t) + 1
      BY <1>2, <2>2, WithinFacts, SMT DEF Behind
    <3>2. Behind(t, u, s, k, l) /\ Behind(t, u, s, k, l + 1)
      BY <1>2, <3>1, Zenon DEF Behind
    <3> QED BY <2>1, <3>2, Zenon DEF Meets, After
  <2>3. CASE l # s + Len(t) + 1
    <3>1. In(u, l) => u[l].w = "and"
      <4>1. In(u, l) => u[l] = W("and")
        BY <1>2, <2>3, BehindPart, Zenon
      <4> QED BY <4>1, TokensBetween
    <3>2. After(u, l, words) = l
      BY <3>1, Zenon DEF After, At
    <3> QED BY <1>2, <2>1, <3>2, Zenon DEF Meets
  <2> QED BY <2>2, <2>3
<1>3. CASE k = 0 /\ l = 0
  <2>1. After(t, k, words) = k /\ After(u, l, words) = l
    BY <1>3, WithinFacts, NothingAtZero, Zenon DEF After, At
  <2> QED BY <2>1, Zenon
<1> QED BY <1>1, <1>2, <1>3, Zenon DEF Meets

LEMMA EdgeInPart ==
  ASSUME NEW t, NEW u, NEW s, Within(t, u, s), NEW k \in 1 .. Len(t) + 1, NEW l, l = s + k
  PROVE  Edge(u, l) <=> Edge(t, k)
<1>1. /\ (k - 1 \in 1 .. Len(t) /\ l - 1 = s + (k - 1)) \/ k = 1
      /\ k \in 1 .. Len(t) \/ k = Len(t) + 1
  BY WithinFacts, SMT
<1>2. CASE k = 1
  <2>1. Edge(t, k)
    BY <1>2, WithinFacts, FirstEdge, Zenon
  <2>2. l - 1 = s
    BY <1>2, WithinFacts, SMT
  <2>3. Edge(u, l)
    BY <2>2, TokensBetween, Zenon DEF Within, Edge
  <2> QED BY <2>1, <2>3
<1>3. CASE k = Len(t) + 1
  <2>1. Edge(t, k)
    <3>1. k \notin 1 .. Len(t)
      BY <1>3, WithinFacts, SMT
    <3> QED BY <3>1, Zenon DEF Edge, In
  <2>2. l = s + Len(t) + 1
    BY <1>3, WithinFacts, SMT
  <2>3. Edge(u, l)
    BY <2>2, TokensBetween, Zenon DEF Within, Edge
  <2> QED BY <2>1, <2>3
<1>4. CASE k - 1 \in 1 .. Len(t) /\ l - 1 = s + (k - 1) /\ k \in 1 .. Len(t)
  <2> DEFINE j == k - 1
  <2>0. j \in 1 .. Len(t) /\ l - 1 = s + j
    BY <1>4
  <2> HIDE DEF j
  <2>3. In(t, j) /\ In(u, s + j) /\ u[s + j] = t[j]
    BY <2>0, InPart, Zenon
  <2>1. In(t, k - 1) /\ In(u, l - 1) /\ u[l - 1] = t[k - 1]
    BY <2>0, <2>3 DEF j
  <2>2. In(t, k) /\ In(u, l) /\ u[l] = t[k]
    BY <1>4, InPart, Zenon
  <2> QED BY <2>1, <2>2, Zenon DEF Edge
<1> QED BY <1>1, <1>2, <1>3, <1>4

LEMMA BeforeInPart ==
  ASSUME NEW t, NEW u, NEW s, Within(t, u, s), NEW k \in 1 .. Len(t), NEW l, l = s + k,
         NEW words, Plain(words)
  PROVE  At(u, l - 1, words) <=> At(t, k - 1, words)
<1>0. Len(t) \in Nat /\ s \in Nat
  BY WithinFacts, Zenon
<1>1. \/ k - 1 \in 1 .. Len(t) /\ l - 1 = s + (k - 1)
      \/ k - 1 = 0 /\ l - 1 = s
  BY <1>0, SMT
<1>2. CASE k - 1 \in 1 .. Len(t) /\ l - 1 = s + (k - 1)
  <2> DEFINE j == k - 1
  <2>1. j \in 1 .. Len(t) /\ l - 1 = s + j
    BY <1>2
  <2> HIDE DEF j
  <2>2. At(u, s + j, words) <=> At(t, j, words)
    BY <2>1, InPart, Zenon
  <2> QED BY <2>1, <2>2 DEF j
<1>3. CASE k - 1 = 0 /\ l - 1 = s
  <2>1. ~At(t, k - 1, words)
    BY <1>3, WithinFacts, NothingAtZero, Zenon DEF At
  <2>2. ~At(u, l - 1, words)
    BY <1>3, TokensBetween, Zenon DEF At, Within, Plain
  <2> QED BY <2>1, <2>2
<1> QED BY <1>1, <1>2, <1>3

(* Two looks that find a token of the part.                                *)
Found(t, u, s, k, l) ==
  /\ k \in 1 .. Len(t) /\ l = s + k /\ u[l] = t[k] /\ k + 1 # 0
  /\ k + 1 \in 1 .. Len(t) + 1 /\ l + 1 = s + (k + 1)
  /\ Meets(t, u, s, k + 1, l + 1)
  /\ Edge(u, l + 1) <=> Edge(t, k + 1)

LEMMA PlaceMet ==
  ASSUME NEW t, NEW u, NEW s, Within(t, u, s), NEW k, NEW l, Meets(t, u, s, k, l), In(t, k)
  PROVE  Found(t, u, s, k, l)
<1>1. ~Behind(t, u, s, k, l) /\ k # 0
  BY BehindPart, WithinFacts, NothingAtZero, Zenon
<1>2. k \in 1 .. Len(t) /\ l = s + k
  BY <1>1, Zenon DEF Meets
<1>3. u[l] = t[k]
  BY <1>2, InPart, Zenon
<1>4. Meets(t, u, s, k + 1, l + 1) /\ k + 1 \in 1 .. Len(t) + 1 /\ l + 1 = s + (k + 1)
  BY <1>2, NextInPart
<1>5. Edge(u, l + 1) <=> Edge(t, k + 1)
  BY <1>4, EdgeInPart, Zenon
<1>6. k + 1 # 0
  BY <1>2, SMT
<1> QED BY <1>2, <1>3, <1>4, <1>5, <1>6, Zenon DEF Found

LEMMA PlainSets ==
  /\ Plain({"."}) /\ Plain({"#"}) /\ Plain({":"}) /\ Plain({"-"}) /\ Plain({"-", "."})
  /\ Plain({":", "."}) /\ Plain(Meridiems) /\ Plain({"b"}) /\ Plain({"number", "no"})
  /\ Plain({"st", "nd", "rd", "th"})
  /\ "and" \notin {" "} /\ "and" \notin {"."} /\ "and" \notin {"#"}
BY Zenon DEF Plain, Meridiems

LEMMA NamedMeets ==
  ASSUME NEW t, NEW u, NEW s, Within(t, u, s), NEW i \in 1 .. Len(t), NEW l, l = s + i, NEW names
  PROVE  Meets(t, u, s, Named(t, i, names), Named(u, l, names))
<1> DEFINE n(x, j) == After(x, After(x, After(x, After(x, j, {"."}), {" "}), {"#"}), {" "})
<1>1. Meets(t, u, s, i + 1, l + 1)
  BY NextInPart, Zenon
<1>2. Meets(t, u, s, n(t, i + 1), n(u, l + 1))
  BY <1>1, MeetAfter, PlainSets, Zenon
<1>3. /\ At(u, l, names) <=> At(t, i, names)
      /\ Edge(u, l) <=> Edge(t, i)
  <2>1. i \in 1 .. Len(t) + 1
    BY WithinFacts, SMT
  <2> QED BY <2>1, InPart, EdgeInPart, Zenon
<1>4. Meets(t, u, s, 0, 0)
  BY Zenon DEF Meets
<1> QED BY <1>2, <1>3, <1>4, Zenon DEF Named

(* What a pattern finds in a part: the same, s tokens further on.          *)
Alike(s, e, f, x, y) == IF e = 0 THEN f = 0 ELSE f = s + e /\ y = x

LEMMA LockerAlike ==
  ASSUME NEW t, NEW u, NEW s, Within(t, u, s), NEW i \in 1 .. Len(t), NEW l, l = s + i
  PROVE  Alike(s, LockerEnd(t, i), LockerEnd(u, l), SayLocker(t, i), SayLocker(u, l))
<1> DEFINE n == Named(t, i, {"locker"})
           m == Named(u, l, {"locker"})
<1>1. Meets(t, u, s, n, m)
  BY NamedMeets, Zenon
<1>2. /\ LockerEnd(t, i) = IF NumAt(t, n, 1 .. 4) /\ Edge(t, n + 1) THEN n + 1 ELSE 0
      /\ LockerEnd(u, l) = IF NumAt(u, m, 1 .. 4) /\ Edge(u, m + 1) THEN m + 1 ELSE 0
      /\ SayLocker(t, i) = Spoken(<<"locker">> \o DigitWords(t[n].d))
      /\ SayLocker(u, l) = Spoken(<<"locker">> \o DigitWords(u[m].d))
  BY Zenon DEF LockerEnd, SayLocker
<1> HIDE DEF n, m
<1>3. NumAt(u, m, 1 .. 4) <=> NumAt(t, n, 1 .. 4)
  <2>1. \A lengths : NumAt(u, m, lengths) <=> NumAt(t, n, lengths)
    BY <1>1, MeetNum, Zenon
  <2> QED BY <2>1, Zenon
<1>4. CASE NumAt(t, n, 1 .. 4)
  <2>0. In(t, n)
    BY <1>4, Zenon DEF NumAt
  <2>9. Found(t, u, s, n, m)
    BY <1>1, <2>0, PlaceMet, Zenon
  <2>1. u[m] = t[n] /\ n + 1 # 0 /\ m + 1 = s + (n + 1) /\ (Edge(u, m + 1) <=> Edge(t, n + 1))
    BY <2>9, Zenon DEF Found
  <2> QED BY <1>2, <1>3, <1>4, <2>1, Zenon DEF Alike
<1>5. CASE ~NumAt(t, n, 1 .. 4)
  BY <1>2, <1>3, <1>5, Zenon DEF Alike
<1> QED BY <1>4, <1>5

LEMMA ExtensionAlike ==
  ASSUME NEW t, NEW u, NEW s, Within(t, u, s), NEW i \in 1 .. Len(t), NEW l, l = s + i
  PROVE  Alike(s, ExtensionEnd(t, i), ExtensionEnd(u, l), SayExtension(t, i), SayExtension(u, l))
<1> DEFINE n == Named(t, i, ExtensionNames)
           m == Named(u, l, ExtensionNames)
<1>1. Meets(t, u, s, n, m)
  BY NamedMeets, Zenon
<1>2. /\ ExtensionEnd(t, i) = IF NumAt(t, n, 2 .. 5) /\ Edge(t, n + 1) THEN n + 1 ELSE 0
      /\ ExtensionEnd(u, l) = IF NumAt(u, m, 2 .. 5) /\ Edge(u, m + 1) THEN m + 1 ELSE 0
      /\ SayExtension(t, i) = Spoken(<<"extension">> \o DigitWords(t[n].d))
      /\ SayExtension(u, l) = Spoken(<<"extension">> \o DigitWords(u[m].d))
  BY Zenon DEF ExtensionEnd, SayExtension
<1> HIDE DEF n, m
<1>3. NumAt(u, m, 2 .. 5) <=> NumAt(t, n, 2 .. 5)
  <2>1. \A lengths : NumAt(u, m, lengths) <=> NumAt(t, n, lengths)
    BY <1>1, MeetNum, Zenon
  <2> QED BY <2>1, Zenon
<1>4. CASE NumAt(t, n, 2 .. 5)
  <2>0. In(t, n)
    BY <1>4, Zenon DEF NumAt
  <2>9. Found(t, u, s, n, m)
    BY <1>1, <2>0, PlaceMet, Zenon
  <2>1. u[m] = t[n] /\ n + 1 # 0 /\ m + 1 = s + (n + 1) /\ (Edge(u, m + 1) <=> Edge(t, n + 1))
    BY <2>9, Zenon DEF Found
  <2> QED BY <1>2, <1>3, <1>4, <2>1, Zenon DEF Alike
<1>5. CASE ~NumAt(t, n, 2 .. 5)
  BY <1>2, <1>3, <1>5, Zenon DEF Alike
<1> QED BY <1>4, <1>5

LEMMA BusAlike ==
  ASSUME NEW t, NEW u, NEW s, Within(t, u, s), NEW i \in 1 .. Len(t), NEW l, l = s + i
  PROVE  Alike(s, BusEnd(t, i), BusEnd(u, l), SayBus(t, i), SayBus(u, l))
<1> DEFINE n == BusNumber(t, i)
           m == BusNumber(u, l)
           Words(d) == Spoken(<<"bus", "number">>
                                \o (IF Num(d) <= 99 THEN NumberWords[Num(d)] ELSE DigitWords(d)))
<1>1. Meets(t, u, s, n, m)
  <2> DEFINE word(x, j) == After(x, j + 1, {" "})
             rest(x, j) == IF At(x, word(x, j), {"number", "no"}) THEN word(x, j) + 1 ELSE j + 1
             found(x, j) == After(x, After(x, After(x, rest(x, j), {" "}), {"#"}), {" "})
  <2>1. Meets(t, u, s, i + 1, l + 1)
    BY NextInPart, Zenon
  <2>2. Meets(t, u, s, word(t, i), word(u, l))
    BY <2>1, MeetAfter, PlainSets, Zenon
  <2>3. At(u, word(u, l), {"number", "no"}) <=> At(t, word(t, i), {"number", "no"})
    <3>1. Plain({"number", "no"})
      BY PlainSets, Zenon
    <3> HIDE DEF word
    <3> QED BY <2>2, <3>1, MeetAt, Zenon
  <2>4. At(t, word(t, i), {"number", "no"}) =>
          Meets(t, u, s, word(t, i) + 1, word(u, l) + 1)
    <3>1. At(t, word(t, i), {"number", "no"}) => In(t, word(t, i))
      BY Zenon DEF At
    <3> HIDE DEF word
    <3>2. In(t, word(t, i)) => Found(t, u, s, word(t, i), word(u, l))
      BY <2>2, PlaceMet, Zenon
    <3> QED BY <3>1, <3>2, Zenon DEF Found
  <2>5. Meets(t, u, s, rest(t, i), rest(u, l))
    BY <2>1, <2>3, <2>4, Zenon
  <2>6. /\ BusNumber(t, i) = IF At(t, i, {"bus"}) /\ Edge(t, i) THEN found(t, i) ELSE 0
        /\ BusNumber(u, l) = IF At(u, l, {"bus"}) /\ Edge(u, l) THEN found(u, l) ELSE 0
    BY Zenon DEF BusNumber
  <2> HIDE DEF rest
  <2>7. Meets(t, u, s, found(t, i), found(u, l))
    BY <2>5, MeetAfter, PlainSets, Zenon
  <2> HIDE DEF found
  <2>8. /\ At(u, l, {"bus"}) <=> At(t, i, {"bus"})
        /\ Edge(u, l) <=> Edge(t, i)
    <3>1. i \in 1 .. Len(t) + 1
      BY WithinFacts, SMT
    <3> QED BY <3>1, InPart, EdgeInPart, Zenon
  <2>9. Meets(t, u, s, 0, 0)
    BY Zenon DEF Meets
  <2> QED BY <2>6, <2>7, <2>8, <2>9, Zenon
<1>2. /\ BusEnd(t, i) = IF NumAt(t, n, 1 .. 4) /\ Edge(t, n + 1) THEN n + 1 ELSE 0
      /\ BusEnd(u, l) = IF NumAt(u, m, 1 .. 4) /\ Edge(u, m + 1) THEN m + 1 ELSE 0
      /\ SayBus(t, i) = Words(t[n].d) /\ SayBus(u, l) = Words(u[m].d)
  BY Zenon DEF BusEnd, SayBus
<1> HIDE DEF n, m, Words
<1>3. NumAt(u, m, 1 .. 4) <=> NumAt(t, n, 1 .. 4)
  <2>1. \A lengths : NumAt(u, m, lengths) <=> NumAt(t, n, lengths)
    BY <1>1, MeetNum, Zenon
  <2> QED BY <2>1, Zenon
<1>4. CASE NumAt(t, n, 1 .. 4)
  <2>0. In(t, n)
    BY <1>4, Zenon DEF NumAt
  <2>9. Found(t, u, s, n, m)
    BY <1>1, <2>0, PlaceMet, Zenon
  <2>1. u[m] = t[n] /\ n + 1 # 0 /\ m + 1 = s + (n + 1) /\ (Edge(u, m + 1) <=> Edge(t, n + 1))
    BY <2>9, Zenon DEF Found
  <2> QED BY <1>2, <1>3, <1>4, <2>1, Zenon DEF Alike
<1>5. CASE ~NumAt(t, n, 1 .. 4)
  BY <1>2, <1>3, <1>5, Zenon DEF Alike
<1> QED BY <1>4, <1>5

LEMMA RoomAlike ==
  ASSUME NEW t, NEW u, NEW s, Within(t, u, s), NEW i \in 1 .. Len(t), NEW l, l = s + i
  PROVE  Alike(s, RoomEnd(t, i), RoomEnd(u, l), SayRoom(t, i), SayRoom(u, l))
<1> DEFINE n == Named(t, i, {"room", "rm"})
           m == Named(u, l, {"room", "rm"})
           Words(d, wing) == Spoken(<<"room">> \o (IF Len(d) <= 2 THEN NumberWords[Num(d)] ELSE DigitWords(d))
                                      \o (IF wing THEN <<"b">> ELSE <<>>))
<1>1. Meets(t, u, s, n, m)
  BY NamedMeets, Zenon
<1>2. /\ RoomEnd(t, i) = IF NumAt(t, n, 1 .. 4) /\ Edge(t, RoomSuffix(t, n)) THEN RoomSuffix(t, n) ELSE 0
      /\ RoomEnd(u, l) = IF NumAt(u, m, 1 .. 4) /\ Edge(u, RoomSuffix(u, m)) THEN RoomSuffix(u, m) ELSE 0
      /\ SayRoom(t, i) = Words(t[n].d, RoomSuffix(t, n) = n + 2)
      /\ SayRoom(u, l) = Words(u[m].d, RoomSuffix(u, m) = m + 2)
  BY Zenon DEF RoomEnd, SayRoom
<1> HIDE DEF n, m, Words
<1>3. NumAt(u, m, 1 .. 4) <=> NumAt(t, n, 1 .. 4)
  <2>1. \A lengths : NumAt(u, m, lengths) <=> NumAt(t, n, lengths)
    BY <1>1, MeetNum, Zenon
  <2> QED BY <2>1, Zenon
<1>4. CASE NumAt(t, n, 1 .. 4)
  <2>0. In(t, n)
    BY <1>4, Zenon DEF NumAt
  <2>9. Found(t, u, s, n, m)
    BY <1>1, <2>0, PlaceMet, Zenon
  <2>1. /\ u[m] = t[n] /\ n \in 1 .. Len(t) /\ m = s + n
        /\ n + 1 # 0 /\ m + 1 = s + (n + 1) /\ (Edge(u, m + 1) <=> Edge(t, n + 1))
        /\ Meets(t, u, s, n + 1, m + 1)
    BY <2>9, Zenon DEF Found
  <2>2. At(u, m + 1, {"b"}) <=> At(t, n + 1, {"b"})
    BY <2>1, MeetAt, PlainSets, Zenon
  <2>3. /\ (n + 1) + 1 = n + 2 /\ (m + 1) + 1 = m + 2 /\ n + 1 # n + 2 /\ m + 1 # m + 2
        /\ n + 2 # 0
    BY <2>1, WithinFacts, SMT
  <2>4. CASE At(t, n + 1, {"b"})
    <3>1. m + 2 = s + (n + 2) /\ (Edge(u, m + 2) <=> Edge(t, n + 2))
      <4>1. In(t, n + 1)
        BY <2>4, Zenon DEF At
      <4>2. Found(t, u, s, n + 1, m + 1)
        BY <2>1, <4>1, PlaceMet, Zenon
      <4>3. /\ (m + 1) + 1 = s + ((n + 1) + 1)
            /\ Edge(u, (m + 1) + 1) <=> Edge(t, (n + 1) + 1)
        BY <4>2, Zenon DEF Found
      <4> QED BY <2>3, <4>3, Zenon
    <3>2. RoomSuffix(t, n) = n + 2 /\ RoomSuffix(u, m) = m + 2
      BY <2>2, <2>4, Zenon DEF RoomSuffix
    <3> QED BY <1>2, <1>3, <1>4, <2>1, <2>3, <3>1, <3>2, Zenon DEF Alike
  <2>5. CASE ~At(t, n + 1, {"b"})
    <3>1. RoomSuffix(t, n) = n + 1 /\ RoomSuffix(u, m) = m + 1
      BY <2>2, <2>5, Zenon DEF RoomSuffix
    <3>2. SayRoom(u, l) = SayRoom(t, i)
      BY <1>2, <2>1, <2>3, <3>1, Zenon DEF Words
    <3> QED BY <1>2, <1>3, <1>4, <2>1, <2>3, <3>1, <3>2, Zenon DEF Alike
  <2> QED BY <2>4, <2>5
<1>5. CASE ~NumAt(t, n, 1 .. 4)
  BY <1>2, <1>3, <1>5, Zenon DEF Alike
<1> QED BY <1>4, <1>5
LEMMA FoundHere ==
  ASSUME NEW t, NEW u, NEW s, Within(t, u, s), NEW i \in 1 .. Len(t), NEW l, l = s + i
  PROVE  Found(t, u, s, i, l)
<1>1. Meets(t, u, s, i, l) /\ In(t, i)
  BY Zenon DEF Meets, In
<1> QED BY <1>1, PlaceMet, Zenon

LEMMA FoundSees ==
  ASSUME NEW t, NEW u, NEW s, Within(t, u, s), NEW k, NEW l, Found(t, u, s, k, l)
  PROVE  /\ \A words : At(u, l, words) <=> At(t, k, words)
         /\ \A lengths : NumAt(u, l, lengths) <=> NumAt(t, k, lengths)
         /\ Edge(u, l) <=> Edge(t, k)
         /\ \A words : Plain(words) => (At(u, l - 1, words) <=> At(t, k - 1, words))
         /\ \A words : Plain(words) => (At(u, l + 1, words) <=> At(t, k + 1, words))
         /\ \A lengths : NumAt(u, l + 1, lengths) <=> NumAt(t, k + 1, lengths)
<1>1. k \in 1 .. Len(t) /\ l = s + k /\ Meets(t, u, s, k + 1, l + 1)
  BY Zenon DEF Found
<1>2. k \in 1 .. Len(t) + 1
  BY <1>1, WithinFacts, SMT
<1>3. /\ \A words : At(u, l, words) <=> At(t, k, words)
      /\ \A lengths : NumAt(u, l, lengths) <=> NumAt(t, k, lengths)
  BY <1>1, InPart, Zenon
<1>4. Edge(u, l) <=> Edge(t, k)
  BY <1>1, <1>2, EdgeInPart, Zenon
<1>5. \A words : Plain(words) => (At(u, l - 1, words) <=> At(t, k - 1, words))
  BY <1>1, BeforeInPart, Zenon
<1>6. \A words : Plain(words) => (At(u, l + 1, words) <=> At(t, k + 1, words))
  BY <1>1, MeetAt, Zenon
<1>7. \A lengths : NumAt(u, l + 1, lengths) <=> NumAt(t, k + 1, lengths)
  BY <1>1, MeetNum, Zenon
<1> QED BY <1>3, <1>4, <1>5, <1>6, <1>7, Zenon

LEMMA FoundNext ==
  ASSUME NEW t, NEW u, NEW s, Within(t, u, s), NEW k, NEW l, Found(t, u, s, k, l), In(t, k + 1)
  PROVE  Found(t, u, s, k + 1, l + 1)
<1>1. Meets(t, u, s, k + 1, l + 1)
  BY Zenon DEF Found
<1> QED BY <1>1, PlaceMet

LEMMA SeenIsIn ==
  ASSUME NEW t, NEW k
  PROVE  /\ \A words : At(t, k, words) => In(t, k)
         /\ \A lengths : NumAt(t, k, lengths) => In(t, k)
BY Zenon DEF At, NumAt

(* i + 1 + 1 is i + 2, and so on.                                          *)
LEMMA PlusOne ==
  ASSUME NEW i \in Int
  PROVE  /\ (i + 1) + 1 = i + 2 /\ (i + 2) + 1 = i + 3 /\ (i + 3) + 1 = i + 4
         /\ (i + 4) + 1 = i + 5
         /\ (i + 1) - 1 = i /\ (i + 3) - 3 = i /\ (i + 3) - 1 = i + 2
         /\ (i + 5) - 3 = i + 2 /\ (i + 5) - 1 = i + 4
BY SMT

LEMMA FoundInts ==
  ASSUME NEW t, NEW u, NEW s, Within(t, u, s), NEW k, NEW l, Found(t, u, s, k, l)
  PROVE  k \in Int /\ l \in Int /\ k # 0
BY WithinFacts, SMT DEF Found

LEMMA IntAlike ==
  ASSUME NEW t, NEW u, NEW s, Within(t, u, s), NEW i \in 1 .. Len(t), NEW l, l = s + i
  PROVE  Alike(s, IntEnd(t, i), IntEnd(u, l), SayInt(t, i), SayInt(u, l))
<1>1. Found(t, u, s, i, l)
  BY FoundHere, Zenon
<1>2. NumAt(u, l, Nat) <=> NumAt(t, i, Nat)
  BY <1>1, FoundSees, Zenon
<1>3. u[l] = t[i] /\ i + 1 # 0 /\ l + 1 = s + (i + 1)
  BY <1>1, Zenon DEF Found
<1> QED BY <1>2, <1>3, Zenon DEF Alike, IntEnd, SayInt

LEMMA LongRunAlike ==
  ASSUME NEW t, NEW u, NEW s, Within(t, u, s), NEW i \in 1 .. Len(t), NEW l, l = s + i
  PROVE  Alike(s, LongRunEnd(t, i), LongRunEnd(u, l), SayLongRun(t, i), SayLongRun(u, l))
<1>1. Found(t, u, s, i, l)
  BY FoundHere, Zenon
<1>2. \A lengths : NumAt(u, l, lengths) <=> NumAt(t, i, lengths)
  BY <1>1, FoundSees, Zenon
<1>3. Edge(u, l) <=> Edge(t, i)
  BY <1>1, FoundSees, Zenon
<1>4. /\ u[l] = t[i] /\ i + 1 # 0 /\ l + 1 = s + (i + 1)
      /\ Edge(u, l + 1) <=> Edge(t, i + 1)
  BY <1>1, Zenon DEF Found
<1>5. NumAt(u, l, Nat \ 0 .. 4) <=> NumAt(t, i, Nat \ 0 .. 4)
  BY <1>2, Zenon
<1> QED BY <1>3, <1>4, <1>5, Zenon DEF Alike, LongRunEnd, SayLongRun

LEMMA SymbolAlike ==
  ASSUME NEW t, NEW u, NEW s, Within(t, u, s), NEW i \in 1 .. Len(t), NEW l, l = s + i
  PROVE  Alike(s, SymbolEnd(t, i), SymbolEnd(u, l), SaySymbol(t, i), SaySymbol(u, l))
<1>1. Found(t, u, s, i, l)
  BY FoundHere, Zenon
<1>2. \A words : At(u, l, words) <=> At(t, i, words)
  BY <1>1, FoundSees, Zenon
<1>3. u[l] = t[i] /\ i + 1 # 0 /\ l + 1 = s + (i + 1)
  BY <1>1, Zenon DEF Found
<1>4. At(u, l, {"&", "%", "#"}) <=> At(t, i, {"&", "%", "#"})
  BY <1>2, Zenon
<1>5. SaySymbol(u, l) = SaySymbol(t, i)
  BY <1>3, Zenon DEF SaySymbol
<1> QED BY <1>3, <1>4, <1>5, Zenon DEF Alike, SymbolEnd

LEMMA AbbreviationAlike ==
  ASSUME NEW t, NEW u, NEW s, Within(t, u, s), NEW i \in 1 .. Len(t), NEW l, l = s + i
  PROVE  Alike(s, AbbreviationEnd(t, i), AbbreviationEnd(u, l),
               SayAbbreviation(t, i), SayAbbreviation(u, l))
<1> DEFINE Stopped(x, j) == At(x, j + 1, {"."}) /\ (At(x, j + 2, {" "}) \/ ~In(x, j + 2))
           Shortened(x, j) == At(x, j, DOMAIN Abbreviations) /\ Edge(x, j) /\ Edge(x, j + 1)
<1>1. Found(t, u, s, i, l)
  BY FoundHere, Zenon
<1>2. \A words : At(u, l, words) <=> At(t, i, words)
  BY <1>1, FoundSees, Zenon
<1>3. Edge(u, l) <=> Edge(t, i)
  BY <1>1, FoundSees, Zenon
<1>4. /\ u[l] = t[i] /\ i + 1 # 0 /\ l + 1 = s + (i + 1)
      /\ Edge(u, l + 1) <=> Edge(t, i + 1)
  BY <1>1, Zenon DEF Found
<1>5. SayAbbreviation(u, l) = SayAbbreviation(t, i)
  BY <1>4, Zenon DEF SayAbbreviation
<1>6. Shortened(u, l) <=> Shortened(t, i)
  BY <1>2, <1>3, <1>4, Zenon
<1>7. At(u, l + 1, {"."}) <=> At(t, i + 1, {"."})
  <2>1. \A words : Plain(words) => (At(u, l + 1, words) <=> At(t, i + 1, words))
    BY <1>1, FoundSees, Zenon
  <2> QED BY <2>1, PlainSets, Zenon
<1>8. i + 2 # 0 /\ l + 2 = s + (i + 2) /\ (i + 1) + 1 = i + 2 /\ (l + 1) + 1 = l + 2
  BY <1>4, WithinFacts, SMT
<1>9. Stopped(u, l) <=> Stopped(t, i)
  <2> SUFFICES ASSUME At(t, i + 1, {"."})
               PROVE  At(u, l + 2, {" "}) \/ ~In(u, l + 2) <=> At(t, i + 2, {" "}) \/ ~In(t, i + 2)
    BY <1>7, Zenon
  <2>1. Found(t, u, s, i + 1, l + 1)
    BY <1>1, SeenIsIn, FoundNext, Zenon
  <2>2. Meets(t, u, s, i + 2, l + 2) /\ i + 2 \in 1 .. Len(t) + 1
    BY <1>8, <2>1, Zenon DEF Found
  <2>3. CASE i + 2 \in 1 .. Len(t) /\ l + 2 = s + (i + 2)
    <3> DEFINE k == i + 2
    <3>1. k \in 1 .. Len(t) /\ l + 2 = s + k
      BY <2>3
    <3> HIDE DEF k
    <3>2. In(u, s + k) /\ In(t, k) /\ \A words : At(u, s + k, words) <=> At(t, k, words)
      BY <3>1, InPart, Zenon
    <3>3. In(u, l + 2) /\ In(t, k) /\ (At(u, l + 2, {" "}) <=> At(t, k, {" "}))
      BY <3>1, <3>2
    <3> QED BY <3>3 DEF k
  <2>4. CASE Behind(t, u, s, i + 2, l + 2)
    <3>1. ~In(t, i + 2)
      BY <2>4, BehindPart, Zenon
    <3>2. l + 2 = s + Len(t) + 1
      BY <1>8, <2>4, WithinFacts, SMT DEF Behind
    <3>3. In(u, l + 2) => u[l + 2].w = " "
      <4>1. In(u, l + 2) => u[l + 2] = Space
        BY <3>2, Zenon DEF Within
      <4> QED BY <4>1, TokensBetween
    <3> QED BY <3>1, <3>3, Zenon DEF At
  <2> QED BY <1>8, <2>2, <2>3, <2>4, Zenon DEF Meets
<1>10. /\ AbbreviationEnd(t, i) = IF Shortened(t, i) THEN IF Stopped(t, i) THEN i + 2 ELSE i + 1 ELSE 0
       /\ AbbreviationEnd(u, l) = IF Shortened(u, l) THEN IF Stopped(u, l) THEN l + 2 ELSE l + 1 ELSE 0
  BY Zenon DEF AbbreviationEnd
<1> HIDE DEF Shortened, Stopped
<1> QED BY <1>4, <1>5, <1>6, <1>8, <1>9, <1>10, Zenon DEF Alike

LEMMA OrdinalAlike ==
  ASSUME NEW t, NEW u, NEW s, Within(t, u, s), NEW i \in 1 .. Len(t), NEW l, l = s + i
  PROVE  Alike(s, OrdinalEnd(t, i), OrdinalEnd(u, l), SayOrdinal(t, i), SayOrdinal(u, l))
<1> DEFINE letters == {"st", "nd", "rd", "th"}
           four == 1 .. 4
<1>0. Plain(letters)
  BY PlainSets, Zenon
<1>9. \A x, j : OrdinalEnd(x, j) = IF NumAt(x, j, four) /\ Edge(x, j) /\ At(x, j + 1, letters)
                                        /\ Edge(x, j + 2) THEN j + 2 ELSE 0
  BY Zenon DEF OrdinalEnd
<1> HIDE DEF letters, four
<1>1. Found(t, u, s, i, l)
  BY FoundHere, Zenon
<1>2. NumAt(u, l, four) <=> NumAt(t, i, four)
  BY <1>1, FoundSees, Zenon
<1>3. Edge(u, l) <=> Edge(t, i)
  BY <1>1, FoundSees, Zenon
<1>4. At(u, l + 1, letters) <=> At(t, i + 1, letters)
  BY <1>0, <1>1, FoundSees, Zenon
<1>5. SayOrdinal(u, l) = SayOrdinal(t, i)
  BY <1>1, Zenon DEF SayOrdinal, Found
<1>6. CASE At(t, i + 1, letters)
  <2>1. Found(t, u, s, i + 1, l + 1)
    BY <1>1, <1>6, SeenIsIn, FoundNext, Zenon
  <2>2. /\ (i + 1) + 1 # 0 /\ (l + 1) + 1 = s + ((i + 1) + 1)
        /\ Edge(u, (l + 1) + 1) <=> Edge(t, (i + 1) + 1)
    BY <2>1, Zenon DEF Found
  <2>3. (i + 1) + 1 = i + 2 /\ (l + 1) + 1 = l + 2
    BY <1>1, FoundInts, PlusOne, Zenon
  <2>4. i + 2 # 0 /\ l + 2 = s + (i + 2) /\ (Edge(u, l + 2) <=> Edge(t, i + 2))
    BY <2>2, <2>3
  <2> QED BY <1>2, <1>3, <1>4, <1>5, <1>9, <2>4, Zenon DEF Alike
<1>7. CASE ~At(t, i + 1, letters)
  BY <1>4, <1>7, <1>9, Zenon DEF Alike
<1> QED BY <1>6, <1>7
LEMMA RangeAlike ==
  ASSUME NEW t, NEW u, NEW s, Within(t, u, s), NEW i \in 1 .. Len(t), NEW l, l = s + i
  PROVE  Alike(s, RangeEnd(t, i), RangeEnd(u, l), SayRange(t, i), SayRange(u, l))
<1> DEFINE dash(x, j) == After(x, j + 1, {" "})
           to(x, j) == After(x, dash(x, j) + 1, {" "})
           two == 1 .. 2
           Taken(x, j) == /\ NumAt(x, j, two) /\ At(x, dash(x, j), {"-"}) /\ NumAt(x, to(x, j), two)
                          /\ Edge(x, j) /\ Edge(x, to(x, j) + 1)
<1>1. \A x, j : RangeEnd(x, j) = IF Taken(x, j) THEN to(x, j) + 1 ELSE 0
  BY Zenon DEF RangeEnd
<1>2. Found(t, u, s, i, l)
  BY FoundHere, Zenon
<1>3. Meets(t, u, s, dash(t, i), dash(u, l))
  <2>1. Meets(t, u, s, i + 1, l + 1)
    BY <1>2, Zenon DEF Found
  <2> QED BY <2>1, MeetAfter, PlainSets, Zenon
<1>4. At(u, dash(u, l), {"-"}) <=> At(t, dash(t, i), {"-"})
  <2>1. \A words : Plain(words) => (At(u, dash(u, l), words) <=> At(t, dash(t, i), words))
    <3> HIDE DEF dash
    <3> QED BY <1>3, MeetAt, Zenon
  <2> QED BY <2>1, PlainSets, Zenon
<1>5. CASE ~At(t, dash(t, i), {"-"})
  BY <1>1, <1>4, <1>5, Zenon DEF Alike
<1>6. CASE At(t, dash(t, i), {"-"})
  <2>1. Found(t, u, s, dash(t, i), dash(u, l))
    <3>1. In(t, dash(t, i))
      BY <1>6, SeenIsIn, Zenon
    <3> QED BY <1>3, <3>1, PlaceMet, Zenon
  <2>2. Meets(t, u, s, to(t, i), to(u, l))
    <3>1. Meets(t, u, s, dash(t, i) + 1, dash(u, l) + 1)
      BY <2>1, Zenon DEF Found
    <3> HIDE DEF dash
    <3> QED BY <3>1, MeetAfter, PlainSets, Zenon
  <2> HIDE DEF dash, to, two
  <2>3. NumAt(u, to(u, l), two) <=> NumAt(t, to(t, i), two)
    BY <2>2, MeetNum, Zenon
  <2>4. CASE ~NumAt(t, to(t, i), two)
    BY <1>1, <2>3, <2>4, Zenon DEF Alike
  <2>5. CASE NumAt(t, to(t, i), two)
    <3>1. Found(t, u, s, to(t, i), to(u, l))
      BY <2>2, <2>5, SeenIsIn, PlaceMet, Zenon
    <3>2. /\ u[to(u, l)] = t[to(t, i)] /\ to(t, i) + 1 # 0 /\ to(u, l) + 1 = s + (to(t, i) + 1)
          /\ Edge(u, to(u, l) + 1) <=> Edge(t, to(t, i) + 1)
      BY <3>1, Zenon DEF Found
    <3>3. NumAt(u, l, two) <=> NumAt(t, i, two)
      BY <1>2, FoundSees, Zenon
    <3>4. Edge(u, l) <=> Edge(t, i)
      BY <1>2, FoundSees, Zenon
    <3>5. Taken(u, l) <=> Taken(t, i)
      BY <1>4, <2>3, <3>2, <3>3, <3>4, Zenon
    <3>6. Taken(t, i) => SayRange(u, l) = SayRange(t, i)
      <4>1. (to(t, i) + 1) - 1 = to(t, i) /\ (to(u, l) + 1) - 1 = to(u, l)
        BY <3>1, FoundInts, PlusOne, Zenon
      <4>2. Taken(t, i) => /\ SayRange(u, l) = <<u[l], Space, W("to"), Space, u[to(u, l)]>>
                           /\ SayRange(t, i) = <<t[i], Space, W("to"), Space, t[to(t, i)]>>
        BY <1>1, <3>5, <4>1, Zenon DEF SayRange
      <4>3. u[l] = t[i]
        BY <1>2, Zenon DEF Found
      <4> QED BY <3>2, <4>2, <4>3, Zenon
    <3> HIDE DEF Taken
    <3> QED BY <1>1, <3>2, <3>5, <3>6, Zenon DEF Alike
  <2> QED BY <2>4, <2>5
<1> QED BY <1>5, <1>6

LEMMA DecimalAlike ==
  ASSUME NEW t, NEW u, NEW s, Within(t, u, s), NEW i \in 1 .. Len(t), NEW l, l = s + i
  PROVE  Alike(s, DecimalEnd(t, i), DecimalEnd(u, l), SayDecimal(t, i), SayDecimal(u, l))
<1> DEFINE Taken(x, j) == /\ NumAt(x, j, Nat) /\ At(x, j + 1, {"."}) /\ NumAt(x, j + 2, Nat)
                          /\ Edge(x, j) /\ Edge(x, j + 3)
<1>1. \A x, j : DecimalEnd(x, j) = IF Taken(x, j) THEN j + 3 ELSE 0
  BY Zenon DEF DecimalEnd
<1>2. Found(t, u, s, i, l)
  BY FoundHere, Zenon
<1>3. /\ (i + 1) + 1 = i + 2 /\ (l + 1) + 1 = l + 2 /\ (i + 2) + 1 = i + 3 /\ (l + 2) + 1 = l + 3
  BY <1>2, FoundInts, PlusOne, Zenon
<1>4. At(u, l + 1, {"."}) <=> At(t, i + 1, {"."})
  <2>1. \A words : Plain(words) => (At(u, l + 1, words) <=> At(t, i + 1, words))
    BY <1>2, FoundSees, Zenon
  <2> QED BY <2>1, PlainSets, Zenon
<1>5. CASE ~At(t, i + 1, {"."})
  BY <1>1, <1>4, <1>5, Zenon DEF Alike
<1>6. CASE At(t, i + 1, {"."})
  <2>1. Found(t, u, s, i + 1, l + 1)
    BY <1>2, <1>6, SeenIsIn, FoundNext, Zenon
  <2>2. NumAt(u, l + 2, Nat) <=> NumAt(t, i + 2, Nat)
    <3>1. NumAt(u, (l + 1) + 1, Nat) <=> NumAt(t, (i + 1) + 1, Nat)
      BY <2>1, FoundSees, Zenon
    <3> QED BY <1>3, <3>1
  <2>3. CASE ~NumAt(t, i + 2, Nat)
    BY <1>1, <2>2, <2>3, Zenon DEF Alike
  <2>4. CASE NumAt(t, i + 2, Nat)
    <3>1. Found(t, u, s, i + 2, l + 2)
      <4>1. In(t, (i + 1) + 1)
        BY <1>3, <2>4, SeenIsIn
      <4>2. Found(t, u, s, (i + 1) + 1, (l + 1) + 1)
        BY <2>1, <4>1, FoundNext, Zenon
      <4> QED BY <1>3, <4>2
    <3>2. /\ u[l + 2] = t[i + 2] /\ (i + 2) + 1 # 0 /\ (l + 2) + 1 = s + ((i + 2) + 1)
          /\ Edge(u, (l + 2) + 1) <=> Edge(t, (i + 2) + 1)
      BY <3>1, Zenon DEF Found
    <3>3. /\ u[l + 2] = t[i + 2] /\ i + 3 # 0 /\ l + 3 = s + (i + 3)
          /\ Edge(u, l + 3) <=> Edge(t, i + 3)
      BY <1>3, <3>2
    <3>4. (NumAt(u, l, Nat) <=> NumAt(t, i, Nat))
      BY <1>2, FoundSees, Zenon
    <3>5. Edge(u, l) <=> Edge(t, i)
      BY <1>2, FoundSees, Zenon
    <3>6. Taken(u, l) <=> Taken(t, i)
      BY <1>4, <2>2, <3>3, <3>4, <3>5, Zenon
    <3>7. SayDecimal(u, l) = SayDecimal(t, i)
      <4>1. u[l] = t[i]
        BY <1>2, Zenon DEF Found
      <4> QED BY <3>3, <4>1, Zenon DEF SayDecimal
    <3> HIDE DEF Taken
    <3> QED BY <1>1, <3>3, <3>6, <3>7, Zenon DEF Alike
  <2> QED BY <2>3, <2>4
<1> QED BY <1>5, <1>6

(* What a telephone number without its area is in a part.                  *)
Dialled(t, u, s, k, l) ==
  /\ ShortPhone(u, l) <=> ShortPhone(t, k)
  /\ ShortPhone(t, k) => Found(t, u, s, k + 2, l + 2)

LEMMA ShortPhoneAlike ==
  ASSUME NEW t, NEW u, NEW s, Within(t, u, s), NEW k, NEW l, Found(t, u, s, k, l)
  PROVE  Dialled(t, u, s, k, l)
<1> DEFINE marks == {"-", "."}
           three == {3}
           four == {4}
<1>0. Plain(marks)
  BY PlainSets, Zenon
<1>1. \A x, j : ShortPhone(x, j) <=>
        /\ NumAt(x, j, three) /\ At(x, j + 1, marks) /\ NumAt(x, j + 2, four)
        /\ Edge(x, j) /\ Edge(x, j + 3)
  BY Zenon DEF ShortPhone
<1> HIDE DEF marks, three, four
<1>2. /\ (k + 1) + 1 = k + 2 /\ (l + 1) + 1 = l + 2 /\ (k + 2) + 1 = k + 3 /\ (l + 2) + 1 = l + 3
  BY FoundInts, PlusOne, Zenon
<1>3. At(u, l + 1, marks) <=> At(t, k + 1, marks)
  BY <1>0, FoundSees, Zenon
<1>4. CASE ~At(t, k + 1, marks)
  BY <1>1, <1>3, <1>4, Zenon DEF Dialled
<1>5. CASE At(t, k + 1, marks)
  <2>1. Found(t, u, s, k + 1, l + 1)
    BY <1>5, SeenIsIn, FoundNext, Zenon
  <2>2. NumAt(u, l + 2, four) <=> NumAt(t, k + 2, four)
    <3>1. NumAt(u, (l + 1) + 1, four) <=> NumAt(t, (k + 1) + 1, four)
      BY <2>1, FoundSees, Zenon
    <3> QED BY <1>2, <3>1
  <2>3. CASE ~NumAt(t, k + 2, four)
    BY <1>1, <2>2, <2>3, Zenon DEF Dialled
  <2>4. CASE NumAt(t, k + 2, four)
    <3>1. Found(t, u, s, k + 2, l + 2)
      <4>1. In(t, (k + 1) + 1)
        BY <1>2, <2>4, SeenIsIn
      <4>2. Found(t, u, s, (k + 1) + 1, (l + 1) + 1)
        BY <2>1, <4>1, FoundNext, Zenon
      <4> QED BY <1>2, <4>2
    <3>2. Edge(u, (l + 2) + 1) <=> Edge(t, (k + 2) + 1)
      BY <3>1, Zenon DEF Found
    <3>3. Edge(u, l + 3) <=> Edge(t, k + 3)
      BY <1>2, <3>2
    <3>4. (NumAt(u, l, three) <=> NumAt(t, k, three))
      BY FoundSees, Zenon
    <3>5. Edge(u, l) <=> Edge(t, k)
      BY FoundSees, Zenon
    <3> QED BY <1>1, <1>3, <2>2, <3>1, <3>3, <3>4, <3>5, Zenon DEF Dialled
  <2> QED BY <2>3, <2>4
<1> QED BY <1>4, <1>5

LEMMA PhoneAlike ==
  ASSUME NEW t, NEW u, NEW s, Within(t, u, s), NEW i \in 1 .. Len(t), NEW l, l = s + i
  PROVE  Alike(s, PhoneEnd(t, i), PhoneEnd(u, l), SayPhone(t, i), SayPhone(u, l))
<1> DEFINE marks == {"-", ".", " "}
           three == {3}
<1>1. \A x, j : WithArea(x, j) <=>
        NumAt(x, j, three) /\ Edge(x, j) /\ At(x, j + 1, marks) /\ ShortPhone(x, j + 2)
  BY Zenon DEF WithArea
<1> HIDE DEF marks, three
<1>2. Found(t, u, s, i, l)
  BY FoundHere, Zenon
<1>3. /\ (i + 1) + 1 = i + 2 /\ (l + 1) + 1 = l + 2 /\ (i + 2) + 1 = i + 3 /\ (l + 2) + 1 = l + 3
      /\ (i + 4) + 1 = i + 5 /\ (l + 4) + 1 = l + 5
      /\ (i + 5) - 3 = i + 2 /\ (i + 5) - 1 = i + 4 /\ (i + 3) - 3 = i /\ (i + 3) - 1 = i + 2
      /\ (l + 5) - 3 = l + 2 /\ (l + 5) - 1 = l + 4 /\ (l + 3) - 3 = l /\ (l + 3) - 1 = l + 2
  BY <1>2, FoundInts, PlusOne, Zenon
<1>4. Dialled(t, u, s, i, l)
  BY <1>2, ShortPhoneAlike, Zenon
<1>5. /\ WithArea(u, l) <=> WithArea(t, i)
      /\ WithArea(t, i) => Found(t, u, s, i + 2, l + 2) /\ Found(t, u, s, i + 4, l + 4)
  <2>1. CASE In(t, i + 1)
    <3>1. Found(t, u, s, i + 1, l + 1)
      BY <1>2, <2>1, FoundNext, Zenon
    <3>2. At(u, l + 1, marks) <=> At(t, i + 1, marks)
      BY <3>1, FoundSees, Zenon
    <3>3. (NumAt(u, l, three) <=> NumAt(t, i, three)) /\ (Edge(u, l) <=> Edge(t, i))
      <4>1. NumAt(u, l, three) <=> NumAt(t, i, three)
        BY <1>2, FoundSees, Zenon
      <4>2. Edge(u, l) <=> Edge(t, i)
        BY <1>2, FoundSees, Zenon
      <4> QED BY <4>1, <4>2
    <3>4. CASE In(t, i + 2)
      <4>1. Found(t, u, s, i + 2, l + 2)
        <5>1. In(t, (i + 1) + 1)
          BY <1>3, <3>4
        <5>2. Found(t, u, s, (i + 1) + 1, (l + 1) + 1)
          BY <3>1, <5>1, FoundNext, Zenon
        <5> QED BY <1>3, <5>2
      <4>2. Dialled(t, u, s, i + 2, l + 2)
        BY <4>1, ShortPhoneAlike, Zenon
      <4>3. (i + 2) + 2 = i + 4 /\ (l + 2) + 2 = l + 4
        BY WithinFacts, SMT
      <4> QED BY <1>1, <3>2, <3>3, <4>1, <4>2, <4>3 DEF Dialled
    <3>5. CASE ~In(t, i + 2)
      <4>1. ~NumAt(t, (i + 1) + 1, three)
        BY <1>3, <3>5, SeenIsIn
      <4>2. ~NumAt(u, (l + 1) + 1, three)
        BY <3>1, <4>1, FoundSees, Zenon
      <4>3. ~NumAt(t, i + 2, three) /\ ~NumAt(u, l + 2, three)
        BY <1>3, <4>1, <4>2
      <4>4. ~ShortPhone(t, i + 2) /\ ~ShortPhone(u, l + 2)
        BY <4>3, Zenon DEF ShortPhone, three
      <4> QED BY <1>1, <4>4, Zenon
    <3> QED BY <3>4, <3>5
  <2>2. CASE ~In(t, i + 1)
    <3>1. ~At(t, i + 1, marks)
      BY <2>2, SeenIsIn, Zenon
    <3>2. Behind(t, u, s, i + 1, l + 2)
      <4>1. i + 1 \in 1 .. Len(t) + 1 /\ i + 1 \notin 1 .. Len(t)
        BY <1>2, <2>2, Zenon DEF Found, In
      <4> QED BY <4>1, WithinFacts, SMT DEF Behind
    <3>3. ~NumAt(u, l + 2, three)
      <4>1. NumAt(u, l + 2, three) <=> NumAt(t, i + 1, three)
        <5>1. Meets(t, u, s, i + 1, l + 2)
          BY <3>2, Zenon DEF Meets
        <5>2. \A lengths : NumAt(u, l + 2, lengths) <=> NumAt(t, i + 1, lengths)
          BY <5>1, MeetNum
        <5> QED BY <5>2
      <4> QED BY <2>2, <4>1, SeenIsIn, Zenon
    <3>4. ~ShortPhone(u, l + 2)
      BY <3>3, Zenon DEF ShortPhone, three
    <3> QED BY <1>1, <3>1, <3>4, Zenon
  <2> QED BY <2>1, <2>2
<1> HIDE DEF marks, three
<1>6. u[l] = t[i]
  BY <1>2, Zenon DEF Found
<1>7. CASE WithArea(t, i)
  <2>1. WithArea(u, l) /\ PhoneEnd(t, i) = i + 5 /\ PhoneEnd(u, l) = l + 5
    BY <1>5, <1>7, Zenon DEF PhoneEnd
  <2>2. u[l + 2] = t[i + 2] /\ u[l + 4] = t[i + 4] /\ (i + 4) + 1 # 0 /\ (l + 4) + 1 = s + ((i + 4) + 1)
    BY <1>5, <1>7, Zenon DEF Found
  <2>3. /\ SayPhone(t, i) = Spoken(DigitWords(t[i].d) \o DigitWords(t[i + 2].d) \o DigitWords(t[i + 4].d))
        /\ SayPhone(u, l) = Spoken(DigitWords(u[l].d) \o DigitWords(u[l + 2].d) \o DigitWords(u[l + 4].d))
    BY <1>3, <1>7, <2>1, Zenon DEF SayPhone
  <2>4. SayPhone(u, l) = SayPhone(t, i)
    BY <1>6, <2>2, <2>3, Zenon
  <2>5. i + 5 # 0 /\ l + 5 = s + (i + 5)
    BY <1>3, <2>2
  <2> QED BY <2>1, <2>4, <2>5, Zenon DEF Alike
<1>8. CASE ~WithArea(t, i) /\ ShortPhone(t, i)
  <2>1. /\ ~WithArea(u, l) /\ ShortPhone(u, l) /\ Found(t, u, s, i + 2, l + 2)
    BY <1>4, <1>5, <1>8, Zenon DEF Dialled
  <2>0. PhoneEnd(t, i) = i + 3 /\ PhoneEnd(u, l) = l + 3
    BY <1>8, <2>1, Zenon DEF PhoneEnd
  <2>2. u[l + 2] = t[i + 2] /\ (i + 2) + 1 # 0 /\ (l + 2) + 1 = s + ((i + 2) + 1)
    BY <2>1, Zenon DEF Found
  <2>3. /\ SayPhone(t, i) = Spoken(<<>> \o DigitWords(t[i].d) \o DigitWords(t[i + 2].d))
        /\ SayPhone(u, l) = Spoken(<<>> \o DigitWords(u[l].d) \o DigitWords(u[l + 2].d))
    BY <1>3, <1>8, <2>0, <2>1, Zenon DEF SayPhone
  <2>4. SayPhone(u, l) = SayPhone(t, i)
    BY <1>6, <2>2, <2>3, Zenon
  <2>5. i + 3 # 0 /\ l + 3 = s + (i + 3)
    BY <1>3, <2>2
  <2> QED BY <2>0, <2>4, <2>5, Zenon DEF Alike
<1>9. CASE ~WithArea(t, i) /\ ~ShortPhone(t, i)
  BY <1>4, <1>5, <1>9, Zenon DEF Alike, PhoneEnd, Dialled
<1> QED BY <1>7, <1>8, <1>9
LEMMA PieceAlike ==
  ASSUME NEW t, NEW u, NEW s, Within(t, u, s), NEW i \in 1 .. Len(t), NEW l, l = s + i,
         NEW e \in i + 1 .. Len(t) + 1, NEW f, f = s + e
  PROVE  SubSeq(u, l, f - 1) = SubSeq(t, i, e - 1)
<1>1. Len(t) \in Nat /\ s \in Nat /\ t \in Seq(Token)
  BY WithinFacts, Zenon
<1>2. i \in Int /\ e - 1 \in Int /\ l \in Int /\ f - 1 \in Int /\ (f - 1) - l + 1 = (e - 1) - i + 1
      /\ i <= e - 1 /\ l <= f - 1
  BY <1>1, SMT
<1>3. \A k \in i .. e - 1 : k \in 1 .. Len(t)
  BY <1>1, SMT
<1>4. \A k \in l .. f - 1 : k - s \in 1 .. Len(t) /\ k = s + (k - s)
  BY <1>1, SMT
<1>5. \A k \in 1 .. (e - 1) - i + 1 : i + k - 1 \in 1 .. Len(t) /\ l + k - 1 = s + (i + k - 1)
  BY <1>1, SMT
<1>6. \A k \in 1 .. Len(t) : t[k] \in Token /\ u[s + k] = t[k]
  <2>1. \A k \in 1 .. Len(t) : t[k] \in Token
    BY <1>1, ElementOfSeq, Zenon
  <2>2. \A k \in 1 .. Len(t) : u[s + k] = t[k]
    BY Zenon DEF Within
  <2> QED BY <2>1, <2>2, Zenon
<1> DEFINE piece == SubSeq(t, i, e - 1)
           other == SubSeq(u, l, f - 1)
           m == (e - 1) - i + 1
<1>7. /\ piece \in Seq(Token) /\ Len(piece) = m
      /\ \A k \in 1 .. m : piece[k] = t[i + k - 1]
  <2>1. \A k \in i .. e - 1 : t[k] \in Token
    BY <1>3, <1>6, Zenon
  <2> QED BY <1>2, <2>1, SubSeqProperties
<1>8. /\ other \in Seq(Token) /\ Len(other) = m
      /\ \A k \in 1 .. m : other[k] = u[l + k - 1]
  <2>1. \A k \in l .. f - 1 : u[k] \in Token
    BY <1>4, <1>6
  <2>2. /\ other \in Seq(Token) /\ Len(other) = (f - 1) - l + 1
        /\ \A k \in 1 .. (f - 1) - l + 1 : other[k] = u[l + k - 1]
    BY <1>2, <2>1, SubSeqProperties
  <2> QED BY <1>2, <2>2
<1> HIDE DEF piece, other, m
<1>9. \A k \in 1 .. m : other[k] = piece[k]
  BY <1>5, <1>6, <1>7, <1>8 DEF m
<1>10. other = piece
  BY <1>7, <1>8, <1>9, SeqEqual, Zenon
<1> QED BY <1>10 DEF piece, other

(* What a clock is in a part.                                              *)
Clocked(t, u, s, k, l) ==
  /\ ClockAt(u, l) <=> ClockAt(t, k)
  /\ ClockAt(t, k) => Found(t, u, s, k + 2, l + 2)

LEMMA ClockAlike ==
  ASSUME NEW t, NEW u, NEW s, Within(t, u, s), NEW k, NEW l, Found(t, u, s, k, l)
  PROVE  Clocked(t, u, s, k, l)
<1> DEFINE colon == {":"}
           some == 1 .. 2
           two == {2}
<1>0. Plain(colon)
  BY PlainSets, Zenon
<1>1. \A x, j : ClockAt(x, j) <=>
        NumAt(x, j, some) /\ At(x, j + 1, colon) /\ NumAt(x, j + 2, two) /\ ~At(x, j - 1, colon)
  BY Zenon DEF ClockAt
<1> HIDE DEF colon, some, two
<1>2. (k + 1) + 1 = k + 2 /\ (l + 1) + 1 = l + 2
  BY FoundInts, PlusOne, Zenon
<1>3. At(u, l + 1, colon) <=> At(t, k + 1, colon)
  BY <1>0, FoundSees, Zenon
<1>4. CASE ~At(t, k + 1, colon)
  BY <1>1, <1>3, <1>4, Zenon DEF Clocked
<1>5. CASE At(t, k + 1, colon)
  <2>1. Found(t, u, s, k + 1, l + 1)
    BY <1>5, SeenIsIn, FoundNext, Zenon
  <2>2. NumAt(u, l + 2, two) <=> NumAt(t, k + 2, two)
    <3>1. NumAt(u, (l + 1) + 1, two) <=> NumAt(t, (k + 1) + 1, two)
      BY <2>1, FoundSees, Zenon
    <3> QED BY <1>2, <3>1
  <2>3. NumAt(t, k + 2, two) => Found(t, u, s, k + 2, l + 2)
    <3>1. NumAt(t, (k + 1) + 1, two) => Found(t, u, s, (k + 1) + 1, (l + 1) + 1)
      BY <2>1, SeenIsIn, FoundNext, Zenon
    <3> QED BY <1>2, <3>1
  <2>4. NumAt(u, l, some) <=> NumAt(t, k, some)
    BY FoundSees, Zenon
  <2>5. At(u, l - 1, colon) <=> At(t, k - 1, colon)
    BY <1>0, FoundSees, Zenon
  <2> QED BY <1>1, <1>3, <2>2, <2>3, <2>4, <2>5, Zenon DEF Clocked
<1> QED BY <1>4, <1>5

LEMMA SayClockAlike ==
  ASSUME NEW t, NEW u, NEW s, Within(t, u, s), NEW i \in 1 .. Len(t), NEW l, l = s + i,
         Found(t, u, s, i + 2, l + 2), NEW e \in i + 1 .. Len(t) + 1, NEW f, f = s + e, NEW m
  PROVE  SayClock(u, l, f, m) = SayClock(t, i, e, m)
<1>1. u[l + 2] = t[i + 2]
  BY Zenon DEF Found
<1>2. u[l] = t[i]
  BY InPart, Zenon
<1>3. SubSeq(u, l, f - 1) = SubSeq(t, i, e - 1)
  BY PieceAlike
<1> QED BY <1>1, <1>2, <1>3, Zenon DEF SayClock

LEMMA TimeBareAlike ==
  ASSUME NEW t, NEW u, NEW s, Within(t, u, s), NEW i \in 1 .. Len(t), NEW l, l = s + i
  PROVE  Alike(s, TimeBareEnd(t, i), TimeBareEnd(u, l), SayTimeBare(t, i), SayTimeBare(u, l))
<1> DEFINE colon == {":"}
<1>0. Plain(colon)
  BY PlainSets, Zenon
<1>1. \A x, j : TimeBareEnd(x, j) = IF ClockAt(x, j) /\ ~At(x, j + 3, colon) THEN j + 3 ELSE 0
  BY Zenon DEF TimeBareEnd
<1> HIDE DEF colon
<1>2. Found(t, u, s, i, l)
  BY FoundHere, Zenon
<1>3. Clocked(t, u, s, i, l)
  BY <1>2, ClockAlike, Zenon
<1>4. CASE ~ClockAt(t, i)
  BY <1>1, <1>3, <1>4, Zenon DEF Clocked, Alike
<1>5. CASE ClockAt(t, i)
  <2>1. Found(t, u, s, i + 2, l + 2) /\ ClockAt(u, l)
    BY <1>3, <1>5, Zenon DEF Clocked
  <2>2. (i + 2) + 1 = i + 3 /\ (l + 2) + 1 = l + 3
    BY <1>2, FoundInts, PlusOne, Zenon
  <2>3. At(u, l + 3, colon) <=> At(t, i + 3, colon)
    <3>1. At(u, (l + 2) + 1, colon) <=> At(t, (i + 2) + 1, colon)
      <4>1. \A words : Plain(words) =>
              (At(u, (l + 2) + 1, words) <=> At(t, (i + 2) + 1, words))
        BY <2>1, FoundSees
      <4> QED BY <1>0, <4>1, Zenon
    <3> QED BY <2>2, <3>1
  <2>4. i + 3 # 0 /\ l + 3 = s + (i + 3)
    <3>1. (i + 2) + 1 # 0 /\ (l + 2) + 1 = s + ((i + 2) + 1)
      BY <2>1, Zenon DEF Found
    <3> QED BY <2>2, <3>1
  <2>5. CASE At(t, i + 3, colon)
    BY <1>1, <2>3, <2>5, Zenon DEF Alike
  <2>6. CASE ~At(t, i + 3, colon)
    <3>1. TimeBareEnd(t, i) = i + 3 /\ TimeBareEnd(u, l) = l + 3
      BY <1>1, <1>5, <2>1, <2>3, <2>6, Zenon
    <3>2. t \in Seq(Token)
      BY WithinFacts, Zenon
    <3>3. i + 3 \in i + 1 .. Len(t) + 1
      BY <2>4, <3>1, <3>2, TimeBareClaims, Zenon DEF Claims
    <3>4. SayClock(u, l, l + 3, "") = SayClock(t, i, i + 3, "")
      <4> DEFINE e == i + 3
                 f == l + 3
      <4>1. e \in i + 1 .. Len(t) + 1 /\ f = s + e
        BY <2>4, <3>3, Zenon
      <4> HIDE DEF e, f
      <4>2. ASSUME NEW m PROVE SayClock(u, l, f, m) = SayClock(t, i, e, m)
        <5> USE <2>1, <4>1
        <5>1. Found(t, u, s, i + 2, l + 2)
          OBVIOUS
        <5>2. e \in i + 1 .. Len(t) + 1
          OBVIOUS
        <5>3. f = s + e
          OBVIOUS
        <5> QED BY <5>1, <5>2, <5>3, SayClockAlike
      <4>3. SayClock(u, l, f, "") = SayClock(t, i, e, "")
        BY <4>2, Zenon
      <4> QED BY <4>3 DEF e, f
    <3> QED BY <2>4, <3>1, <3>4, Zenon DEF Alike, SayTimeBare
  <2> QED BY <2>5, <2>6
<1> QED BY <1>4, <1>5
LEMMA MeridiemMeets ==
  ASSUME NEW t, NEW u, NEW s, Within(t, u, s), NEW i, NEW l, Found(t, u, s, i, l),
         Found(t, u, s, i + 2, l + 2)
  PROVE  Meets(t, u, s, MeridiemOf(t, i), MeridiemOf(u, l))
<1> DEFINE colon == {":"}
           two == {2}
           seconds(x, j) == IF At(x, j + 3, colon) /\ NumAt(x, j + 4, two) THEN j + 5 ELSE j + 3
<1>0. Plain(colon) /\ "and" \notin {" "}
  BY PlainSets, Zenon
<1>1. \A x, j : MeridiemOf(x, j) = After(x, seconds(x, j), {" "})
  BY Zenon DEF MeridiemOf
<1> HIDE DEF colon, two
<1>2. /\ (i + 2) + 1 = i + 3 /\ (l + 2) + 1 = l + 3 /\ (i + 3) + 1 = i + 4 /\ (l + 3) + 1 = l + 4
      /\ (i + 4) + 1 = i + 5 /\ (l + 4) + 1 = l + 5
  BY FoundInts, PlusOne, Zenon
<1>3. Meets(t, u, s, i + 3, l + 3) /\ (At(u, l + 3, colon) <=> At(t, i + 3, colon))
  <2>1. Meets(t, u, s, (i + 2) + 1, (l + 2) + 1)
    BY Zenon DEF Found
  <2>2. At(u, (l + 2) + 1, colon) <=> At(t, (i + 2) + 1, colon)
    <3>1. \A words : Plain(words) => (At(u, (l + 2) + 1, words) <=> At(t, (i + 2) + 1, words))
      BY FoundSees
    <3> QED BY <1>0, <3>1, Zenon
  <2> QED BY <1>2, <2>1, <2>2
<1>4. Meets(t, u, s, seconds(t, i), seconds(u, l))
  <2>1. CASE ~At(t, i + 3, colon)
    BY <1>3, <2>1, Zenon
  <2>2. CASE At(t, i + 3, colon)
    <3>1. Found(t, u, s, i + 3, l + 3)
      BY <1>3, <2>2, SeenIsIn, PlaceMet, Zenon
    <3>2. NumAt(u, l + 4, two) <=> NumAt(t, i + 4, two)
      <4>1. \A lengths : NumAt(u, (l + 3) + 1, lengths) <=> NumAt(t, (i + 3) + 1, lengths)
        BY <3>1, FoundSees
      <4> QED BY <1>2, <4>1
    <3>3. CASE ~NumAt(t, i + 4, two)
      BY <1>3, <3>2, <3>3, Zenon
    <3>4. CASE NumAt(t, i + 4, two)
      <4>1. In(t, (i + 3) + 1)
        BY <1>2, <3>4, SeenIsIn
      <4>2. Found(t, u, s, (i + 3) + 1, (l + 3) + 1)
        BY <3>1, <4>1, FoundNext, Zenon
      <4>3. Meets(t, u, s, ((i + 3) + 1) + 1, ((l + 3) + 1) + 1)
        BY <4>2, Zenon DEF Found
      <4>4. Meets(t, u, s, i + 5, l + 5)
        BY <1>2, <4>3
      <4> QED BY <1>3, <2>2, <3>2, <3>4, <4>4, Zenon
    <3> QED BY <3>3, <3>4
  <2> QED BY <2>1, <2>2
<1> HIDE DEF seconds
<1>5. Meets(t, u, s, After(t, seconds(t, i), {" "}), After(u, seconds(u, l), {" "}))
  BY <1>0, <1>4, MeetAfter, Zenon
<1> QED BY <1>1, <1>5, Zenon

LEMMA TimeMeridiemAlike ==
  ASSUME NEW t, NEW u, NEW s, Within(t, u, s), NEW i \in 1 .. Len(t), NEW l, l = s + i
  PROVE  Alike(s, TimeMeridiemEnd(t, i), TimeMeridiemEnd(u, l),
                  SayTimeMeridiem(t, i), SayTimeMeridiem(u, l))
<1>0. Plain(Meridiems)
  BY PlainSets, Zenon
<1>1. \A x, j : TimeMeridiemEnd(x, j) =
                  IF ClockAt(x, j) /\ At(x, MeridiemOf(x, j), Meridiems) THEN MeridiemOf(x, j) + 1
                  ELSE 0
  BY Zenon DEF TimeMeridiemEnd
<1>2. Found(t, u, s, i, l)
  BY FoundHere, Zenon
<1>3. Clocked(t, u, s, i, l)
  BY <1>2, ClockAlike, Zenon
<1>4. CASE ~ClockAt(t, i)
  BY <1>1, <1>3, <1>4, Zenon DEF Clocked, Alike
<1>5. CASE ClockAt(t, i)
  <2>1. Found(t, u, s, i + 2, l + 2) /\ ClockAt(u, l)
    BY <1>3, <1>5, Zenon DEF Clocked
  <2> DEFINE m == MeridiemOf(t, i)
             n == MeridiemOf(u, l)
  <2>2. Meets(t, u, s, m, n)
    BY <1>2, <2>1, MeridiemMeets, Zenon
  <2>3. /\ TimeMeridiemEnd(t, i) = IF At(t, m, Meridiems) THEN m + 1 ELSE 0
        /\ TimeMeridiemEnd(u, l) = IF At(u, n, Meridiems) THEN n + 1 ELSE 0
        /\ SayTimeMeridiem(t, i) = SayClock(t, i, TimeMeridiemEnd(t, i), t[m].w)
        /\ SayTimeMeridiem(u, l) = SayClock(u, l, TimeMeridiemEnd(u, l), u[n].w)
    BY <1>1, <1>5, <2>1, Zenon DEF SayTimeMeridiem
  <2> HIDE DEF m, n
  <2>4. At(u, n, Meridiems) <=> At(t, m, Meridiems)
    BY <1>0, <2>2, MeetAt, Zenon
  <2>5. CASE ~At(t, m, Meridiems)
    BY <2>3, <2>4, <2>5, Zenon DEF Alike
  <2>6. CASE At(t, m, Meridiems)
    <3>1. Found(t, u, s, m, n)
      BY <2>2, <2>6, SeenIsIn, PlaceMet, Zenon
    <3> DEFINE e == TimeMeridiemEnd(t, i)
               f == TimeMeridiemEnd(u, l)
    <3>2. e = m + 1 /\ f = n + 1 /\ e # 0 /\ f = s + e /\ u[n] = t[m]
      BY <2>3, <2>4, <2>6, <3>1, Zenon DEF Found
    <3>3. e \in i + 1 .. Len(t) + 1
      <4>1. t \in Seq(Token)
        BY WithinFacts, Zenon
      <4> QED BY <3>2, <4>1, TimeMeridiemClaims, Zenon DEF Claims
    <3> HIDE DEF e, f
    <3>4. ASSUME NEW w PROVE SayClock(u, l, f, w) = SayClock(t, i, e, w)
      <4>1. Found(t, u, s, i + 2, l + 2) /\ f = s + e
        BY <2>1, <3>2
      <4> QED BY <3>3, <4>1, SayClockAlike
    <3>5. SayTimeMeridiem(u, l) = SayTimeMeridiem(t, i)
      BY <2>3, <3>2, <3>4, Zenon DEF e, f
    <3> QED BY <3>2, <3>5, Zenon DEF Alike, e, f
  <2> QED BY <2>5, <2>6
<1> QED BY <1>4, <1>5

LEMMA HourAlike ==
  ASSUME NEW t, NEW u, NEW s, Within(t, u, s), NEW i \in 1 .. Len(t), NEW l, l = s + i
  PROVE  Alike(s, HourEnd(t, i), HourEnd(u, l), SayHour(t, i), SayHour(u, l))
<1> DEFINE before == {":", "."}
           two == 1 .. 2
           after(x, j) == After(x, j + 1, {" "})
<1>0. Plain(Meridiems) /\ Plain(before) /\ "and" \notin {" "}
  BY PlainSets, Zenon
<1>1. \A x, j : HourEnd(x, j) =
        IF NumAt(x, j, two) /\ ~At(x, j - 1, before) /\ At(x, after(x, j), Meridiems)
        THEN after(x, j) + 1 ELSE 0
  BY Zenon DEF HourEnd
<1> HIDE DEF before, two
<1> DEFINE m == after(t, i)
           n == after(u, l)
<1>2. Found(t, u, s, i, l)
  BY FoundHere, Zenon
<1>3. Meets(t, u, s, m, n)
  <2>1. Meets(t, u, s, i + 1, l + 1)
    BY <1>2, Zenon DEF Found
  <2> QED BY <1>0, <2>1, MeetAfter, Zenon
<1>4. /\ HourEnd(t, i) = IF NumAt(t, i, two) /\ ~At(t, i - 1, before) /\ At(t, m, Meridiems)
                         THEN m + 1 ELSE 0
      /\ HourEnd(u, l) = IF NumAt(u, l, two) /\ ~At(u, l - 1, before) /\ At(u, n, Meridiems)
                         THEN n + 1 ELSE 0
  BY <1>1, Zenon
<1> HIDE DEF m, n
<1>5. At(u, n, Meridiems) <=> At(t, m, Meridiems)
  BY <1>0, <1>3, MeetAt, Zenon
<1>6. NumAt(u, l, two) <=> NumAt(t, i, two)
  BY <1>2, FoundSees, Zenon
<1>7. At(u, l - 1, before) <=> At(t, i - 1, before)
  BY <1>0, <1>2, FoundSees, Zenon
<1>8. CASE ~(NumAt(t, i, two) /\ ~At(t, i - 1, before) /\ At(t, m, Meridiems))
  BY <1>4, <1>5, <1>6, <1>7, <1>8, Zenon DEF Alike
<1>9. CASE NumAt(t, i, two) /\ ~At(t, i - 1, before) /\ At(t, m, Meridiems)
  <2>1. Found(t, u, s, m, n)
    BY <1>3, <1>9, SeenIsIn, PlaceMet, Zenon
  <2> DEFINE e == HourEnd(t, i)
             f == HourEnd(u, l)
  <2>2. e = m + 1 /\ f = n + 1 /\ e # 0 /\ f = s + e /\ u[n] = t[m]
    BY <1>4, <1>5, <1>6, <1>7, <1>9, <2>1, Zenon DEF Found
  <2>3. e \in i + 1 .. Len(t) + 1
    <3>1. t \in Seq(Token)
      BY WithinFacts, Zenon
    <3> QED BY <2>2, <3>1, HourClaims, Zenon DEF Claims
  <2>4. e - 1 = m /\ f - 1 = n
    <3>1. (m + 1) - 1 = m /\ (n + 1) - 1 = n
      BY <2>1, FoundInts, PlusOne, Zenon
    <3> QED BY <2>2, <3>1
  <2> HIDE DEF e, f
  <2>5. SubSeq(u, l, f - 1) = SubSeq(t, i, e - 1)
    <3>1. f = s + e
      BY <2>2
    <3> QED BY <2>3, <3>1, PieceAlike
  <2>6. u[l] = t[i] /\ u[f - 1] = t[e - 1]
    BY <1>2, <2>2, <2>4, Zenon DEF Found
  <2>7. SayHour(u, l) = SayHour(t, i)
    <3>1. \A x, j : SayHour(x, j) =
            IF Num(x[j].d) > 23 THEN SubSeq(x, j, HourEnd(x, j) - 1)
            ELSE Spoken(SpokenTime(Num(x[j].d), 0, x[HourEnd(x, j) - 1].w))
      BY Zenon DEF SayHour
    <3> QED BY <2>5, <2>6, <3>1, Zenon DEF e, f
  <2> QED BY <2>2, <2>7, Zenon DEF Alike, e, f
<1> QED BY <1>8, <1>9
LEMMA JoinedEitherWay ==
  \A x, y, z \in Seq(Token) : (x \o y) \o z = x \o (y \o z)
<1> SUFFICES ASSUME NEW x \in Seq(Token), NEW y \in Seq(Token), NEW z \in Seq(Token)
             PROVE  (x \o y) \o z = x \o (y \o z)
  BY Zenon
<1> HIDE DEF Token
<1> QED BY ConcatAssociative

(* A pass over a text does in a part what it does with the part alone.     *)
StepsFollow(t, u, s, endt, sayt, endu, sayu, a, b) ==
  /\ Within(t, u, s) /\ Passing(a, t, endt, sayt) /\ Passing(b, u, endu, sayu)
  /\ \A i \in 1 .. Len(t) : Alike(s, endt[i], endu[s + i], sayt[i], sayu[s + i])
  /\ \A i \in 1 .. Len(t) : endt[i] # 0 => Claims(t, i, endt[i], sayt[i])
  /\ \A i \in 1 .. Len(t) + 1 : a[i] \in Seq(Token)
  /\ b[s + Len(t) + 1] \in Seq(Token)

Carries(t, s, a, b) == b[s + 1] = a[1] \o b[s + Len(t) + 1]

LEMMA PassWithin ==
  ASSUME NEW t, NEW u, NEW s, NEW endt, NEW sayt, NEW endu, NEW sayu, NEW a, NEW b,
         StepsFollow(t, u, s, endt, sayt, endu, sayu, a, b)
  PROVE  Carries(t, s, a, b)
<1>0. /\ Within(t, u, s) /\ Passing(a, t, endt, sayt) /\ Passing(b, u, endu, sayu)
      /\ \A i \in 1 .. Len(t) : Alike(s, endt[i], endu[s + i], sayt[i], sayu[s + i])
      /\ \A i \in 1 .. Len(t) : endt[i] # 0 => Claims(t, i, endt[i], sayt[i])
      /\ \A i \in 1 .. Len(t) + 1 : a[i] \in Seq(Token)
      /\ b[s + Len(t) + 1] \in Seq(Token)
  BY Zenon DEF StepsFollow
<1> USE <1>0
<1> DEFINE n == Len(t)
           rest == b[s + n + 1]
           Stands(i) == b[s + i] = a[i] \o rest
<1>1. /\ n \in Nat /\ s \in Nat /\ Len(u) \in Nat /\ s + n <= Len(u)
      /\ \A i \in 1 .. n : t[i] \in Token /\ u[s + i] = t[i]
  <2>1. n \in Nat /\ s \in Nat /\ Len(u) \in Nat /\ s + n <= Len(u) /\ t \in Seq(Token)
    BY WithinFacts, Zenon
  <2>2. \A i \in 1 .. n : t[i] \in Token
    BY <2>1, ElementOfSeq, Zenon
  <2>3. \A i \in 1 .. n : u[s + i] = t[i]
    BY Zenon DEF Within
  <2> QED BY <2>1, <2>2, <2>3, Zenon
<1>2. rest \in Seq(Token)
  OBVIOUS
<1>3. a[n + 1] = <<>>
  <2>1. n + 1 \in 1 .. n + 1 /\ n + 1 > n
    BY <1>1, SMT
  <2> QED BY <2>1, Zenon DEF Passing
<1>4. \A i \in 1 .. n + 1 : a[i] \in Seq(Token)
  OBVIOUS
<1>5. ASSUME NEW i \in 1 .. n
      PROVE  \/ /\ a[i] = <<t[i]>> \o a[i + 1] /\ b[s + i] = <<t[i]>> \o b[s + (i + 1)]
             \/ /\ endt[i] \in i + 1 .. n + 1 /\ sayt[i] \in Seq(Token)
                /\ a[i] = sayt[i] \o a[endt[i]] /\ b[s + i] = sayt[i] \o b[s + endt[i]]
  <2>1. /\ i \in 1 .. n + 1 /\ ~(i > n) /\ s + i \in 1 .. Len(u) + 1 /\ ~(s + i > Len(u))
        /\ (s + i) + 1 = s + (i + 1)
    BY <1>1, SMT
  <2>2. a[i] = IF endt[i] = 0 THEN <<t[i]>> \o a[i + 1] ELSE sayt[i] \o a[endt[i]]
    BY <2>1, Zenon DEF Passing
  <2>3. b[s + i] = IF endu[s + i] = 0 THEN <<u[s + i]>> \o b[(s + i) + 1]
                   ELSE sayu[s + i] \o b[endu[s + i]]
    BY <2>1, Zenon DEF Passing
  <2>4. u[s + i] = t[i]
    BY <1>1, Zenon
  <2>5. Alike(s, endt[i], endu[s + i], sayt[i], sayu[s + i])
    OBVIOUS
  <2>6. CASE endt[i] = 0
    <3>1. endu[s + i] = 0
      BY <2>5, <2>6, Zenon DEF Alike
    <3> QED BY <2>1, <2>2, <2>3, <2>4, <2>6, <3>1
  <2>7. CASE endt[i] # 0
    <3>1. endu[s + i] = s + endt[i] /\ sayu[s + i] = sayt[i]
      BY <2>5, <2>7, Zenon DEF Alike
    <3>2. endt[i] \in i + 1 .. n + 1 /\ sayt[i] \in Seq(Token)
      BY <2>7, Zenon DEF Claims
    <3>3. s + endt[i] # 0
      BY <1>1, <3>2, SMT
    <3> QED BY <2>2, <2>3, <2>7, <3>1, <3>2, <3>3, Zenon
  <2> QED BY <2>6, <2>7
<1> HIDE DEF n, rest
<1> DEFINE S == {j \in Nat : j <= n => Stands(n + 1 - j)}
<1>6. ASSUME NEW j \in Nat, \A k \in Nat : k < j => k \in S PROVE j \in S
  <2> SUFFICES ASSUME j <= n PROVE Stands(n + 1 - j)
    BY Zenon
  <2> DEFINE i == n + 1 - j
  <2>1. i \in Int /\ (j = 0 => i = n + 1) /\ (j # 0 => i \in 1 .. n)
    BY <1>1, SMT
  <2>2. ASSUME NEW e \in i + 1 .. n + 1 PROVE Stands(e)
    <3>1. n + 1 - e \in Nat /\ n + 1 - e < j /\ n + 1 - e <= n /\ n + 1 - (n + 1 - e) = e
      BY <1>1, SMT
    <3>2. n + 1 - e \in S
      BY <1>6, <3>1, Zenon
    <3> QED BY <3>1, <3>2, Zenon
  <2>3. CASE j = 0
    <3>1. s + (n + 1) = s + n + 1
      BY <1>1, SMT
    <3>2. <<>> \o rest = rest
      BY <1>2, ConcatEmptySeq, Zenon
    <3>3. a[n + 1] \o rest = b[s + (n + 1)]
      BY <1>3, <3>1, <3>2 DEF rest
    <3> QED BY <2>1, <2>3, <3>3, Zenon
  <2>4. CASE j # 0
    <3>1. i \in 1 .. n /\ i + 1 \in i + 1 .. n + 1
      BY <1>1, <2>1, <2>4, SMT
    <3>2. \A e \in i + 1 .. n + 1 : e \in 1 .. n + 1
      BY <1>1, <3>1, SMT
    <3> HIDE DEF i
    <3>3. CASE a[i] = <<t[i]>> \o a[i + 1] /\ b[s + i] = <<t[i]>> \o b[s + (i + 1)]
      <4>1. b[s + (i + 1)] = a[i + 1] \o rest
        BY <2>2, <3>1, Zenon
      <4>2. <<t[i]>> \in Seq(Token) /\ a[i + 1] \in Seq(Token)
        <5>1. t[i] \in Token /\ a[i + 1] \in Seq(Token)
          BY <1>1, <1>4, <3>1, <3>2, Zenon
        <5> HIDE DEF Token
        <5> QED BY <5>1, SMT
      <4>3. <<t[i]>> \o (a[i + 1] \o rest) = (<<t[i]>> \o a[i + 1]) \o rest
        BY <1>2, <4>2, JoinedEitherWay, Zenon
      <4>4. Stands(i)
        BY <3>3, <4>1, <4>3
      <4> QED BY <4>4 DEF i
    <3>4. CASE /\ endt[i] \in i + 1 .. n + 1 /\ sayt[i] \in Seq(Token)
               /\ a[i] = sayt[i] \o a[endt[i]] /\ b[s + i] = sayt[i] \o b[s + endt[i]]
      <4>1. b[s + endt[i]] = a[endt[i]] \o rest
        BY <2>2, <3>4, Zenon
      <4>2. a[endt[i]] \in Seq(Token)
        BY <1>4, <3>2, <3>4, Zenon
      <4>3. sayt[i] \o (a[endt[i]] \o rest) = (sayt[i] \o a[endt[i]]) \o rest
        BY <1>2, <3>4, <4>2, JoinedEitherWay, Zenon
      <4>4. Stands(i)
        BY <3>4, <4>1, <4>3
      <4> QED BY <4>4 DEF i
    <3> QED BY <1>5, <3>1, <3>3, <3>4, Zenon
  <2> QED BY <2>3, <2>4
<1> HIDE DEF S
<1>7. Nat \subseteq S
  BY <1>6, StrongInduction
<1>8. Stands(1)
  <2>1. n \in Nat /\ n <= n /\ n + 1 - n = 1
    BY <1>1, SMT
  <2>2. Stands(n + 1 - n)
    BY <1>7, <2>1, Zenon DEF S
  <2> QED BY <2>1, <2>2
<1> QED BY <1>8 DEF rest, n, Carries

LEMMA ThreeFirst ==
  ASSUME NEW A, NEW x \in A, NEW y \in A, NEW w \in A
  PROVE  /\ <<x>> \o <<y>> = <<x, y>>
         /\ <<x, y>> \o <<w>> = <<x, y, w>>
<1> DEFINE a == <<x>>
           b == <<y>>
           c == <<w>>
           d == <<x, y>>
           e == <<x, y, w>>
<1>1. /\ a \in Seq(A) /\ b \in Seq(A) /\ c \in Seq(A) /\ d \in Seq(A) /\ e \in Seq(A)
      /\ Len(a) = 1 /\ Len(b) = 1 /\ Len(c) = 1 /\ Len(d) = 2 /\ Len(e) = 3
  BY SMT
<1>2. a[1] = x /\ b[1] = y /\ c[1] = w /\ d[1] = x /\ d[2] = y /\ e[1] = x /\ e[2] = y /\ e[3] = w
  BY SMT
<1> HIDE DEF a, b, c, d, e
<1>3. a \o b = d
  <2>1. /\ Len(d) = Len(a) + Len(b)
        /\ \A k \in 1 .. Len(a) : d[k] = a[k]
        /\ \A k \in 1 .. Len(b) : d[Len(a) + k] = b[k]
    BY <1>1, <1>2, SMT
  <2> QED BY <1>1, <2>1, Joins, Zenon
<1>4. d \o c = e
  <2>1. /\ Len(e) = Len(d) + Len(c)
        /\ \A k \in 1 .. Len(d) : e[k] = d[k]
        /\ \A k \in 1 .. Len(c) : e[Len(d) + k] = c[k]
    BY <1>1, <1>2, SMT
  <2> QED BY <1>1, <2>1, Joins, Zenon
<1> QED BY <1>3, <1>4 DEF a, b, c, d, e

(* Two texts with an "and" between them.                                   *)
Both(t, v) == t \o And \o v

LEMMA BothParts ==
  ASSUME NEW t \in Seq(Token), NEW v \in Seq(Token)
  PROVE  /\ Both(t, v) \in Seq(Token) /\ And \in Seq(Token)
         /\ Within(t, Both(t, v), 0) /\ Within(v, Both(t, v), Len(t) + 3)
         /\ Len(t) \in Nat /\ Len(v) \in Nat /\ Len(Both(t, v)) = Len(t) + 3 + Len(v)
         /\ Both(t, v)[Len(t) + 1] = Space /\ Both(t, v)[Len(t) + 2] = W("and")
         /\ Both(t, v)[Len(t) + 3] = Space
<1> DEFINE x == Space
           y == W("and")
           u == Both(t, v)
           n == Len(t)
           m == Len(v)
<1>1. x \in Token /\ y \in Token
  BY VocabularyHas, WordIsClean, CleanIsToken, Zenon DEF Space
<1>2. And = <<x, y, x>> /\ u = t \o And \o v
  BY Zenon DEF And, Both
<1> HIDE DEF x, y, u
<1>3. And \in Seq(Token) /\ Len(And) = 3 /\ And[1] = x /\ And[2] = y /\ And[3] = x
  <2> HIDE DEF Token
  <2> QED BY <1>1, <1>2, SMT
<1>4. n \in Nat /\ m \in Nat
  BY LenProperties, Zenon
<1>5. /\ u \in Seq(Token) /\ Len(u) = n + 3 + m
      /\ \A k \in 1 .. n : u[k] = t[k]
      /\ u[n + 1] = x /\ u[n + 2] = y /\ u[n + 3] = x
      /\ \A k \in 1 .. m : u[n + 3 + k] = v[k]
  <2> DEFINE head == t \o And
  <2>1. /\ head \in Seq(Token) /\ Len(head) = n + 3
        /\ \A k \in 1 .. n : head[k] = t[k]
        /\ head[n + 1] = x /\ head[n + 2] = y /\ head[n + 3] = x
    <3> HIDE DEF Token
    <3>1. /\ head \in Seq(Token) /\ Len(head) = n + Len(And)
          /\ \A k \in 1 .. n + Len(And) : head[k] = IF k <= n THEN t[k] ELSE And[k - n]
      BY <1>3, ConcatProperties, Zenon
    <3> HIDE DEF head
    <3>2. /\ n + 1 \in 1 .. n + 3 /\ n + 2 \in 1 .. n + 3 /\ n + 3 \in 1 .. n + 3
          /\ ~(n + 1 <= n) /\ ~(n + 2 <= n) /\ ~(n + 3 <= n)
          /\ (n + 1) - n = 1 /\ (n + 2) - n = 2 /\ (n + 3) - n = 3
          /\ \A k \in 1 .. n : k \in 1 .. n + 3 /\ k <= n
      BY <1>4, SMT
    <3>3. \A k \in 1 .. n : head[k] = t[k]
      BY <1>3, <3>1, <3>2, Zenon
    <3>4. head[n + 1] = And[1] /\ head[n + 2] = And[2] /\ head[n + 3] = And[3]
      BY <1>3, <3>1, <3>2
    <3> QED BY <1>3, <3>1, <3>3, <3>4, Zenon
  <2>2. u = head \o v
    BY <1>2
  <2> HIDE DEF head
  <2>3. /\ u \in Seq(Token) /\ Len(u) = Len(head) + m
        /\ \A k \in 1 .. Len(head) + m : u[k] = IF k <= Len(head) THEN head[k] ELSE v[k - Len(head)]
    BY <2>1, <2>2, ConcatProperties, Zenon
  <2>4. /\ \A k \in 1 .. n + 3 : k \in 1 .. n + 3 + m /\ k <= n + 3
        /\ \A k \in 1 .. n : k \in 1 .. n + 3
        /\ n + 1 \in 1 .. n + 3 /\ n + 2 \in 1 .. n + 3 /\ n + 3 \in 1 .. n + 3
        /\ \A k \in 1 .. m : /\ n + 3 + k \in 1 .. n + 3 + m /\ ~(n + 3 + k <= n + 3)
                             /\ (n + 3 + k) - (n + 3) = k
    BY <1>4, SMT
  <2>5. \A k \in 1 .. n + 3 : u[k] = head[k]
    <3>1. \A k \in 1 .. n + 3 + m : u[k] = IF k <= n + 3 THEN head[k] ELSE v[k - (n + 3)]
      BY <2>1, <2>3
    <3> QED BY <2>4, <3>1, Zenon
  <2>6. \A k \in 1 .. m : u[n + 3 + k] = v[k]
    <3>1. \A k \in 1 .. m : u[n + 3 + k] = v[(n + 3 + k) - (n + 3)]
      BY <2>1, <2>3, <2>4, Zenon
    <3> QED BY <2>4, <3>1
  <2>7. u[n + 1] = x /\ u[n + 2] = y /\ u[n + 3] = x
    BY <2>1, <2>4, <2>5, Zenon
  <2>8. \A k \in 1 .. n : u[k] = t[k]
    BY <2>1, <2>4, <2>5, Zenon
  <2> QED BY <2>1, <2>3, <2>6, <2>7, <2>8, Zenon
<1> HIDE DEF n, m
<1>6. Within(t, u, 0)
  <2>1. /\ 0 \in Nat /\ 0 + n <= Len(u) /\ 0 + n + 1 = n + 1 /\ 0 + n + 2 = n + 2
        /\ \A k \in 1 .. n : 0 + k = k
    BY <1>4, <1>5, SMT
  <2>2. ~In(u, 0)
    BY <1>5, NothingAtZero, Zenon
  <2>3. \A k \in 1 .. n : u[0 + k] = t[k]
    BY <1>5, <2>1
  <2> QED BY <1>5, <2>1, <2>2, <2>3, Zenon DEF Within, n, x, y
<1>7. Within(v, u, n + 3)
  <2>1. /\ n + 3 \in Nat /\ n + 3 + m <= Len(u)
        /\ n + 3 + m + 1 \notin 1 .. Len(u) /\ n + 3 + m + 2 \notin 1 .. Len(u)
    BY <1>4, <1>5, SMT
  <2> QED BY <1>5, <2>1, Zenon DEF Within, In, m, x
<1> QED BY <1>3, <1>4, <1>5, <1>6, <1>7 DEF u, n, m, x, y
(* A rule keeps apart what an "and" keeps apart: what it finds in a part   *)
(* of a text is what it finds in the part alone, and nothing in the "and". *)
KeepsApart(end, say) ==
  /\ \A x \in Seq(Token) : \A i \in 1 .. Len(x) :
       end[x][i] # 0 => Claims(x, i, end[x][i], say[x][i])
  /\ \A x \in Seq(Token), u \in Seq(Token), s \in Nat : Within(x, u, s) =>
       \A i \in 1 .. Len(x) : Alike(s, end[x][i], end[u][s + i], say[x][i], say[u][s + i])
  /\ \A x \in Seq(Token) : \A i \in 1 .. Len(x) :
       x[i] = Space \/ x[i] = W("and") => end[x][i] = 0


MadeOf(end, say, x) == Replaced(x, end[x], say[x])
SplitsAt(end, say, t, v) ==
  MadeOf(end, say, Both(t, v)) = Both(MadeOf(end, say, t), MadeOf(end, say, v))

LEMMA PassBoth ==
  ASSUME NEW end, NEW say, KeepsApart(end, say), NEW t \in Seq(Token), NEW v \in Seq(Token)
  PROVE  SplitsAt(end, say, t, v)
<1> DEFINE u == Both(t, v)
           n == Len(t)
           m == Len(v)
           endt == end[t]
           sayt == say[t]
           endv == end[v]
           sayv == say[v]
           endu == end[u]
           sayu == say[u]
<1>1. /\ u \in Seq(Token) /\ Within(t, u, 0) /\ Within(v, u, n + 3) /\ n \in Nat /\ m \in Nat
      /\ Len(u) = n + 3 + m /\ u[n + 1] = Space /\ u[n + 2] = W("and") /\ u[n + 3] = Space
  BY BothParts, Zenon
<1> HIDE DEF u
<1>0. /\ \A i \in 1 .. Len(t) : endt[i] # 0 => Claims(t, i, endt[i], sayt[i])
      /\ \A i \in 1 .. Len(v) : endv[i] # 0 => Claims(v, i, endv[i], sayv[i])
      /\ \A i \in 1 .. Len(u) : endu[i] # 0 => Claims(u, i, endu[i], sayu[i])
      /\ \A i \in 1 .. Len(t) : Alike(0, endt[i], endu[0 + i], sayt[i], sayu[0 + i])
      /\ \A i \in 1 .. Len(v) :
           Alike(n + 3, endv[i], endu[n + 3 + i], sayv[i], sayu[n + 3 + i])
      /\ endu[n + 1] = 0 /\ endu[n + 2] = 0 /\ endu[n + 3] = 0
  <2>1. /\ 0 \in Nat /\ n + 3 \in Nat
        /\ n + 1 \in 1 .. Len(u) /\ n + 2 \in 1 .. Len(u) /\ n + 3 \in 1 .. Len(u)
    BY <1>1, SMT
  <2>2. /\ \A x \in Seq(Token) : \A i \in 1 .. Len(x) :
             end[x][i] # 0 => Claims(x, i, end[x][i], say[x][i])
        /\ \A x \in Seq(Token), w \in Seq(Token), s \in Nat : Within(x, w, s) =>
             \A i \in 1 .. Len(x) : Alike(s, end[x][i], end[w][s + i], say[x][i], say[w][s + i])
        /\ \A x \in Seq(Token) : \A i \in 1 .. Len(x) :
             x[i] = Space \/ x[i] = W("and") => end[x][i] = 0
    BY Zenon DEF KeepsApart
  <2>3. /\ \A i \in 1 .. Len(t) : Alike(0, end[t][i], end[u][0 + i], say[t][i], say[u][0 + i])
        /\ \A i \in 1 .. Len(v) :
             Alike(n + 3, end[v][i], end[u][n + 3 + i], say[v][i], say[u][n + 3 + i])
    BY <1>1, <2>1, <2>2, Zenon
  <2>4. end[u][n + 1] = 0 /\ end[u][n + 2] = 0 /\ end[u][n + 3] = 0
    BY <1>1, <2>1, <2>2, Zenon
  <2> QED BY <1>1, <2>2, <2>3, <2>4, Zenon
<1> USE <1>0
<1> HIDE DEF endt, sayt, endv, sayv, endu, sayu
<1>2. /\ Fits(t, endt, sayt, Token) /\ Fits(v, endv, sayv, Token) /\ Fits(u, endu, sayu, Token)
  <2>1. \A x \in Seq(Token) : \A i \in 1 .. Len(x) : x[i] \in Token
    BY ElementOfSeq, Zenon
  <2> QED BY <1>1, <2>1, Zenon DEF Fits, Claims, u
<1>3. PICK a : Replaced(t, endt, sayt) = a[1] /\ Passing(a, t, endt, sayt)
  BY <1>2, ReplacedFunction, Zenon
<1>4. PICK c : Replaced(v, endv, sayv) = c[1] /\ Passing(c, v, endv, sayv)
  BY <1>2, ReplacedFunction, Zenon
<1>5. PICK b : Replaced(u, endu, sayu) = b[1] /\ Passing(b, u, endu, sayu)
  BY <1>1, <1>2, ReplacedFunction, Zenon
<1>6. /\ \A i \in 1 .. n + 1 : a[i] \in Seq(Token)
      /\ \A i \in 1 .. m + 1 : c[i] \in Seq(Token)
      /\ \A i \in 1 .. Len(u) + 1 : b[i] \in Seq(Token)
  BY <1>1, <1>2, <1>3, <1>4, <1>5, PassingType, Zenon
<1>7. /\ 0 + 1 = 1 /\ 0 + n + 1 = n + 1 /\ 1 \in 1 .. n + 1 /\ 1 \in 1 .. m + 1
      /\ n + 1 \in 1 .. Len(u) + 1 /\ n + 2 \in 1 .. Len(u) + 1 /\ n + 3 \in 1 .. Len(u) + 1
      /\ ~(n + 1 > Len(u)) /\ ~(n + 2 > Len(u)) /\ ~(n + 3 > Len(u))
      /\ (n + 1) + 1 = n + 2 /\ (n + 2) + 1 = n + 3 /\ (n + 3) + 1 = n + 4 /\ n + 3 + 1 = n + 4
      /\ n + 3 + m + 1 \in 1 .. Len(u) + 1 /\ n + 3 + m + 1 > Len(u) /\ n + 4 \in 1 .. Len(u) + 1
  BY <1>1, SMT
<1>8. b[1] = a[1] \o b[n + 1]
  <2>1. b[0 + n + 1] \in Seq(Token)
    BY <1>6, <1>7
  <2>2. b[0 + 1] = a[1] \o b[0 + n + 1]
    <3> DEFINE s == 0
    <3>1. /\ Within(t, u, s) /\ b[s + Len(t) + 1] \in Seq(Token)
          /\ \A i \in 1 .. Len(t) : Alike(s, endt[i], endu[s + i], sayt[i], sayu[s + i])
      BY <1>1, <2>1
    <3> HIDE DEF s
    <3>2. Passing(a, t, endt, sayt) /\ Passing(b, u, endu, sayu)
      BY <1>3, <1>5
    <3>3. \A i \in 1 .. Len(t) : endt[i] # 0 => Claims(t, i, endt[i], sayt[i])
      OBVIOUS
    <3>4. \A i \in 1 .. Len(t) + 1 : a[i] \in Seq(Token)
      BY <1>6
    <3>5. b[s + 1] = a[1] \o b[s + Len(t) + 1]
      <4>1. StepsFollow(t, u, s, endt, sayt, endu, sayu, a, b)
        BY <3>1, <3>2, <3>3, <3>4, Zenon DEF StepsFollow
      <4>2. Carries(t, s, a, b)
        BY <4>1, PassWithin, Zenon
      <4> QED BY <4>2, Zenon DEF Carries
    <3> QED BY <3>5 DEF s
  <2> QED BY <1>7, <2>2
<1>9. b[n + 4] = c[1]
  <2>1. b[n + 3 + m + 1] = <<>>
    BY <1>5, <1>7, Zenon DEF Passing
  <2>2. b[n + 3 + m + 1] \in Seq(Token)
    BY <1>6, <1>7, Zenon
  <2>3. b[n + 3 + 1] = c[1] \o b[n + 3 + m + 1]
    <3> DEFINE s == n + 3
    <3>1. /\ Within(v, u, s) /\ b[s + Len(v) + 1] \in Seq(Token)
          /\ \A i \in 1 .. Len(v) : Alike(s, endv[i], endu[s + i], sayv[i], sayu[s + i])
      BY <1>1, <2>2
    <3> HIDE DEF s
    <3>2. Passing(c, v, endv, sayv) /\ Passing(b, u, endu, sayu)
      BY <1>4, <1>5
    <3>3. \A i \in 1 .. Len(v) : endv[i] # 0 => Claims(v, i, endv[i], sayv[i])
      OBVIOUS
    <3>4. \A i \in 1 .. Len(v) + 1 : c[i] \in Seq(Token)
      BY <1>6
    <3>5. b[s + 1] = c[1] \o b[s + Len(v) + 1]
      <4>1. StepsFollow(v, u, s, endv, sayv, endu, sayu, c, b)
        BY <3>1, <3>2, <3>3, <3>4, Zenon DEF StepsFollow
      <4>2. Carries(v, s, c, b)
        BY <4>1, PassWithin, Zenon
      <4> QED BY <4>2, Zenon DEF Carries
    <3> QED BY <3>5 DEF s
  <2>4. c[1] \o <<>> = c[1]
    BY <1>6, <1>7, ConcatEmptySeq, Zenon
  <2> QED BY <1>7, <2>1, <2>3, <2>4
<1>10. b[n + 1] = And \o c[1]
  <2>1. /\ b[n + 1] = <<u[n + 1]>> \o b[(n + 1) + 1]
        /\ b[n + 2] = <<u[n + 2]>> \o b[(n + 2) + 1]
        /\ b[n + 3] = <<u[n + 3]>> \o b[(n + 3) + 1]
    BY <1>5, <1>7, Zenon DEF Passing
  <2>2. b[n + 1] = <<Space>> \o (<<W("and")>> \o (<<Space>> \o c[1]))
    BY <1>1, <1>7, <1>9, <2>1
  <2> DEFINE x == Space
             y == W("and")
             z == c[1]
  <2>3. x \in Token /\ y \in Token /\ z \in Seq(Token)
    <3>1. x \in Token /\ y \in Token
      BY VocabularyHas, WordIsClean, CleanIsToken, Zenon DEF Space
    <3> QED BY <1>6, <1>7, <3>1, Zenon
  <2> HIDE DEF x, y, z
  <2>4. <<x>> \o (<<y>> \o (<<x>> \o z)) = <<x, y, x>> \o z
    <3>1. <<x>> \in Seq(Token) /\ <<y>> \in Seq(Token) /\ <<x, y>> \in Seq(Token)
      <4> HIDE DEF Token
      <4> QED BY <2>3, SMT
    <3>2. <<x>> \o <<y>> = <<x, y>> /\ <<x, y>> \o <<x>> = <<x, y, x>> /\ <<x>> \o z \in Seq(Token)
      <4>1. <<x>> \o <<y>> = <<x, y>>
        BY <2>3, ThreeFirst, Zenon
      <4>2. <<x, y>> \o <<x>> = <<x, y, x>>
        BY <2>3, ThreeFirst, Zenon
      <4>3. <<x>> \o z \in Seq(Token)
        BY <2>3, <3>1, ConcatProperties, Zenon
      <4> QED BY <4>1, <4>2, <4>3
    <3>3. (<<x>> \o <<y>>) \o (<<x>> \o z) = <<x>> \o (<<y>> \o (<<x>> \o z))
      BY <3>1, <3>2, JoinedEitherWay, Zenon
    <3>4. (<<x, y>> \o <<x>>) \o z = <<x, y>> \o (<<x>> \o z)
      BY <2>3, <3>1, JoinedEitherWay, Zenon
    <3> QED BY <3>2, <3>3, <3>4
  <2>5. And = <<x, y, x>>
    BY Zenon DEF And, x, y
  <2> QED BY <2>2, <2>4, <2>5 DEF x, y, z
<1>11. a[1] \o (And \o c[1]) = Both(a[1], c[1])
  <2>1. a[1] \in Seq(Token) /\ c[1] \in Seq(Token) /\ And \in Seq(Token)
    BY <1>6, <1>7, BothParts, Zenon
  <2>2. (a[1] \o And) \o c[1] = a[1] \o (And \o c[1])
    BY <2>1, JoinedEitherWay, Zenon
  <2> QED BY <2>2 DEF Both
<1>12. Replaced(u, endu, sayu) = Both(Replaced(t, endt, sayt), Replaced(v, endv, sayv))
  BY <1>3, <1>4, <1>5, <1>8, <1>10, <1>11
<1> QED BY <1>12, Zenon DEF SplitsAt, MadeOf, u, endt, sayt, endv, sayv, endu, sayu
(* No rule finds anything at a space or at an "and".                       *)
Idle(x, i) ==
  /\ TimeMeridiemEnd(x, i) = 0 /\ TimeBareEnd(x, i) = 0 /\ HourEnd(x, i) = 0
  /\ RoomEnd(x, i) = 0 /\ BusEnd(x, i) = 0 /\ LockerEnd(x, i) = 0 /\ ExtensionEnd(x, i) = 0
  /\ PhoneEnd(x, i) = 0 /\ RangeEnd(x, i) = 0 /\ OrdinalEnd(x, i) = 0
  /\ SymbolEnd(x, i) = 0 /\ AbbreviationEnd(x, i) = 0
  /\ DecimalEnd(x, i) = 0 /\ LongRunEnd(x, i) = 0 /\ IntEnd(x, i) = 0

LEMMA PlainNames ==
  /\ Plain({"room", "rm"}) /\ Plain({"bus"}) /\ Plain({"locker"}) /\ Plain(ExtensionNames)
  /\ Plain({"&", "%", "#"}) /\ Plain(DOMAIN Abbreviations)
<1>1. DOMAIN Abbreviations = {"mr", "dr", "dept"}
  BY SMT DEF Abbreviations
<1> QED BY <1>1, Zenon DEF Plain, ExtensionNames

LEMMA NothingAtAnd ==
  ASSUME NEW x \in Seq(Token), NEW i, x[i] = Space \/ x[i] = W("and")
  PROVE  Idle(x, i)
<1>1. /\ \A lengths : ~NumAt(x, i, lengths)
      /\ \A words : Plain(words) => ~At(x, i, words)
  <2>1. x[i].d = <<>> /\ \A words : Plain(words) => x[i].w \notin words
    BY TokensBetween
  <2> QED BY <2>1, Zenon DEF NumAt, At
<1>2. /\ ~At(x, i, {"room", "rm"}) /\ ~At(x, i, {"bus"}) /\ ~At(x, i, {"locker"})
      /\ ~At(x, i, ExtensionNames) /\ ~At(x, i, {"&", "%", "#"})
      /\ ~At(x, i, DOMAIN Abbreviations)
  BY <1>1, PlainNames, Zenon
<1>3. \A lengths : ~NumAt(x, 0, lengths)
  BY NoNumberAtZero, Zenon
<1>4. TimeMeridiemEnd(x, i) = 0 /\ TimeBareEnd(x, i) = 0 /\ HourEnd(x, i) = 0
  BY <1>1, Zenon DEF TimeMeridiemEnd, TimeBareEnd, HourEnd, ClockAt
<1>5. /\ Named(x, i, {"room", "rm"}) = 0 /\ Named(x, i, {"locker"}) = 0
      /\ Named(x, i, ExtensionNames) = 0 /\ BusNumber(x, i) = 0
  BY <1>2, Zenon DEF Named, BusNumber
<1>6. RoomEnd(x, i) = 0
  BY <1>3, <1>5, Zenon DEF RoomEnd
<1>7. BusEnd(x, i) = 0
  BY <1>3, <1>5, Zenon DEF BusEnd
<1>8. LockerEnd(x, i) = 0
  BY <1>3, <1>5, Zenon DEF LockerEnd
<1>9. ExtensionEnd(x, i) = 0
  BY <1>3, <1>5, Zenon DEF ExtensionEnd
<1>10. PhoneEnd(x, i) = 0
  BY <1>1, Zenon DEF PhoneEnd, WithArea, ShortPhone
<1>11. RangeEnd(x, i) = 0 /\ OrdinalEnd(x, i) = 0
  BY <1>1, Zenon DEF RangeEnd, OrdinalEnd
<1>12. SymbolEnd(x, i) = 0 /\ AbbreviationEnd(x, i) = 0
  BY <1>2, Zenon DEF SymbolEnd, AbbreviationEnd
<1>13. DecimalEnd(x, i) = 0
  BY <1>1, Zenon DEF DecimalEnd
<1>14. LongRunEnd(x, i) = 0 /\ IntEnd(x, i) = 0
  BY <1>1, Zenon DEF LongRunEnd, IntEnd
<1> QED BY <1>4, <1>6, <1>7, <1>8, <1>9, <1>10, <1>11, <1>12, <1>13, <1>14, Zenon DEF Idle

LEMMA BothIsText == ASSUME NEW t \in Seq(Token), NEW v \in Seq(Token) PROVE Both(t, v) \in Seq(Token)
BY BothParts, Zenon

(* The conditions of KeepsApart, from what is known of a rule's pattern.   *)
LEMMA ApartWhen ==
  ASSUME NEW end, NEW say,
         \A x \in Seq(Token) : \A i \in 1 .. Len(x) :
           end[x][i] # 0 => Claims(x, i, end[x][i], say[x][i]),
         \A x \in Seq(Token), u \in Seq(Token), s \in Nat : Within(x, u, s) =>
           \A i \in 1 .. Len(x) : \A l \in 1 .. Len(u) : l = s + i =>
             Alike(s, end[x][i], end[u][l], say[x][i], say[u][l]),
         \A x \in Seq(Token) : \A i \in 1 .. Len(x) : Idle(x, i) => end[x][i] = 0
  PROVE  KeepsApart(end, say)
<1>1. ASSUME NEW x \in Seq(Token), NEW u \in Seq(Token), NEW s \in Nat, Within(x, u, s),
             NEW i \in 1 .. Len(x)
      PROVE  Alike(s, end[x][i], end[u][s + i], say[x][i], say[u][s + i])
  <2>1. s + i \in 1 .. Len(u)
    BY <1>1, InPart, Zenon DEF In
  <2> QED BY <1>1, <2>1, Zenon
<1>2. \A x \in Seq(Token) : \A i \in 1 .. Len(x) :
        x[i] = Space \/ x[i] = W("and") => end[x][i] = 0
  BY NothingAtAnd, Zenon
<1> QED BY <1>1, <1>2, Zenon DEF KeepsApart

LEMMA TimeMeridiemBoth ==
  ASSUME NEW t \in Seq(Token), NEW v \in Seq(Token)
  PROVE  Sub(Both(t, v), TimeMeridiemEnd, SayTimeMeridiem) = Both(Sub(t, TimeMeridiemEnd, SayTimeMeridiem), Sub(v, TimeMeridiemEnd, SayTimeMeridiem))
<1> DEFINE end == [x \in Seq(Token) |-> [i \in DOMAIN x |-> TimeMeridiemEnd(x, i)]]
           say == [x \in Seq(Token) |-> [i \in DOMAIN x |-> SayTimeMeridiem(x, i)]]
<1>1. \A x \in Seq(Token) : Sub(x, TimeMeridiemEnd, SayTimeMeridiem) = MadeOf(end, say, x)
  BY Zenon DEF Sub, MadeOf
<1>2. \A x \in Seq(Token) : \A i \in 1 .. Len(x) :
        end[x][i] = TimeMeridiemEnd(x, i) /\ say[x][i] = SayTimeMeridiem(x, i)
  BY DomainOfText, Zenon
<1> HIDE DEF end, say
<1>3. \A x \in Seq(Token) : \A i \in 1 .. Len(x) :
        end[x][i] # 0 => Claims(x, i, end[x][i], say[x][i])
  BY <1>2, TimeMeridiemClaims, Zenon
<1>4. \A x \in Seq(Token), u \in Seq(Token), s \in Nat : Within(x, u, s) =>
        \A i \in 1 .. Len(x) : \A l \in 1 .. Len(u) : l = s + i =>
          Alike(s, end[x][i], end[u][l], say[x][i], say[u][l])
  <2> SUFFICES ASSUME NEW x \in Seq(Token), NEW u \in Seq(Token), NEW s \in Nat, Within(x, u, s),
                      NEW i \in 1 .. Len(x), NEW l \in 1 .. Len(u), l = s + i
               PROVE  Alike(s, end[x][i], end[u][l], say[x][i], say[u][l])
    BY Zenon
  <2>1. Alike(s, TimeMeridiemEnd(x, i), TimeMeridiemEnd(u, l), SayTimeMeridiem(x, i), SayTimeMeridiem(u, l))
    BY TimeMeridiemAlike, Zenon
  <2> QED BY <1>2, <2>1, Zenon
<1>5. \A x \in Seq(Token) : \A i \in 1 .. Len(x) : Idle(x, i) => end[x][i] = 0
  BY <1>2, Zenon DEF Idle
<1>6. KeepsApart(end, say)
  BY <1>3, <1>4, <1>5, ApartWhen, Zenon
<1>7. SplitsAt(end, say, t, v)
  BY <1>6, PassBoth, Zenon
<1> QED BY <1>1, <1>7, BothIsText, Zenon DEF SplitsAt

LEMMA TimeBareBoth ==
  ASSUME NEW t \in Seq(Token), NEW v \in Seq(Token)
  PROVE  Sub(Both(t, v), TimeBareEnd, SayTimeBare) = Both(Sub(t, TimeBareEnd, SayTimeBare), Sub(v, TimeBareEnd, SayTimeBare))
<1> DEFINE end == [x \in Seq(Token) |-> [i \in DOMAIN x |-> TimeBareEnd(x, i)]]
           say == [x \in Seq(Token) |-> [i \in DOMAIN x |-> SayTimeBare(x, i)]]
<1>1. \A x \in Seq(Token) : Sub(x, TimeBareEnd, SayTimeBare) = MadeOf(end, say, x)
  BY Zenon DEF Sub, MadeOf
<1>2. \A x \in Seq(Token) : \A i \in 1 .. Len(x) :
        end[x][i] = TimeBareEnd(x, i) /\ say[x][i] = SayTimeBare(x, i)
  BY DomainOfText, Zenon
<1> HIDE DEF end, say
<1>3. \A x \in Seq(Token) : \A i \in 1 .. Len(x) :
        end[x][i] # 0 => Claims(x, i, end[x][i], say[x][i])
  BY <1>2, TimeBareClaims, Zenon
<1>4. \A x \in Seq(Token), u \in Seq(Token), s \in Nat : Within(x, u, s) =>
        \A i \in 1 .. Len(x) : \A l \in 1 .. Len(u) : l = s + i =>
          Alike(s, end[x][i], end[u][l], say[x][i], say[u][l])
  <2> SUFFICES ASSUME NEW x \in Seq(Token), NEW u \in Seq(Token), NEW s \in Nat, Within(x, u, s),
                      NEW i \in 1 .. Len(x), NEW l \in 1 .. Len(u), l = s + i
               PROVE  Alike(s, end[x][i], end[u][l], say[x][i], say[u][l])
    BY Zenon
  <2>1. Alike(s, TimeBareEnd(x, i), TimeBareEnd(u, l), SayTimeBare(x, i), SayTimeBare(u, l))
    BY TimeBareAlike, Zenon
  <2> QED BY <1>2, <2>1, Zenon
<1>5. \A x \in Seq(Token) : \A i \in 1 .. Len(x) : Idle(x, i) => end[x][i] = 0
  BY <1>2, Zenon DEF Idle
<1>6. KeepsApart(end, say)
  BY <1>3, <1>4, <1>5, ApartWhen, Zenon
<1>7. SplitsAt(end, say, t, v)
  BY <1>6, PassBoth, Zenon
<1> QED BY <1>1, <1>7, BothIsText, Zenon DEF SplitsAt

LEMMA HourBoth ==
  ASSUME NEW t \in Seq(Token), NEW v \in Seq(Token)
  PROVE  Sub(Both(t, v), HourEnd, SayHour) = Both(Sub(t, HourEnd, SayHour), Sub(v, HourEnd, SayHour))
<1> DEFINE end == [x \in Seq(Token) |-> [i \in DOMAIN x |-> HourEnd(x, i)]]
           say == [x \in Seq(Token) |-> [i \in DOMAIN x |-> SayHour(x, i)]]
<1>1. \A x \in Seq(Token) : Sub(x, HourEnd, SayHour) = MadeOf(end, say, x)
  BY Zenon DEF Sub, MadeOf
<1>2. \A x \in Seq(Token) : \A i \in 1 .. Len(x) :
        end[x][i] = HourEnd(x, i) /\ say[x][i] = SayHour(x, i)
  BY DomainOfText, Zenon
<1> HIDE DEF end, say
<1>3. \A x \in Seq(Token) : \A i \in 1 .. Len(x) :
        end[x][i] # 0 => Claims(x, i, end[x][i], say[x][i])
  BY <1>2, HourClaims, Zenon
<1>4. \A x \in Seq(Token), u \in Seq(Token), s \in Nat : Within(x, u, s) =>
        \A i \in 1 .. Len(x) : \A l \in 1 .. Len(u) : l = s + i =>
          Alike(s, end[x][i], end[u][l], say[x][i], say[u][l])
  <2> SUFFICES ASSUME NEW x \in Seq(Token), NEW u \in Seq(Token), NEW s \in Nat, Within(x, u, s),
                      NEW i \in 1 .. Len(x), NEW l \in 1 .. Len(u), l = s + i
               PROVE  Alike(s, end[x][i], end[u][l], say[x][i], say[u][l])
    BY Zenon
  <2>1. Alike(s, HourEnd(x, i), HourEnd(u, l), SayHour(x, i), SayHour(u, l))
    BY HourAlike, Zenon
  <2> QED BY <1>2, <2>1, Zenon
<1>5. \A x \in Seq(Token) : \A i \in 1 .. Len(x) : Idle(x, i) => end[x][i] = 0
  BY <1>2, Zenon DEF Idle
<1>6. KeepsApart(end, say)
  BY <1>3, <1>4, <1>5, ApartWhen, Zenon
<1>7. SplitsAt(end, say, t, v)
  BY <1>6, PassBoth, Zenon
<1> QED BY <1>1, <1>7, BothIsText, Zenon DEF SplitsAt

LEMMA RoomBoth ==
  ASSUME NEW t \in Seq(Token), NEW v \in Seq(Token)
  PROVE  Sub(Both(t, v), RoomEnd, SayRoom) = Both(Sub(t, RoomEnd, SayRoom), Sub(v, RoomEnd, SayRoom))
<1> DEFINE end == [x \in Seq(Token) |-> [i \in DOMAIN x |-> RoomEnd(x, i)]]
           say == [x \in Seq(Token) |-> [i \in DOMAIN x |-> SayRoom(x, i)]]
<1>1. \A x \in Seq(Token) : Sub(x, RoomEnd, SayRoom) = MadeOf(end, say, x)
  BY Zenon DEF Sub, MadeOf
<1>2. \A x \in Seq(Token) : \A i \in 1 .. Len(x) :
        end[x][i] = RoomEnd(x, i) /\ say[x][i] = SayRoom(x, i)
  BY DomainOfText, Zenon
<1> HIDE DEF end, say
<1>3. \A x \in Seq(Token) : \A i \in 1 .. Len(x) :
        end[x][i] # 0 => Claims(x, i, end[x][i], say[x][i])
  BY <1>2, RoomClaims, Zenon
<1>4. \A x \in Seq(Token), u \in Seq(Token), s \in Nat : Within(x, u, s) =>
        \A i \in 1 .. Len(x) : \A l \in 1 .. Len(u) : l = s + i =>
          Alike(s, end[x][i], end[u][l], say[x][i], say[u][l])
  <2> SUFFICES ASSUME NEW x \in Seq(Token), NEW u \in Seq(Token), NEW s \in Nat, Within(x, u, s),
                      NEW i \in 1 .. Len(x), NEW l \in 1 .. Len(u), l = s + i
               PROVE  Alike(s, end[x][i], end[u][l], say[x][i], say[u][l])
    BY Zenon
  <2>1. Alike(s, RoomEnd(x, i), RoomEnd(u, l), SayRoom(x, i), SayRoom(u, l))
    BY RoomAlike, Zenon
  <2> QED BY <1>2, <2>1, Zenon
<1>5. \A x \in Seq(Token) : \A i \in 1 .. Len(x) : Idle(x, i) => end[x][i] = 0
  BY <1>2, Zenon DEF Idle
<1>6. KeepsApart(end, say)
  BY <1>3, <1>4, <1>5, ApartWhen, Zenon
<1>7. SplitsAt(end, say, t, v)
  BY <1>6, PassBoth, Zenon
<1> QED BY <1>1, <1>7, BothIsText, Zenon DEF SplitsAt

LEMMA BusBoth ==
  ASSUME NEW t \in Seq(Token), NEW v \in Seq(Token)
  PROVE  Sub(Both(t, v), BusEnd, SayBus) = Both(Sub(t, BusEnd, SayBus), Sub(v, BusEnd, SayBus))
<1> DEFINE end == [x \in Seq(Token) |-> [i \in DOMAIN x |-> BusEnd(x, i)]]
           say == [x \in Seq(Token) |-> [i \in DOMAIN x |-> SayBus(x, i)]]
<1>1. \A x \in Seq(Token) : Sub(x, BusEnd, SayBus) = MadeOf(end, say, x)
  BY Zenon DEF Sub, MadeOf
<1>2. \A x \in Seq(Token) : \A i \in 1 .. Len(x) :
        end[x][i] = BusEnd(x, i) /\ say[x][i] = SayBus(x, i)
  BY DomainOfText, Zenon
<1> HIDE DEF end, say
<1>3. \A x \in Seq(Token) : \A i \in 1 .. Len(x) :
        end[x][i] # 0 => Claims(x, i, end[x][i], say[x][i])
  BY <1>2, BusClaims, Zenon
<1>4. \A x \in Seq(Token), u \in Seq(Token), s \in Nat : Within(x, u, s) =>
        \A i \in 1 .. Len(x) : \A l \in 1 .. Len(u) : l = s + i =>
          Alike(s, end[x][i], end[u][l], say[x][i], say[u][l])
  <2> SUFFICES ASSUME NEW x \in Seq(Token), NEW u \in Seq(Token), NEW s \in Nat, Within(x, u, s),
                      NEW i \in 1 .. Len(x), NEW l \in 1 .. Len(u), l = s + i
               PROVE  Alike(s, end[x][i], end[u][l], say[x][i], say[u][l])
    BY Zenon
  <2>1. Alike(s, BusEnd(x, i), BusEnd(u, l), SayBus(x, i), SayBus(u, l))
    BY BusAlike, Zenon
  <2> QED BY <1>2, <2>1, Zenon
<1>5. \A x \in Seq(Token) : \A i \in 1 .. Len(x) : Idle(x, i) => end[x][i] = 0
  BY <1>2, Zenon DEF Idle
<1>6. KeepsApart(end, say)
  BY <1>3, <1>4, <1>5, ApartWhen, Zenon
<1>7. SplitsAt(end, say, t, v)
  BY <1>6, PassBoth, Zenon
<1> QED BY <1>1, <1>7, BothIsText, Zenon DEF SplitsAt

LEMMA LockerBoth ==
  ASSUME NEW t \in Seq(Token), NEW v \in Seq(Token)
  PROVE  Sub(Both(t, v), LockerEnd, SayLocker) = Both(Sub(t, LockerEnd, SayLocker), Sub(v, LockerEnd, SayLocker))
<1> DEFINE end == [x \in Seq(Token) |-> [i \in DOMAIN x |-> LockerEnd(x, i)]]
           say == [x \in Seq(Token) |-> [i \in DOMAIN x |-> SayLocker(x, i)]]
<1>1. \A x \in Seq(Token) : Sub(x, LockerEnd, SayLocker) = MadeOf(end, say, x)
  BY Zenon DEF Sub, MadeOf
<1>2. \A x \in Seq(Token) : \A i \in 1 .. Len(x) :
        end[x][i] = LockerEnd(x, i) /\ say[x][i] = SayLocker(x, i)
  BY DomainOfText, Zenon
<1> HIDE DEF end, say
<1>3. \A x \in Seq(Token) : \A i \in 1 .. Len(x) :
        end[x][i] # 0 => Claims(x, i, end[x][i], say[x][i])
  BY <1>2, LockerClaims, Zenon
<1>4. \A x \in Seq(Token), u \in Seq(Token), s \in Nat : Within(x, u, s) =>
        \A i \in 1 .. Len(x) : \A l \in 1 .. Len(u) : l = s + i =>
          Alike(s, end[x][i], end[u][l], say[x][i], say[u][l])
  <2> SUFFICES ASSUME NEW x \in Seq(Token), NEW u \in Seq(Token), NEW s \in Nat, Within(x, u, s),
                      NEW i \in 1 .. Len(x), NEW l \in 1 .. Len(u), l = s + i
               PROVE  Alike(s, end[x][i], end[u][l], say[x][i], say[u][l])
    BY Zenon
  <2>1. Alike(s, LockerEnd(x, i), LockerEnd(u, l), SayLocker(x, i), SayLocker(u, l))
    BY LockerAlike, Zenon
  <2> QED BY <1>2, <2>1, Zenon
<1>5. \A x \in Seq(Token) : \A i \in 1 .. Len(x) : Idle(x, i) => end[x][i] = 0
  BY <1>2, Zenon DEF Idle
<1>6. KeepsApart(end, say)
  BY <1>3, <1>4, <1>5, ApartWhen, Zenon
<1>7. SplitsAt(end, say, t, v)
  BY <1>6, PassBoth, Zenon
<1> QED BY <1>1, <1>7, BothIsText, Zenon DEF SplitsAt

LEMMA ExtensionBoth ==
  ASSUME NEW t \in Seq(Token), NEW v \in Seq(Token)
  PROVE  Sub(Both(t, v), ExtensionEnd, SayExtension) = Both(Sub(t, ExtensionEnd, SayExtension), Sub(v, ExtensionEnd, SayExtension))
<1> DEFINE end == [x \in Seq(Token) |-> [i \in DOMAIN x |-> ExtensionEnd(x, i)]]
           say == [x \in Seq(Token) |-> [i \in DOMAIN x |-> SayExtension(x, i)]]
<1>1. \A x \in Seq(Token) : Sub(x, ExtensionEnd, SayExtension) = MadeOf(end, say, x)
  BY Zenon DEF Sub, MadeOf
<1>2. \A x \in Seq(Token) : \A i \in 1 .. Len(x) :
        end[x][i] = ExtensionEnd(x, i) /\ say[x][i] = SayExtension(x, i)
  BY DomainOfText, Zenon
<1> HIDE DEF end, say
<1>3. \A x \in Seq(Token) : \A i \in 1 .. Len(x) :
        end[x][i] # 0 => Claims(x, i, end[x][i], say[x][i])
  BY <1>2, ExtensionClaims, Zenon
<1>4. \A x \in Seq(Token), u \in Seq(Token), s \in Nat : Within(x, u, s) =>
        \A i \in 1 .. Len(x) : \A l \in 1 .. Len(u) : l = s + i =>
          Alike(s, end[x][i], end[u][l], say[x][i], say[u][l])
  <2> SUFFICES ASSUME NEW x \in Seq(Token), NEW u \in Seq(Token), NEW s \in Nat, Within(x, u, s),
                      NEW i \in 1 .. Len(x), NEW l \in 1 .. Len(u), l = s + i
               PROVE  Alike(s, end[x][i], end[u][l], say[x][i], say[u][l])
    BY Zenon
  <2>1. Alike(s, ExtensionEnd(x, i), ExtensionEnd(u, l), SayExtension(x, i), SayExtension(u, l))
    BY ExtensionAlike, Zenon
  <2> QED BY <1>2, <2>1, Zenon
<1>5. \A x \in Seq(Token) : \A i \in 1 .. Len(x) : Idle(x, i) => end[x][i] = 0
  BY <1>2, Zenon DEF Idle
<1>6. KeepsApart(end, say)
  BY <1>3, <1>4, <1>5, ApartWhen, Zenon
<1>7. SplitsAt(end, say, t, v)
  BY <1>6, PassBoth, Zenon
<1> QED BY <1>1, <1>7, BothIsText, Zenon DEF SplitsAt

LEMMA PhoneBoth ==
  ASSUME NEW t \in Seq(Token), NEW v \in Seq(Token)
  PROVE  Sub(Both(t, v), PhoneEnd, SayPhone) = Both(Sub(t, PhoneEnd, SayPhone), Sub(v, PhoneEnd, SayPhone))
<1> DEFINE end == [x \in Seq(Token) |-> [i \in DOMAIN x |-> PhoneEnd(x, i)]]
           say == [x \in Seq(Token) |-> [i \in DOMAIN x |-> SayPhone(x, i)]]
<1>1. \A x \in Seq(Token) : Sub(x, PhoneEnd, SayPhone) = MadeOf(end, say, x)
  BY Zenon DEF Sub, MadeOf
<1>2. \A x \in Seq(Token) : \A i \in 1 .. Len(x) :
        end[x][i] = PhoneEnd(x, i) /\ say[x][i] = SayPhone(x, i)
  BY DomainOfText, Zenon
<1> HIDE DEF end, say
<1>3. \A x \in Seq(Token) : \A i \in 1 .. Len(x) :
        end[x][i] # 0 => Claims(x, i, end[x][i], say[x][i])
  BY <1>2, PhoneClaims, Zenon
<1>4. \A x \in Seq(Token), u \in Seq(Token), s \in Nat : Within(x, u, s) =>
        \A i \in 1 .. Len(x) : \A l \in 1 .. Len(u) : l = s + i =>
          Alike(s, end[x][i], end[u][l], say[x][i], say[u][l])
  <2> SUFFICES ASSUME NEW x \in Seq(Token), NEW u \in Seq(Token), NEW s \in Nat, Within(x, u, s),
                      NEW i \in 1 .. Len(x), NEW l \in 1 .. Len(u), l = s + i
               PROVE  Alike(s, end[x][i], end[u][l], say[x][i], say[u][l])
    BY Zenon
  <2>1. Alike(s, PhoneEnd(x, i), PhoneEnd(u, l), SayPhone(x, i), SayPhone(u, l))
    BY PhoneAlike, Zenon
  <2> QED BY <1>2, <2>1, Zenon
<1>5. \A x \in Seq(Token) : \A i \in 1 .. Len(x) : Idle(x, i) => end[x][i] = 0
  BY <1>2, Zenon DEF Idle
<1>6. KeepsApart(end, say)
  BY <1>3, <1>4, <1>5, ApartWhen, Zenon
<1>7. SplitsAt(end, say, t, v)
  BY <1>6, PassBoth, Zenon
<1> QED BY <1>1, <1>7, BothIsText, Zenon DEF SplitsAt

LEMMA RangeBoth ==
  ASSUME NEW t \in Seq(Token), NEW v \in Seq(Token)
  PROVE  Sub(Both(t, v), RangeEnd, SayRange) = Both(Sub(t, RangeEnd, SayRange), Sub(v, RangeEnd, SayRange))
<1> DEFINE end == [x \in Seq(Token) |-> [i \in DOMAIN x |-> RangeEnd(x, i)]]
           say == [x \in Seq(Token) |-> [i \in DOMAIN x |-> SayRange(x, i)]]
<1>1. \A x \in Seq(Token) : Sub(x, RangeEnd, SayRange) = MadeOf(end, say, x)
  BY Zenon DEF Sub, MadeOf
<1>2. \A x \in Seq(Token) : \A i \in 1 .. Len(x) :
        end[x][i] = RangeEnd(x, i) /\ say[x][i] = SayRange(x, i)
  BY DomainOfText, Zenon
<1> HIDE DEF end, say
<1>3. \A x \in Seq(Token) : \A i \in 1 .. Len(x) :
        end[x][i] # 0 => Claims(x, i, end[x][i], say[x][i])
  BY <1>2, RangeClaims, Zenon
<1>4. \A x \in Seq(Token), u \in Seq(Token), s \in Nat : Within(x, u, s) =>
        \A i \in 1 .. Len(x) : \A l \in 1 .. Len(u) : l = s + i =>
          Alike(s, end[x][i], end[u][l], say[x][i], say[u][l])
  <2> SUFFICES ASSUME NEW x \in Seq(Token), NEW u \in Seq(Token), NEW s \in Nat, Within(x, u, s),
                      NEW i \in 1 .. Len(x), NEW l \in 1 .. Len(u), l = s + i
               PROVE  Alike(s, end[x][i], end[u][l], say[x][i], say[u][l])
    BY Zenon
  <2>1. Alike(s, RangeEnd(x, i), RangeEnd(u, l), SayRange(x, i), SayRange(u, l))
    BY RangeAlike, Zenon
  <2> QED BY <1>2, <2>1, Zenon
<1>5. \A x \in Seq(Token) : \A i \in 1 .. Len(x) : Idle(x, i) => end[x][i] = 0
  BY <1>2, Zenon DEF Idle
<1>6. KeepsApart(end, say)
  BY <1>3, <1>4, <1>5, ApartWhen, Zenon
<1>7. SplitsAt(end, say, t, v)
  BY <1>6, PassBoth, Zenon
<1> QED BY <1>1, <1>7, BothIsText, Zenon DEF SplitsAt

LEMMA OrdinalBoth ==
  ASSUME NEW t \in Seq(Token), NEW v \in Seq(Token)
  PROVE  Sub(Both(t, v), OrdinalEnd, SayOrdinal) = Both(Sub(t, OrdinalEnd, SayOrdinal), Sub(v, OrdinalEnd, SayOrdinal))
<1> DEFINE end == [x \in Seq(Token) |-> [i \in DOMAIN x |-> OrdinalEnd(x, i)]]
           say == [x \in Seq(Token) |-> [i \in DOMAIN x |-> SayOrdinal(x, i)]]
<1>1. \A x \in Seq(Token) : Sub(x, OrdinalEnd, SayOrdinal) = MadeOf(end, say, x)
  BY Zenon DEF Sub, MadeOf
<1>2. \A x \in Seq(Token) : \A i \in 1 .. Len(x) :
        end[x][i] = OrdinalEnd(x, i) /\ say[x][i] = SayOrdinal(x, i)
  BY DomainOfText, Zenon
<1> HIDE DEF end, say
<1>3. \A x \in Seq(Token) : \A i \in 1 .. Len(x) :
        end[x][i] # 0 => Claims(x, i, end[x][i], say[x][i])
  BY <1>2, OrdinalClaims, Zenon
<1>4. \A x \in Seq(Token), u \in Seq(Token), s \in Nat : Within(x, u, s) =>
        \A i \in 1 .. Len(x) : \A l \in 1 .. Len(u) : l = s + i =>
          Alike(s, end[x][i], end[u][l], say[x][i], say[u][l])
  <2> SUFFICES ASSUME NEW x \in Seq(Token), NEW u \in Seq(Token), NEW s \in Nat, Within(x, u, s),
                      NEW i \in 1 .. Len(x), NEW l \in 1 .. Len(u), l = s + i
               PROVE  Alike(s, end[x][i], end[u][l], say[x][i], say[u][l])
    BY Zenon
  <2>1. Alike(s, OrdinalEnd(x, i), OrdinalEnd(u, l), SayOrdinal(x, i), SayOrdinal(u, l))
    BY OrdinalAlike, Zenon
  <2> QED BY <1>2, <2>1, Zenon
<1>5. \A x \in Seq(Token) : \A i \in 1 .. Len(x) : Idle(x, i) => end[x][i] = 0
  BY <1>2, Zenon DEF Idle
<1>6. KeepsApart(end, say)
  BY <1>3, <1>4, <1>5, ApartWhen, Zenon
<1>7. SplitsAt(end, say, t, v)
  BY <1>6, PassBoth, Zenon
<1> QED BY <1>1, <1>7, BothIsText, Zenon DEF SplitsAt

LEMMA SymbolBoth ==
  ASSUME NEW t \in Seq(Token), NEW v \in Seq(Token)
  PROVE  Sub(Both(t, v), SymbolEnd, SaySymbol) = Both(Sub(t, SymbolEnd, SaySymbol), Sub(v, SymbolEnd, SaySymbol))
<1> DEFINE end == [x \in Seq(Token) |-> [i \in DOMAIN x |-> SymbolEnd(x, i)]]
           say == [x \in Seq(Token) |-> [i \in DOMAIN x |-> SaySymbol(x, i)]]
<1>1. \A x \in Seq(Token) : Sub(x, SymbolEnd, SaySymbol) = MadeOf(end, say, x)
  BY Zenon DEF Sub, MadeOf
<1>2. \A x \in Seq(Token) : \A i \in 1 .. Len(x) :
        end[x][i] = SymbolEnd(x, i) /\ say[x][i] = SaySymbol(x, i)
  BY DomainOfText, Zenon
<1> HIDE DEF end, say
<1>3. \A x \in Seq(Token) : \A i \in 1 .. Len(x) :
        end[x][i] # 0 => Claims(x, i, end[x][i], say[x][i])
  BY <1>2, SymbolClaims, Zenon
<1>4. \A x \in Seq(Token), u \in Seq(Token), s \in Nat : Within(x, u, s) =>
        \A i \in 1 .. Len(x) : \A l \in 1 .. Len(u) : l = s + i =>
          Alike(s, end[x][i], end[u][l], say[x][i], say[u][l])
  <2> SUFFICES ASSUME NEW x \in Seq(Token), NEW u \in Seq(Token), NEW s \in Nat, Within(x, u, s),
                      NEW i \in 1 .. Len(x), NEW l \in 1 .. Len(u), l = s + i
               PROVE  Alike(s, end[x][i], end[u][l], say[x][i], say[u][l])
    BY Zenon
  <2>1. Alike(s, SymbolEnd(x, i), SymbolEnd(u, l), SaySymbol(x, i), SaySymbol(u, l))
    BY SymbolAlike, Zenon
  <2> QED BY <1>2, <2>1, Zenon
<1>5. \A x \in Seq(Token) : \A i \in 1 .. Len(x) : Idle(x, i) => end[x][i] = 0
  BY <1>2, Zenon DEF Idle
<1>6. KeepsApart(end, say)
  BY <1>3, <1>4, <1>5, ApartWhen, Zenon
<1>7. SplitsAt(end, say, t, v)
  BY <1>6, PassBoth, Zenon
<1> QED BY <1>1, <1>7, BothIsText, Zenon DEF SplitsAt

LEMMA AbbreviationBoth ==
  ASSUME NEW t \in Seq(Token), NEW v \in Seq(Token)
  PROVE  Sub(Both(t, v), AbbreviationEnd, SayAbbreviation) = Both(Sub(t, AbbreviationEnd, SayAbbreviation), Sub(v, AbbreviationEnd, SayAbbreviation))
<1> DEFINE end == [x \in Seq(Token) |-> [i \in DOMAIN x |-> AbbreviationEnd(x, i)]]
           say == [x \in Seq(Token) |-> [i \in DOMAIN x |-> SayAbbreviation(x, i)]]
<1>1. \A x \in Seq(Token) : Sub(x, AbbreviationEnd, SayAbbreviation) = MadeOf(end, say, x)
  BY Zenon DEF Sub, MadeOf
<1>2. \A x \in Seq(Token) : \A i \in 1 .. Len(x) :
        end[x][i] = AbbreviationEnd(x, i) /\ say[x][i] = SayAbbreviation(x, i)
  BY DomainOfText, Zenon
<1> HIDE DEF end, say
<1>3. \A x \in Seq(Token) : \A i \in 1 .. Len(x) :
        end[x][i] # 0 => Claims(x, i, end[x][i], say[x][i])
  BY <1>2, AbbreviationClaims, Zenon
<1>4. \A x \in Seq(Token), u \in Seq(Token), s \in Nat : Within(x, u, s) =>
        \A i \in 1 .. Len(x) : \A l \in 1 .. Len(u) : l = s + i =>
          Alike(s, end[x][i], end[u][l], say[x][i], say[u][l])
  <2> SUFFICES ASSUME NEW x \in Seq(Token), NEW u \in Seq(Token), NEW s \in Nat, Within(x, u, s),
                      NEW i \in 1 .. Len(x), NEW l \in 1 .. Len(u), l = s + i
               PROVE  Alike(s, end[x][i], end[u][l], say[x][i], say[u][l])
    BY Zenon
  <2>1. Alike(s, AbbreviationEnd(x, i), AbbreviationEnd(u, l), SayAbbreviation(x, i), SayAbbreviation(u, l))
    BY AbbreviationAlike, Zenon
  <2> QED BY <1>2, <2>1, Zenon
<1>5. \A x \in Seq(Token) : \A i \in 1 .. Len(x) : Idle(x, i) => end[x][i] = 0
  BY <1>2, Zenon DEF Idle
<1>6. KeepsApart(end, say)
  BY <1>3, <1>4, <1>5, ApartWhen, Zenon
<1>7. SplitsAt(end, say, t, v)
  BY <1>6, PassBoth, Zenon
<1> QED BY <1>1, <1>7, BothIsText, Zenon DEF SplitsAt

LEMMA DecimalBoth ==
  ASSUME NEW t \in Seq(Token), NEW v \in Seq(Token)
  PROVE  Sub(Both(t, v), DecimalEnd, SayDecimal) = Both(Sub(t, DecimalEnd, SayDecimal), Sub(v, DecimalEnd, SayDecimal))
<1> DEFINE end == [x \in Seq(Token) |-> [i \in DOMAIN x |-> DecimalEnd(x, i)]]
           say == [x \in Seq(Token) |-> [i \in DOMAIN x |-> SayDecimal(x, i)]]
<1>1. \A x \in Seq(Token) : Sub(x, DecimalEnd, SayDecimal) = MadeOf(end, say, x)
  BY Zenon DEF Sub, MadeOf
<1>2. \A x \in Seq(Token) : \A i \in 1 .. Len(x) :
        end[x][i] = DecimalEnd(x, i) /\ say[x][i] = SayDecimal(x, i)
  BY DomainOfText, Zenon
<1> HIDE DEF end, say
<1>3. \A x \in Seq(Token) : \A i \in 1 .. Len(x) :
        end[x][i] # 0 => Claims(x, i, end[x][i], say[x][i])
  BY <1>2, DecimalClaims, Zenon
<1>4. \A x \in Seq(Token), u \in Seq(Token), s \in Nat : Within(x, u, s) =>
        \A i \in 1 .. Len(x) : \A l \in 1 .. Len(u) : l = s + i =>
          Alike(s, end[x][i], end[u][l], say[x][i], say[u][l])
  <2> SUFFICES ASSUME NEW x \in Seq(Token), NEW u \in Seq(Token), NEW s \in Nat, Within(x, u, s),
                      NEW i \in 1 .. Len(x), NEW l \in 1 .. Len(u), l = s + i
               PROVE  Alike(s, end[x][i], end[u][l], say[x][i], say[u][l])
    BY Zenon
  <2>1. Alike(s, DecimalEnd(x, i), DecimalEnd(u, l), SayDecimal(x, i), SayDecimal(u, l))
    BY DecimalAlike, Zenon
  <2> QED BY <1>2, <2>1, Zenon
<1>5. \A x \in Seq(Token) : \A i \in 1 .. Len(x) : Idle(x, i) => end[x][i] = 0
  BY <1>2, Zenon DEF Idle
<1>6. KeepsApart(end, say)
  BY <1>3, <1>4, <1>5, ApartWhen, Zenon
<1>7. SplitsAt(end, say, t, v)
  BY <1>6, PassBoth, Zenon
<1> QED BY <1>1, <1>7, BothIsText, Zenon DEF SplitsAt

LEMMA LongRunBoth ==
  ASSUME NEW t \in Seq(Token), NEW v \in Seq(Token)
  PROVE  Sub(Both(t, v), LongRunEnd, SayLongRun) = Both(Sub(t, LongRunEnd, SayLongRun), Sub(v, LongRunEnd, SayLongRun))
<1> DEFINE end == [x \in Seq(Token) |-> [i \in DOMAIN x |-> LongRunEnd(x, i)]]
           say == [x \in Seq(Token) |-> [i \in DOMAIN x |-> SayLongRun(x, i)]]
<1>1. \A x \in Seq(Token) : Sub(x, LongRunEnd, SayLongRun) = MadeOf(end, say, x)
  BY Zenon DEF Sub, MadeOf
<1>2. \A x \in Seq(Token) : \A i \in 1 .. Len(x) :
        end[x][i] = LongRunEnd(x, i) /\ say[x][i] = SayLongRun(x, i)
  BY DomainOfText, Zenon
<1> HIDE DEF end, say
<1>3. \A x \in Seq(Token) : \A i \in 1 .. Len(x) :
        end[x][i] # 0 => Claims(x, i, end[x][i], say[x][i])
  BY <1>2, LongRunClaims, Zenon
<1>4. \A x \in Seq(Token), u \in Seq(Token), s \in Nat : Within(x, u, s) =>
        \A i \in 1 .. Len(x) : \A l \in 1 .. Len(u) : l = s + i =>
          Alike(s, end[x][i], end[u][l], say[x][i], say[u][l])
  <2> SUFFICES ASSUME NEW x \in Seq(Token), NEW u \in Seq(Token), NEW s \in Nat, Within(x, u, s),
                      NEW i \in 1 .. Len(x), NEW l \in 1 .. Len(u), l = s + i
               PROVE  Alike(s, end[x][i], end[u][l], say[x][i], say[u][l])
    BY Zenon
  <2>1. Alike(s, LongRunEnd(x, i), LongRunEnd(u, l), SayLongRun(x, i), SayLongRun(u, l))
    BY LongRunAlike, Zenon
  <2> QED BY <1>2, <2>1, Zenon
<1>5. \A x \in Seq(Token) : \A i \in 1 .. Len(x) : Idle(x, i) => end[x][i] = 0
  BY <1>2, Zenon DEF Idle
<1>6. KeepsApart(end, say)
  BY <1>3, <1>4, <1>5, ApartWhen, Zenon
<1>7. SplitsAt(end, say, t, v)
  BY <1>6, PassBoth, Zenon
<1> QED BY <1>1, <1>7, BothIsText, Zenon DEF SplitsAt

LEMMA IntBoth ==
  ASSUME NEW t \in Seq(Token), NEW v \in Seq(Token)
  PROVE  Sub(Both(t, v), IntEnd, SayInt) = Both(Sub(t, IntEnd, SayInt), Sub(v, IntEnd, SayInt))
<1> DEFINE end == [x \in Seq(Token) |-> [i \in DOMAIN x |-> IntEnd(x, i)]]
           say == [x \in Seq(Token) |-> [i \in DOMAIN x |-> SayInt(x, i)]]
<1>1. \A x \in Seq(Token) : Sub(x, IntEnd, SayInt) = MadeOf(end, say, x)
  BY Zenon DEF Sub, MadeOf
<1>2. \A x \in Seq(Token) : \A i \in 1 .. Len(x) :
        end[x][i] = IntEnd(x, i) /\ say[x][i] = SayInt(x, i)
  BY DomainOfText, Zenon
<1> HIDE DEF end, say
<1>3. \A x \in Seq(Token) : \A i \in 1 .. Len(x) :
        end[x][i] # 0 => Claims(x, i, end[x][i], say[x][i])
  BY <1>2, IntClaims, SeqCleanIsSeqToken, Zenon DEF Claims
<1>4. \A x \in Seq(Token), u \in Seq(Token), s \in Nat : Within(x, u, s) =>
        \A i \in 1 .. Len(x) : \A l \in 1 .. Len(u) : l = s + i =>
          Alike(s, end[x][i], end[u][l], say[x][i], say[u][l])
  <2> SUFFICES ASSUME NEW x \in Seq(Token), NEW u \in Seq(Token), NEW s \in Nat, Within(x, u, s),
                      NEW i \in 1 .. Len(x), NEW l \in 1 .. Len(u), l = s + i
               PROVE  Alike(s, end[x][i], end[u][l], say[x][i], say[u][l])
    BY Zenon
  <2>1. Alike(s, IntEnd(x, i), IntEnd(u, l), SayInt(x, i), SayInt(u, l))
    BY IntAlike, Zenon
  <2> QED BY <1>2, <2>1, Zenon
<1>5. \A x \in Seq(Token) : \A i \in 1 .. Len(x) : Idle(x, i) => end[x][i] = 0
  BY <1>2, Zenon DEF Idle
<1>6. KeepsApart(end, say)
  BY <1>3, <1>4, <1>5, ApartWhen, Zenon
<1>7. SplitsAt(end, say, t, v)
  BY <1>6, PassBoth, Zenon
<1> QED BY <1>1, <1>7, BothIsText, Zenon DEF SplitsAt
(* Every rule keeps apart what an "and" keeps apart.                       *)
LEMMA ExpandedBoth ==
  ASSUME NEW t \in Seq(Token), NEW v \in Seq(Token), NEW r \in 1 .. Rules
  PROVE  Expanded(Both(t, v), r) = Both(Expanded(t, r), Expanded(v, r))
<1>1. ExpandTimes(Both(t, v)) = Both(ExpandTimes(t), ExpandTimes(v))
  <2> DEFINE one(x) == Sub(x, TimeMeridiemEnd, SayTimeMeridiem)
             two(x) == Sub(x, TimeBareEnd, SayTimeBare)
             three(x) == Sub(x, HourEnd, SayHour)
  <2>1. \A x \in Seq(Token) : one(x) \in Seq(Token) /\ two(x) \in Seq(Token)
    BY TimeMeridiemClaims, TimeBareClaims, PassType, DomainOfText, Zenon DEF Sub
  <2>2. \A x, y \in Seq(Token) :
          /\ one(Both(x, y)) = Both(one(x), one(y))
          /\ two(Both(x, y)) = Both(two(x), two(y))
          /\ three(Both(x, y)) = Both(three(x), three(y))
    BY TimeMeridiemBoth, TimeBareBoth, HourBoth, Zenon
  <2>3. \A x : ExpandTimes(x) = three(two(one(x)))
    BY Zenon DEF ExpandTimes
  <2> HIDE DEF one, two, three
  <2>4. one(Both(t, v)) = Both(one(t), one(v))
    BY <2>2, Zenon
  <2>5. two(Both(one(t), one(v))) = Both(two(one(t)), two(one(v)))
    BY <2>1, <2>2, Zenon
  <2>6. three(Both(two(one(t)), two(one(v)))) = Both(three(two(one(t))), three(two(one(v))))
    <3>1. two(one(t)) \in Seq(Token) /\ two(one(v)) \in Seq(Token)
      BY <2>1, Zenon
    <3> QED BY <2>2, <3>1, Zenon
  <2> QED BY <2>3, <2>4, <2>5, <2>6, Zenon
<1>2. Sub(Sub(Both(t, v), SymbolEnd, SaySymbol), AbbreviationEnd, SayAbbreviation)
        = Both(Sub(Sub(t, SymbolEnd, SaySymbol), AbbreviationEnd, SayAbbreviation),
               Sub(Sub(v, SymbolEnd, SaySymbol), AbbreviationEnd, SayAbbreviation))
  <2> DEFINE one(x) == Sub(x, SymbolEnd, SaySymbol)
             two(x) == Sub(x, AbbreviationEnd, SayAbbreviation)
  <2>1. \A x \in Seq(Token) : one(x) \in Seq(Token)
    BY SymbolClaims, PassType, DomainOfText, Zenon DEF Sub
  <2>2. \A x, y \in Seq(Token) :
          /\ one(Both(x, y)) = Both(one(x), one(y))
          /\ two(Both(x, y)) = Both(two(x), two(y))
    BY SymbolBoth, AbbreviationBoth, Zenon
  <2>3. two(one(Both(t, v))) = Both(two(one(t)), two(one(v)))
    <3> HIDE DEF one, two
    <3>1. one(Both(t, v)) = Both(one(t), one(v))
      BY <2>2, Zenon
    <3>2. two(Both(one(t), one(v))) = Both(two(one(t)), two(one(v)))
      BY <2>1, <2>2, Zenon
    <3> QED BY <3>1, <3>2, Zenon
  <2> QED BY <2>3
<1>3. ExpandNumbers(Both(t, v)) = Both(ExpandNumbers(t), ExpandNumbers(v))
  <2> DEFINE one(x) == Sub(x, DecimalEnd, SayDecimal)
             two(x) == Sub(x, LongRunEnd, SayLongRun)
             three(x) == Sub(x, IntEnd, SayInt)
  <2>1. \A x \in Seq(Token) : one(x) \in Seq(Token) /\ two(x) \in Seq(Token)
    BY DecimalClaims, LongRunClaims, PassType, DomainOfText, Zenon DEF Sub
  <2>2. \A x, y \in Seq(Token) :
          /\ one(Both(x, y)) = Both(one(x), one(y))
          /\ two(Both(x, y)) = Both(two(x), two(y))
          /\ three(Both(x, y)) = Both(three(x), three(y))
    BY DecimalBoth, LongRunBoth, IntBoth, Zenon
  <2>3. \A x : ExpandNumbers(x) = three(two(one(x)))
    BY Zenon DEF ExpandNumbers
  <2> HIDE DEF one, two, three
  <2>4. one(Both(t, v)) = Both(one(t), one(v))
    BY <2>2, Zenon
  <2>5. two(Both(one(t), one(v))) = Both(two(one(t)), two(one(v)))
    BY <2>1, <2>2, Zenon
  <2>6. three(Both(two(one(t)), two(one(v)))) = Both(three(two(one(t))), three(two(one(v))))
    <3>1. two(one(t)) \in Seq(Token) /\ two(one(v)) \in Seq(Token)
      BY <2>1, Zenon
    <3> QED BY <2>2, <3>1, Zenon
  <2> QED BY <2>3, <2>4, <2>5, <2>6, Zenon
<1>4. /\ \/ r = 1 \/ r = 2 \/ r = 3 \/ r = 4 \/ r = 5
         \/ r = 6 \/ r = 7 \/ r = 8 \/ r = 9 \/ r = 10
  BY SMT DEF Rules
<1>5. CASE r = 1
  BY <1>1, <1>5, ExpandedIs, Zenon
<1>6. CASE r = 2
  <2>1. \A x : Expanded(x, r) = Sub(x, RoomEnd, SayRoom)
    BY <1>6, ExpandedIs, Zenon
  <2> QED BY <2>1, RoomBoth, Zenon
<1>7. CASE r = 3
  <2>1. \A x : Expanded(x, r) = Sub(x, BusEnd, SayBus)
    BY <1>7, ExpandedIs, Zenon
  <2> QED BY <2>1, BusBoth, Zenon
<1>8. CASE r = 4
  <2>1. \A x : Expanded(x, r) = Sub(x, LockerEnd, SayLocker)
    BY <1>8, ExpandedIs, Zenon
  <2> QED BY <2>1, LockerBoth, Zenon
<1>9. CASE r = 5
  <2>1. \A x : Expanded(x, r) = Sub(x, ExtensionEnd, SayExtension)
    BY <1>9, ExpandedIs, Zenon
  <2> QED BY <2>1, ExtensionBoth, Zenon
<1>10. CASE r = 6
  <2>1. \A x : Expanded(x, r) = Sub(x, PhoneEnd, SayPhone)
    BY <1>10, ExpandedIs, Zenon
  <2> QED BY <2>1, PhoneBoth, Zenon
<1>11. CASE r = 7
  <2>1. \A x : Expanded(x, r) = Sub(x, RangeEnd, SayRange)
    BY <1>11, ExpandedIs, Zenon
  <2> QED BY <2>1, RangeBoth, Zenon
<1>12. CASE r = 8
  <2>1. \A x : Expanded(x, r) = Sub(x, OrdinalEnd, SayOrdinal)
    BY <1>12, ExpandedIs, Zenon
  <2> QED BY <2>1, OrdinalBoth, Zenon
<1>13. CASE r = 9
  BY <1>2, <1>13, ExpandedIs, Zenon
<1>14. CASE r = 10
  BY <1>3, <1>14, ExpandedIs, Zenon
<1> QED BY <1>4, <1>5, <1>6, <1>7, <1>8, <1>9, <1>10, <1>11, <1>12, <1>13, <1>14, Zenon
LEMMA ExpandedNothing ==
  ASSUME NEW r \in 1 .. Rules
  PROVE  Expanded(<<>>, r) = <<>>
<1>1. <<>> \in Seq(Token) /\ Len(<<>>) = 0
  BY EmptySeq, Zenon
<1>2. \A i \in 1 .. 0 : FALSE
  BY SMT
<1>3. Uses(<<>>, Vocabulary \ Keys(r)) /\ Figureless(<<>>)
  BY <1>1, <1>2, Zenon DEF Uses, Figureless
<1>4. r \in 1 .. 9 \/ r # 9
  OBVIOUS
<1> QED BY <1>1, <1>3, <1>4, RulesLeaveAlone, Zenon DEF Nothing
----------------------------------------------------------------------------
(* A text of several items, and the rules one after the other.             *)

LEMMA JoinedExpanded ==
  ASSUME NEW parts \in Seq(Seq(Token)), NEW made \in Seq(Seq(Token)), Len(made) = Len(parts),
         NEW r \in 1 .. Rules, \A k \in 1 .. Len(parts) : made[k] = Expanded(parts[k], r)
  PROVE  Expanded(Joined(parts, And), r) = Joined(made, And)
<1> DEFINE n == Len(parts)
           T == Seq(Token)
<1>1. n \in Nat /\ \A k \in 1 .. n : parts[k] \in T
  BY ElementOfSeq, LenProperties, Zenon
<1>2. And \in T
  BY BothParts, EmptySeq, Zenon
<1>3. PICK f \in [0 .. n -> T] : Joined(parts, And) = f[n] /\ Joining(f, parts, And)
  BY <1>2, JoinedFunction, Zenon
<1>4. PICK g \in [0 .. n -> T] : Joined(made, And) = g[n] /\ Joining(g, made, And)
  BY <1>2, JoinedFunction, Zenon
<1>5. /\ f[0] = <<>> /\ \A k \in 1 .. n : f[k] = IF k = 1 THEN parts[1] ELSE f[k - 1] \o And \o parts[k]
      /\ g[0] = <<>> /\ \A k \in 1 .. n : g[k] = IF k = 1 THEN made[1] ELSE g[k - 1] \o And \o made[k]
  BY <1>3, <1>4, Zenon DEF Joining
<1>6. \A k \in 0 .. n : f[k] \in T
  BY <1>3, Zenon
<1> HIDE DEF n, T
<1>7. \A k \in 1 .. n : made[k] = Expanded(parts[k], r)
  BY Zenon DEF n
<1> DEFINE S == {k \in Nat : k <= n => Expanded(f[k], r) = g[k]}
<1>8. 0 \in S
  <2>1. Expanded(f[0], r) = g[0]
    BY <1>5, ExpandedNothing, Zenon
  <2> QED BY <2>1
<1>9. ASSUME NEW k \in Nat, k \in S PROVE k + 1 \in S
  <2> SUFFICES ASSUME k + 1 <= n PROVE Expanded(f[k + 1], r) = g[k + 1]
    OBVIOUS
  <2> DEFINE l == k + 1
  <2>1. /\ k <= n /\ l \in 1 .. n /\ l - 1 = k /\ k \in 0 .. n /\ k \in 0 .. n
    BY <1>1, SMT
  <2>2. Expanded(f[k], r) = g[k]
    BY <1>9, <2>1, Zenon
  <2> HIDE DEF l
  <2>3. CASE l = 1
    <3>1. f[l] = parts[l] /\ g[l] = made[l]
      BY <1>5, <2>1, <2>3
    <3> QED BY <1>7, <2>1, <3>1, Zenon DEF l
  <2>4. CASE l # 1
    <3>1. f[l] = Both(f[k], parts[l]) /\ g[l] = Both(g[k], made[l])
      <4>1. f[l] = f[l - 1] \o And \o parts[l] /\ g[l] = g[l - 1] \o And \o made[l]
        BY <1>5, <2>1, <2>4, Zenon
      <4> QED BY <2>1, <4>1 DEF Both
    <3>2. f[k] \in Seq(Token) /\ parts[l] \in Seq(Token)
      BY <1>1, <1>6, <2>1, Zenon DEF T
    <3>3. Expanded(Both(f[k], parts[l]), r) = Both(Expanded(f[k], r), Expanded(parts[l], r))
      BY <3>2, ExpandedBoth, Zenon
    <3>4. made[l] = Expanded(parts[l], r)
      BY <1>7, <2>1, Zenon
    <3>5. Expanded(f[l], r) = g[l]
      BY <2>2, <3>1, <3>3, <3>4, Zenon
    <3> QED BY <3>5 DEF l
  <2> QED BY <2>3, <2>4
<1> HIDE DEF S
<1>10. Nat \subseteq S
  BY <1>8, <1>9, SetInduction
<1>11. Expanded(f[n], r) = g[n]
  <2>1. n <= n
    BY <1>1, SMT
  <2> QED BY <1>1, <1>10, <2>1, Zenon DEF S
<1> QED BY <1>3, <1>4, <1>11, Zenon DEF n
LEMMA AndIsHeard == Heard(And) = <<W("and").w>> /\ W("and").w \in Vocabulary /\ W("and").w = "and"
<1> DEFINE x == Space
           y == W("and")
<1>1. x \in Token /\ y \in Token /\ x = Space
  BY VocabularyHas, WordIsClean, CleanIsToken, Zenon DEF Space
<1>2. And = <<x, y, x>> /\ y.w = "and" /\ x.w = " "
  BY TokensBetween, Zenon DEF And
<1>3. y # Space
  BY <1>2, Zenon
<1> HIDE DEF x, y
<1>4. y.w \in Vocabulary
  BY <1>1, SMT DEF Token
<1>5. /\ <<x>> \in Seq(Token) /\ <<y>> \in Seq(Token) /\ <<x, y>> \in Seq(Token)
      /\ <<y.w>> \in Seq(Vocabulary) /\ <<>> \in Seq(Vocabulary)
  <2> HIDE DEF Token, Vocabulary
  <2> QED BY <1>1, <1>4, SMT
<1>6. Heard(<<x>>) = <<>> /\ Heard(<<y>>) = <<y.w>>
  BY <1>1, <1>3, HeardOne, Zenon
<1>7. <<x>> \o <<y>> = <<x, y>> /\ <<x, y>> \o <<x>> = <<x, y, x>>
  BY <1>1, ThreeFirst, Zenon
<1>8. Heard(<<x, y>>) = <<>> \o <<y.w>>
  BY <1>5, <1>6, <1>7, HeardBoth, Zenon
<1>9. Heard(<<x, y, x>>) = (<<>> \o <<y.w>>) \o <<>>
  BY <1>5, <1>6, <1>7, <1>8, HeardBoth, Zenon
<1>10. <<>> \o <<y.w>> = <<y.w>> /\ <<y.w>> \o <<>> = <<y.w>>
  BY <1>5, ConcatEmptySeq, Zenon
<1> QED BY <1>2, <1>4, <1>9, <1>10 DEF x, y

LEMMA JoinedHeard ==
  ASSUME NEW parts \in Seq(Seq(Token)), NEW said \in Seq(Seq(Vocabulary)), Len(said) = Len(parts),
         \A k \in 1 .. Len(parts) : said[k] = Heard(parts[k])
  PROVE  Heard(Joined(parts, And)) = Joined(said, <<"and">>)
<1> DEFINE n == Len(parts)
           T == Seq(Token)
           glue == <<W("and").w>>
<1>1. n \in Nat /\ \A k \in 1 .. n : parts[k] \in T
  BY ElementOfSeq, LenProperties, Zenon
<1>2. And \in T
  BY BothParts, EmptySeq, Zenon
<1>3. /\ glue \in Seq(Vocabulary) /\ Heard(And) = glue /\ glue = <<"and">>
  <2>1. Heard(And) = glue /\ W("and").w \in Vocabulary /\ W("and").w = "and"
    BY AndIsHeard, Zenon
  <2>2. glue = <<"and">>
    BY <2>1, Zenon
  <2>3. glue \in Seq(Vocabulary)
    <3> DEFINE w == W("and").w
    <3>1. w \in Vocabulary
      BY <2>1
    <3> HIDE DEF w, Vocabulary
    <3>2. <<w>> \in Seq(Vocabulary)
      BY <3>1, SMT
    <3> QED BY <3>2 DEF w
  <2> QED BY <2>1, <2>2, <2>3, Zenon
<1> HIDE DEF glue
<1>4. PICK f \in [0 .. n -> T] : Joined(parts, And) = f[n] /\ Joining(f, parts, And)
  BY <1>2, JoinedFunction, Zenon
<1>5. PICK g \in [0 .. n -> Seq(Vocabulary)] : Joined(said, glue) = g[n] /\ Joining(g, said, glue)
  BY <1>3, JoinedFunction, Zenon
<1>6. /\ f[0] = <<>> /\ \A k \in 1 .. n : f[k] = IF k = 1 THEN parts[1] ELSE f[k - 1] \o And \o parts[k]
      /\ g[0] = <<>> /\ \A k \in 1 .. n : g[k] = IF k = 1 THEN said[1] ELSE g[k - 1] \o glue \o said[k]
  BY <1>4, <1>5, Zenon DEF Joining
<1>7. \A k \in 0 .. n : f[k] \in T
  BY <1>4, Zenon
<1> HIDE DEF n, T
<1>8. \A k \in 1 .. n : said[k] = Heard(parts[k])
  BY Zenon DEF n
<1> DEFINE S == {k \in Nat : k <= n => Heard(f[k]) = g[k]}
<1>9. 0 \in S
  <2>1. Heard(f[0]) = g[0]
    BY <1>6, HeardNone, Zenon
  <2> QED BY <2>1
<1>10. ASSUME NEW k \in Nat, k \in S PROVE k + 1 \in S
  <2> SUFFICES ASSUME k + 1 <= n PROVE Heard(f[k + 1]) = g[k + 1]
    OBVIOUS
  <2> DEFINE l == k + 1
  <2>1. /\ k <= n /\ l \in 1 .. n /\ l - 1 = k /\ k \in 0 .. n
    BY <1>1, SMT
  <2>2. Heard(f[k]) = g[k]
    BY <1>10, <2>1, Zenon
  <2> HIDE DEF l
  <2>3. CASE l = 1
    <3>1. f[l] = parts[l] /\ g[l] = said[l]
      BY <1>6, <2>1, <2>3
    <3> QED BY <1>8, <2>1, <3>1, Zenon DEF l
  <2>4. CASE l # 1
    <3>1. f[l] = f[k] \o And \o parts[l] /\ g[l] = g[k] \o glue \o said[l]
      <4>1. f[l] = f[l - 1] \o And \o parts[l] /\ g[l] = g[l - 1] \o glue \o said[l]
        BY <1>6, <2>1, <2>4, Zenon
      <4> QED BY <2>1, <4>1
    <3>2. f[k] \in Seq(Token) /\ parts[l] \in Seq(Token) /\ And \in Seq(Token)
      BY <1>1, <1>2, <1>7, <2>1, Zenon DEF T
    <3>3. f[k] \o And \in Seq(Token) /\ Heard(f[k] \o And) = g[k] \o glue
      <4>1. f[k] \o And \in Seq(Token)
        BY <3>2, ConcatProperties, Zenon
      <4>2. Heard(f[k] \o And) = Heard(f[k]) \o Heard(And)
        BY <3>2, HeardBoth, Zenon
      <4> QED BY <1>3, <2>2, <4>1, <4>2, Zenon
    <3>4. Heard((f[k] \o And) \o parts[l]) = Heard(f[k] \o And) \o Heard(parts[l])
      BY <3>2, <3>3, HeardBoth, Zenon
    <3>5. Heard(f[l]) = g[l]
      BY <1>8, <2>1, <3>1, <3>3, <3>4, Zenon
    <3> QED BY <3>5 DEF l
  <2> QED BY <2>3, <2>4
<1> HIDE DEF S
<1>11. Nat \subseteq S
  BY <1>9, <1>10, SetInduction
<1>12. Heard(f[n]) = g[n]
  <2>1. n <= n
    BY <1>1, SMT
  <2> QED BY <1>1, <1>11, <2>1, Zenon DEF S
<1> QED BY <1>3, <1>4, <1>5, <1>12, Zenon DEF n

(* What the first rules make of a text; all of them normalise it.          *)
MadeBy(t, rules) ==
  LET upto[k \in 0 .. Rules] == IF k = 0 THEN t ELSE Expanded(upto[k - 1], k)
  IN upto[rules]

LEMMA RuleByRule ==
  ASSUME NEW t \in Seq(Token)
  PROVE  /\ MadeBy(t, 0) = t /\ MadeBy(t, Rules) = Normalized(t)
         /\ \A r \in 1 .. Rules : MadeBy(t, r) = Expanded(MadeBy(t, r - 1), r)
         /\ \A r \in 0 .. Rules : MadeBy(t, r) \in Seq(Token)
<1> DEFINE T == Seq(Token)
           Body(f) == [k \in 0 .. Rules |-> IF k = 0 THEN t ELSE Expanded(f[k - 1], k)]
           up == CHOOSE f : f = Body(f)
           step == [k \in 1 .. Rules |-> [v \in T |-> Expanded(v, k)]]
<1>1. /\ Rules \in Nat /\ 0 \in 0 .. Rules /\ Rules \in 0 .. Rules
      /\ \A k \in 0 .. Rules : k = 0 \/ (k \in 1 .. Rules /\ k # 0)
      /\ \A k \in 1 .. Rules : k \in 0 .. Rules /\ k # 0 /\ k - 1 \in 0 .. Rules
  BY SMT DEF Rules
<1>2. step \in [1 .. Rules -> [T -> T]]
  BY ExpandedType, Zenon
<1>3. \A k \in 1 .. Rules, v \in T : step[k][v] = Expanded(v, k)
  BY Zenon
<1> HIDE DEF step
<1>4. \E f : f = Body(f)
  <2>1. PICK f \in [0 .. Rules -> T] : Stepped(f, t, Rules, step)
    BY <1>1, <1>2, StepByStep, Zenon
  <2>2. \A k \in 1 .. Rules : f[k] = Expanded(f[k - 1], k)
    BY <1>1, <1>3, <2>1, Zenon DEF Stepped
  <2>3. f[0] = t /\ f = [k \in 0 .. Rules |-> f[k]]
    BY <2>1, Zenon DEF Stepped
  <2>4. \A k \in 0 .. Rules : f[k] = IF k = 0 THEN t ELSE Expanded(f[k - 1], k)
    BY <1>1, <2>2, <2>3, Zenon
  <2>5. f = Body(f)
    BY <2>3, <2>4, Zenon
  <2> QED BY <2>5, Zenon
<1>5. up = Body(up)
  BY <1>4, Zenon
<1>6. (\A r : MadeBy(t, r) = up[r]) /\ Normalized(t) = up[Rules]
  BY Zenon DEF MadeBy, Normalized
<1> HIDE DEF up
<1>7. up[0] = t /\ \A k \in 1 .. Rules : up[k] = Expanded(up[k - 1], k)
  BY <1>1, <1>5, Zenon
<1>8. \A k \in 1 .. Rules : up[k - 1] \in T => up[k] \in T
  BY <1>7, ExpandedType, Zenon
<1>9. \A k \in 0 .. Rules : up[k] \in T
  <2>1. up[0] \in T
    BY <1>7
  <2> QED BY <1>1, <1>8, <2>1, StaysIn, Zenon
<1> QED BY <1>6, <1>7, <1>9, Zenon
(* What the rules have made of each item so far, with an "and" between     *)
(* them: the rules work on every item as if it were typed alone.           *)
Alone(rules) == [k \in 1 .. Len(typed) |-> MadeBy(Typed(typed[k]), rules)]
SideBySide ==
  /\ typed \in Sentences /\ rule \in 0 .. Rules
  /\ text = Joined(Alone(rule), And)

LEMMA ItemsAreTexts ==
  ASSUME typed \in Sentences
  PROVE  /\ Len(typed) \in Nat /\ DOMAIN typed = 1 .. Len(typed)
         /\ \A k \in 1 .. Len(typed) : Typed(typed[k]) \in Seq(Token)
         /\ \A r \in 0 .. Rules : Alone(r) \in Seq(Seq(Token)) /\ Len(Alone(r)) = Len(typed)
         /\ \A r : \A k \in 1 .. Len(typed) : Alone(r)[k] = MadeBy(Typed(typed[k]), r)
<1>1. typed \in Seq(Item) /\ \A k \in DOMAIN typed : typed[k].kind = "area" => Len(typed[k].b) = 7
  BY SentencesAssumption, Zenon
<1>2. DOMAIN typed = 1 .. Len(typed) /\ Len(typed) \in Nat
  BY <1>1, LenProperties, Zenon
<1>3. \A k \in 1 .. Len(typed) : Typed(typed[k]) \in Seq(Token)
  <2>1. \A k \in 1 .. Len(typed) : typed[k] \in Item
    BY <1>1, ElementOfSeq, Zenon
  <2> QED BY <1>1, <1>2, <2>1, TypedType, Zenon
<1>4. \A r : \A k \in 1 .. Len(typed) : Alone(r)[k] = MadeBy(Typed(typed[k]), r)
  BY Zenon DEF Alone
<1>5. ASSUME NEW r \in 0 .. Rules PROVE Alone(r) \in Seq(Seq(Token)) /\ Len(Alone(r)) = Len(typed)
  <2> DEFINE n == Len(typed)
             a == Alone(r)
  <2>1. a = [k \in 1 .. n |-> a[k]] /\ \A k \in 1 .. n : a[k] \in Seq(Token)
    <3>1. a = [k \in 1 .. n |-> a[k]]
      BY Zenon DEF Alone
    <3>2. \A k \in 1 .. n : a[k] \in Seq(Token)
      BY <1>3, <1>4, RuleByRule, Zenon
    <3> QED BY <3>1, <3>2
  <2>2. n \in Nat
    BY <1>2
  <2> HIDE DEF n, a, Token
  <2>3. a \in Seq(Seq(Token)) /\ Len(a) = n
    BY <2>1, <2>2, SMT
  <2> QED BY <2>3 DEF n, a
<1> QED BY <1>2, <1>3, <1>4, <1>5

(* Whatever is typed, in whatever order: an item sounds the same whatever  *)
(* else is in the sentence, no rule of _expand_chunk takes a part of its   *)
(* neighbour or changes what an earlier rule has said.                     *)
THEOREM ItemsDoNotMixAlways == Spec => []ItemsDoNotMix
<1>1. Init => SideBySide
  <2> SUFFICES ASSUME Init PROVE SideBySide
    OBVIOUS
  <2>1. typed \in Sentences /\ rule = 0 /\ rule \in 0 .. Rules
    BY SMT DEF Init, Rules
  <2>2. \A k \in 1 .. Len(typed) : MadeBy(Typed(typed[k]), 0) = Typed(typed[k])
    BY <2>1, ItemsAreTexts, RuleByRule, Zenon
  <2>3. [k \in DOMAIN typed |-> Typed(typed[k])] = Alone(0)
    BY <2>1, <2>2, ItemsAreTexts, Zenon DEF Alone
  <2> QED BY <2>1, <2>3, Zenon DEF Init, SideBySide
<1>2. SideBySide /\ [Next]_vars => SideBySide'
  <2> SUFFICES ASSUME SideBySide, [Next]_vars PROVE SideBySide'
    OBVIOUS
  <2>1. CASE Apply
    <3>1. /\ rule' = rule + 1 /\ text' = Expanded(text, rule + 1) /\ typed' = typed
          /\ rule \in 0 .. Rules /\ rule + 1 \in 1 .. Rules /\ rule + 1 \in 0 .. Rules
          /\ (rule + 1) - 1 = rule
      BY <2>1, SMT DEF Apply, SideBySide, Rules
    <3> DEFINE n == rule + 1
    <3>2. /\ Alone(rule) \in Seq(Seq(Token)) /\ Len(Alone(rule)) = Len(typed)
          /\ Alone(n) \in Seq(Seq(Token)) /\ Len(Alone(n)) = Len(typed)
      BY <3>1, ItemsAreTexts, Zenon DEF SideBySide
    <3>3. \A k \in 1 .. Len(typed) : Alone(n)[k] = Expanded(Alone(rule)[k], n)
      <4>1. \A k \in 1 .. Len(typed) :
              MadeBy(Typed(typed[k]), n) = Expanded(MadeBy(Typed(typed[k]), n - 1), n)
        BY <3>1, ItemsAreTexts, RuleByRule, Zenon DEF SideBySide
      <4>2. \A k \in 1 .. Len(typed) :
              /\ Alone(n)[k] = MadeBy(Typed(typed[k]), n)
              /\ Alone(rule)[k] = MadeBy(Typed(typed[k]), rule)
        BY ItemsAreTexts, Zenon DEF SideBySide
      <4>3. n - 1 = rule
        BY <3>1
      <4> QED BY <4>1, <4>2, <4>3, Zenon
    <3>4. n \in 1 .. Rules /\ rule' = n /\ text' = Expanded(text, n) /\ rule' \in 0 .. Rules
      BY <3>1
    <3> HIDE DEF n
    <3>5. Expanded(Joined(Alone(rule), And), n) = Joined(Alone(n), And)
      BY <3>2, <3>3, <3>4, JoinedExpanded, Zenon
    <3>6. Alone(rule)' = Alone(n)
      BY <3>1, <3>4, Zenon DEF Alone
    <3>7. text' = Joined(Alone(rule)', And)
      BY <3>4, <3>5, <3>6, Zenon DEF SideBySide
    <3> QED BY <3>1, <3>4, <3>7, Zenon DEF SideBySide
  <2>2. CASE UNCHANGED vars
    BY <2>2, Zenon DEF vars, SideBySide, Alone
  <2> QED BY <2>1, <2>2 DEF Next
<1>3. SideBySide => ItemsDoNotMix
  <2> SUFFICES ASSUME SideBySide, Finished
               PROVE  Heard(text) = Joined([k \in DOMAIN typed |-> Heard(Normalized(Typed(typed[k])))],
                                           <<"and">>)
    BY Zenon DEF ItemsDoNotMix
  <2> DEFINE said == [k \in DOMAIN typed |-> Heard(Normalized(Typed(typed[k])))]
  <2>1. /\ typed \in Sentences /\ Rules \in 0 .. Rules /\ text = Joined(Alone(Rules), And)
    BY SMT DEF SideBySide, Finished, Rules
  <2>2. /\ Alone(Rules) \in Seq(Seq(Token)) /\ Len(Alone(Rules)) = Len(typed)
        /\ DOMAIN typed = 1 .. Len(typed) /\ Len(typed) \in Nat
    BY <2>1, ItemsAreTexts, Zenon
  <2>3. \A k \in 1 .. Len(typed) : said[k] = Heard(Alone(Rules)[k])
    <3>1. \A k \in 1 .. Len(typed) : MadeBy(Typed(typed[k]), Rules) = Normalized(Typed(typed[k]))
      BY <2>1, ItemsAreTexts, RuleByRule, Zenon
    <3>2. \A k \in 1 .. Len(typed) : Alone(Rules)[k] = MadeBy(Typed(typed[k]), Rules)
      BY <2>1, ItemsAreTexts, Zenon
    <3> QED BY <2>2, <3>1, <3>2, Zenon
  <2>4. said = [k \in 1 .. Len(typed) |-> said[k]]
    BY <2>2, Zenon
  <2> HIDE DEF said
  <2>5. \A k \in 1 .. Len(typed) : said[k] \in Seq(Vocabulary)
    <3>1. \A k \in 1 .. Len(typed) : Alone(Rules)[k] \in Seq(Token)
      BY <2>2, ElementOfSeq, Zenon
    <3> QED BY <2>3, <3>1, HeardBoth, Zenon
  <2>6. said \in Seq(Seq(Vocabulary)) /\ Len(said) = Len(typed)
    <3> HIDE DEF Vocabulary
    <3> QED BY <2>2, <2>4, <2>5, SMT
  <2>7. Heard(Joined(Alone(Rules), And)) = Joined(said, <<"and">>)
    BY <2>2, <2>3, <2>6, JoinedHeard, Zenon
  <2> QED BY <2>1, <2>7 DEF said
<1> QED BY <1>1, <1>2, <1>3, PTL DEF Spec
=============================================================================
