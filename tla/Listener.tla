------------------------------ MODULE Listener ------------------------------
(***************************************************************************)
(* Words heard by somebody who knows no rule of app/normalize.py: the      *)
(* sentence that was typed goes through the rules one by one, and what is  *)
(* said at the end is read back, and compared with what was meant.         *)
(***************************************************************************)
EXTENDS Words

CONSTANT Sentences   \* Sequences of items that somebody types.

(* An item: its kind, the digits of its one or two numbers, "" or "pm".    *)
Kinds == {"number", "time", "hour", "room", "wing", "bus", "locker", "ext", "phone", "range",
          "ordinal", "decimal", "percent", "area", "clock"}
Item == [kind : Kinds, a : Seq(0 .. 9), b : Seq(0 .. 9), m : {"", "am", "pm"}]
ASSUME SentencesAssumption ==
  \A s \in Sentences :
    s \in Seq(Item) /\ \A k \in DOMAIN s : s[k].kind = "area" => Len(s[k].b) = 7

VARIABLES
  typed,   \* the sentence
  text,    \* what the rules have made of it so far
  rule     \* how many rules have been applied

vars == <<typed, text, rule>>

(* How the items are written.                                              *)
Typed(item) ==
  LET a == N(item.a)  b == N(item.b)
      meridiem == IF item.m = "" THEN <<>> ELSE <<Space, W(item.m)>>
  IN CASE item.kind = "number"  -> <<a>>
       [] item.kind = "time"    -> <<a, W(":"), b>> \o meridiem
       [] item.kind = "hour"    -> <<a, W(item.m)>>
       [] item.kind = "clock"   -> <<a, W(":"), b, W(":"), b>> \o meridiem
       [] item.kind = "percent" -> <<a, W("%")>>
       [] item.kind = "area"    -> <<a, Space, N(SubSeq(item.b, 1, 3)), W("."), N(SubSeq(item.b, 4, 7))>>
       [] item.kind = "room"    -> <<W("rm"), W("."), Space, a>>
       [] item.kind = "wing"    -> <<W("room"), Space, a, W("b")>>
       [] item.kind = "bus"     -> <<W("bus"), Space, W("#"), a>>
       [] item.kind = "locker"  -> <<W("locker"), Space, a>>
       [] item.kind = "ext"     -> <<W("ext"), W("."), Space, a>>
       [] item.kind = "ordinal" -> <<a, W("th")>>
       [] item.kind = "decimal" -> <<a, W("."), b>>
       [] OTHER                 -> <<a, W("-"), b>>

(* The figures an item has: one or two for an hour, up to four for a room. *)
(* A decimal with three of them and four is a telephone number.            *)
Written(item) ==
  LET figures == Len(item.a)  more == Len(item.b)
  IN /\ figures > 0
     /\ item.kind \in {"time", "hour", "clock", "range"} => figures <= 2
     /\ item.kind \in {"room", "wing", "bus", "locker", "ordinal", "percent"} => figures <= 4
     /\ item.kind = "ext" => figures \in 2 .. 5
     /\ item.kind \in {"phone", "area"} => figures = 3
     /\ item.kind \in {"time", "clock"} => more = 2
     /\ item.kind = "range" => more \in 1 .. 2
     /\ item.kind = "phone" => more = 4
     /\ item.kind = "area" => more = 7
     /\ item.kind = "decimal" => more > 0 /\ ~(figures = 3 /\ more = 4)
     /\ item.kind \in {"hour", "clock"} => item.m # ""

And == <<Space, W("and"), Space>>
Joined(parts, glue) ==
  LET upto[k \in 0 .. Len(parts)] ==
        IF k = 0 THEN <<>> ELSE IF k = 1 THEN parts[1] ELSE upto[k - 1] \o glue \o parts[k]
  IN upto[Len(parts)]

Init ==
  /\ typed \in Sentences
  /\ text = Joined([k \in DOMAIN typed |-> Typed(typed[k])], And)
  /\ rule = 0

Apply ==
  /\ rule < Rules /\ rule' = rule + 1
  /\ text' = Expanded(text, rule + 1)
  /\ UNCHANGED typed

Next == Apply

Spec == Init /\ [][Next]_vars

----------------------------------------------------------------------------
(* Reading words back.                                                     *)

SmallWords == [n \in 0 .. 99 |-> NumberWords[n]]
Small(word) ==
  IF word = "oh" THEN 0
  ELSE IF \E n \in 0 .. 99 : SmallWords[n] = <<word>>
       THEN CHOOSE n \in 0 .. 99 : SmallWords[n] = <<word>> ELSE -1

(* Hearing a number: what is complete, and what the next "thousand" will   *)
(* multiply; a "billion" is one of all that was said before it.            *)
Hear(sum, word) ==
  IF word = "hundred" THEN <<sum[1], 100 * sum[2]>>
  ELSE IF word = "thousand" THEN <<sum[1] + Thousand * sum[2], 0>>
  ELSE IF word = "million" THEN <<sum[1] + Million * sum[2], 0>>
  ELSE IF word = "billion" THEN <<Billion * (sum[1] + sum[2]), 0>>
  ELSE <<sum[1], sum[2] + Small(word)>>

Listen(sum, words) ==
  LET upto[k \in 0 .. Len(words)] == IF k = 0 THEN sum ELSE Hear(upto[k - 1], words[k])
  IN upto[Len(words)]

Value(words) == LET sum == Listen(<<0, 0>>, words) IN sum[1] + sum[2]

Digits(words) == [k \in DOMAIN words |-> Small(words[k])]

Place(words, word) ==
  CHOOSE k \in DOMAIN words : words[k] = word /\ \A j \in 1 .. k - 1 : words[j] # word
Until(words, word) == SubSeq(words, 1, Place(words, word) - 1)
Since(words, word) == SubSeq(words, Place(words, word) + 1, Len(words))
Says(words, word) == \E k \in DOMAIN words : words[k] = word

(* One to twelve, the minutes if there are any, a m or p m.                *)
ClockIs(words, hour, minute, m) ==
  LET body == IF m = "" THEN words ELSE SubSeq(words, 1, Len(words) - 2)
      tail == Tail(body)
  IN /\ m = "" \/ SubSeq(words, Len(words) - 1, Len(words)) = MeridiemWords(m)
     /\ Small(body[1]) \in 1 .. 12 /\ Small(body[1]) % 12 = hour % 12
     /\ IF tail \in {<<>>, <<"o'clock">>} THEN minute = 0
        ELSE /\ Value(tail) = minute /\ minute > 0
             /\ minute < 10 <=> tail[1] = "oh"

NumberVocabulary ==
  {One(n) : n \in 0 .. 19} \cup {Tens[k] : k \in 1 .. 9}
    \cup {"hundred", "thousand", "million", "billion"}
Cardinal(word) == CHOOSE cardinal \in NumberVocabulary : Ordinal(cardinal) = word

Understood(item, words) ==
  LET number == Num(item.a)
      named(k) == SubSeq(words, k, Len(words))
  IN CASE item.kind = "percent" ->
            Last(words) = "percent" /\ Value(Front(words)) = number
       [] item.kind = "number" ->
            IF Len(item.a) > 4 THEN Digits(words) = item.a ELSE Value(words) = number
       [] item.kind \in {"time", "clock"} ->
            IF IsTime(number, Num(item.b)) THEN ClockIs(words, number, Num(item.b), item.m)
            ELSE Says(words, ":") /\ Value(Until(words, ":")) = number
       [] item.kind = "hour" ->
            IF number <= 23 THEN ClockIs(words, number, 0, item.m)
            ELSE Value(SubSeq(words, 1, Len(words) - 1)) = number
       [] item.kind = "room" ->
            words[1] = "room" /\ (IF Len(item.a) > 2 THEN Digits(named(2)) = item.a
                                  ELSE Value(named(2)) = number)
       [] item.kind = "wing" ->
            /\ words[1] = "room" /\ Last(words) = "b"
            /\ LET middle == SubSeq(words, 2, Len(words) - 1)
               IN IF Len(item.a) > 2 THEN Digits(middle) = item.a ELSE Value(middle) = number
       [] item.kind = "bus" ->
            /\ SubSeq(words, 1, 2) = <<"bus", "number">>
            /\ IF number > 99 THEN Digits(named(3)) = item.a ELSE Value(named(3)) = number
       [] item.kind = "locker" -> words[1] = "locker" /\ Digits(named(2)) = item.a
       [] item.kind = "ext"    -> words[1] = "extension" /\ Digits(named(2)) = item.a
       [] item.kind \in {"phone", "area"} -> Digits(words) = item.a \o item.b
       [] item.kind = "range"  ->
            /\ Says(words, "to") /\ Value(Until(words, "to")) = number
            /\ Value(Since(words, "to")) = Num(item.b)
       [] item.kind = "ordinal" ->
            Value(Front(words) \o <<Cardinal(Last(words))>>) = number
       [] item.kind = "decimal" ->
            /\ Says(words, "point") /\ Value(Until(words, "point")) = number
            /\ Digits(Since(words, "point")) = item.b

----------------------------------------------------------------------------
Finished == rule = Rules

(* No figure reaches the voice: each is claimed by some rule.              *)
NoFigureIsLeft == Finished => \A k \in DOMAIN text : text[k].d = <<>>

(* Somebody who hears one item, written with as many figures as such items *)
(* have, understands what was typed: the number, the time on a clock of    *)
(* twelve hours, the digits of a room or a telephone.                      *)
ItemsAreUnderstood ==
  Finished /\ Len(typed) = 1 /\ Written(typed[1]) => Understood(typed[1], Heard(text))

(* An item sounds the same whatever else is in the sentence: no rule takes *)
(* a part of its neighbour or changes what an earlier rule has said.       *)
ItemsDoNotMix ==
  Finished => Heard(text) =
    Joined([k \in DOMAIN typed |-> Heard(Normalized(Typed(typed[k])))], <<"and">>)
=============================================================================
