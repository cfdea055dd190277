------------------------------- MODULE Words -------------------------------
(***************************************************************************)
(* What is typed and what is said: app/numbers.py, and the ordered rules   *)
(* of _expand_chunk in app/normalize.py.  The order is the design: a rule  *)
(* takes what it recognises, and what it leaves is read by the next one.   *)
(*                                                                         *)
(* A text is a sequence of tokens: a number as its digits, or a word or a  *)
(* mark; two tokens with no " " between them touch.  The spellings one     *)
(* pattern accepts (AM, a.m.; rm., #) are one or two of them here, and the *)
(* steps before and after the rules, which touch no number, are left out.  *)
(***************************************************************************)
EXTENDS Integers, Sequences, SequencesExt

W(x) == [w |-> x, d |-> <<>>]
N(digits) == [w |-> "", d |-> digits]
Space == W(" ")

Marks == {" ", ":", "-", ".", ",", "#", "&", "%"}

----------------------------------------------------------------------------
(* numbers.py: words of a number.                                          *)

Ones == <<"one", "two", "three", "four", "five", "six", "seven", "eight", "nine", "ten",
          "eleven", "twelve", "thirteen", "fourteen", "fifteen", "sixteen", "seventeen",
          "eighteen", "nineteen">>
One(n) == IF n = 0 THEN "zero" ELSE Ones[n]
Tens == <<"ten", "twenty", "thirty", "forty", "fifty", "sixty", "seventy", "eighty", "ninety">>

Thousand == 1000
Million == 1000 * Thousand
Billion == 1000 * Million

NumberWords[n \in Nat] ==
  LET Scaled(unit, name) ==
        NumberWords[n \div unit] \o <<name>>
          \o (IF n % unit = 0 THEN <<>> ELSE NumberWords[n % unit])
  IN IF n < 20 THEN <<One(n)>>
     ELSE IF n < 100 THEN <<Tens[n \div 10]>> \o (IF n % 10 = 0 THEN <<>> ELSE <<One(n % 10)>>)
     ELSE IF n < Thousand THEN Scaled(100, "hundred")
     ELSE IF n < Million THEN Scaled(Thousand, "thousand")
     ELSE IF n < Billion THEN Scaled(Million, "million")
     ELSE Scaled(Billion, "billion")

DigitWords(digits) ==
  [k \in 1 .. Len(digits) |-> IF digits[k] = 0 THEN "oh" ELSE One(digits[k])]

IrregularOrdinal ==
  [one |-> "first", two |-> "second", three |-> "third", five |-> "fifth", eight |-> "eighth",
   nine |-> "ninth", twelve |-> "twelfth"]
Ieth ==
  [twenty |-> "twentieth", thirty |-> "thirtieth", forty |-> "fortieth", fifty |-> "fiftieth",
   sixty |-> "sixtieth", seventy |-> "seventieth", eighty |-> "eightieth", ninety |-> "ninetieth"]
Th ==
  [zero |-> "zeroth", four |-> "fourth", six |-> "sixth", seven |-> "seventh", ten |-> "tenth",
   eleven |-> "eleventh", thirteen |-> "thirteenth", fourteen |-> "fourteenth",
   fifteen |-> "fifteenth", sixteen |-> "sixteenth", seventeen |-> "seventeenth",
   eighteen |-> "eighteenth", nineteen |-> "nineteenth", hundred |-> "hundredth",
   thousand |-> "thousandth", million |-> "millionth", billion |-> "billionth"]
Ordinal(word) ==
  IF word \in DOMAIN IrregularOrdinal THEN IrregularOrdinal[word]
  ELSE IF word \in DOMAIN Ieth THEN Ieth[word] ELSE Th[word]

OrdinalWords(n) == Front(NumberWords[n]) \o <<Ordinal(Last(NumberWords[n]))>>

Num(digits) ==
  LET upto[k \in 0 .. Len(digits)] == IF k = 0 THEN 0 ELSE 10 * upto[k - 1] + digits[k]
  IN upto[Len(digits)]

DecimalWords(whole, frac) ==
  NumberWords[Num(whole)] \o <<"point">> \o [k \in 1 .. Len(frac) |-> One(frac[k])]

----------------------------------------------------------------------------
(* Looking at a text.                                                      *)

In(text, i) == i \in 1 .. Len(text)
At(text, i, words) == In(text, i) /\ text[i].w \in words
NumAt(text, i, lengths) == In(text, i) /\ Len(text[i].d) \in lengths /\ text[i].d # <<>>
After(text, i, words) == IF At(text, i, words) THEN i + 1 ELSE i

(* \b: one of the two tokens that meet here is a mark, or there is none.   *)
Edge(text, i) ==
  \/ ~In(text, i - 1) \/ ~In(text, i)
  \/ text[i - 1].w \in Marks \/ text[i].w \in Marks

(* Replace every match from the left: end has the index after the match at *)
(* each place, 0 for none, and say what is put there.                      *)
Replaced(text, end, say) ==
  LET from[i \in 1 .. Len(text) + 1] ==
        IF i > Len(text) THEN <<>>
        ELSE IF end[i] = 0 THEN <<text[i]>> \o from[i + 1]
        ELSE say[i] \o from[end[i]]
  IN from[1]

(* re.sub with a pattern and a function.                                   *)
Sub(text, End(_, _), Say(_, _)) ==
  Replaced(text, [i \in DOMAIN text |-> End(text, i)], [i \in DOMAIN text |-> Say(text, i)])

Spoken(words) ==
  [k \in 1 .. 2 * Len(words) - 1 |-> IF k % 2 = 1 THEN W(words[(k + 1) \div 2]) ELSE Space]

----------------------------------------------------------------------------
(* Times.                                                                  *)

Meridiems == {"am", "pm"}
MeridiemWords(m) == IF m = "am" THEN <<"a", "m">> ELSE IF m = "pm" THEN <<"p", "m">> ELSE <<>>

\* Mutant of SpokenTime: noon and midnight are the hour zero.
SpokenTimeFromZero(hour, minute, meridiem) ==
  NumberWords[hour % 12]
    \o (IF minute = 0 THEN IF meridiem = "" THEN <<"o'clock">> ELSE <<>>
        ELSE (IF minute < 10 THEN <<"oh">> ELSE <<>>) \o NumberWords[minute])
    \o MeridiemWords(meridiem)

SpokenTime(hour, minute, meridiem) ==
  LET shown == IF hour <= 12 THEN hour ELSE hour - 12
  IN NumberWords[IF shown = 0 THEN 12 ELSE shown]
       \o (IF minute = 0 THEN IF meridiem = "" THEN <<"o'clock">> ELSE <<>>
           ELSE (IF minute < 10 THEN <<"oh">> ELSE <<>>) \o NumberWords[minute])
       \o MeridiemWords(meridiem)

ClockAt(text, i) ==
  NumAt(text, i, 1 .. 2) /\ At(text, i + 1, {":"}) /\ NumAt(text, i + 2, {2})
    /\ ~At(text, i - 1, {":"})
IsTime(hour, minute) == hour <= 23 /\ minute <= 59

(* The seconds a clock may have before its meridiem are not said.          *)
MeridiemOf(text, i) ==
  LET seconds == IF At(text, i + 3, {":"}) /\ NumAt(text, i + 4, {2}) THEN i + 5 ELSE i + 3
  IN After(text, seconds, {" "})
TimeMeridiemEnd(text, i) ==
  IF ClockAt(text, i) /\ At(text, MeridiemOf(text, i), Meridiems)
  THEN MeridiemOf(text, i) + 1 ELSE 0
TimeBareEnd(text, i) ==
  IF ClockAt(text, i) /\ ~At(text, i + 3, {":"}) THEN i + 3 ELSE 0
HourEnd(text, i) ==
  LET m == After(text, i + 1, {" "})
  IN IF NumAt(text, i, 1 .. 2) /\ ~At(text, i - 1, {":", "."}) /\ At(text, m, Meridiems)
     THEN m + 1 ELSE 0

SayClock(text, i, end, meridiem) ==
  LET hour == Num(text[i].d)  minute == Num(text[i + 2].d)
  IN IF IsTime(hour, minute) THEN Spoken(SpokenTime(hour, minute, meridiem))
     ELSE SubSeq(text, i, end - 1)
SayTimeMeridiem(text, i) ==
  SayClock(text, i, TimeMeridiemEnd(text, i), text[MeridiemOf(text, i)].w)
SayTimeBare(text, i) == SayClock(text, i, i + 3, "")
SayHour(text, i) ==
  IF Num(text[i].d) > 23 THEN SubSeq(text, i, HourEnd(text, i) - 1)
  ELSE Spoken(SpokenTime(Num(text[i].d), 0, text[HourEnd(text, i) - 1].w))

ExpandTimes(text) ==
  Sub(Sub(Sub(text, TimeMeridiemEnd, SayTimeMeridiem), TimeBareEnd, SayTimeBare),
      HourEnd, SayHour)

----------------------------------------------------------------------------
(* Rooms, buses, lockers, extensions: a name, then its number.             *)

Named(text, i, names) ==
  LET dot  == After(text, i + 1, {"."})
      hash == After(text, After(text, dot, {" "}), {"#"})
  IN IF At(text, i, names) /\ Edge(text, i) THEN After(text, hash, {" "}) ELSE 0

RoomSuffix(text, n) == IF At(text, n + 1, {"b"}) THEN n + 2 ELSE n + 1
RoomEnd(text, i) ==
  LET n == Named(text, i, {"room", "rm"})
  IN IF NumAt(text, n, 1 .. 4) /\ Edge(text, RoomSuffix(text, n)) THEN RoomSuffix(text, n) ELSE 0
SayRoom(text, i) ==
  LET n == Named(text, i, {"room", "rm"})
      d == text[n].d
  IN Spoken(<<"room">> \o (IF Len(d) <= 2 THEN NumberWords[Num(d)] ELSE DigitWords(d))
              \o (IF RoomSuffix(text, n) = n + 2 THEN <<"b">> ELSE <<>>))

BusNumber(text, i) ==
  LET word == After(text, i + 1, {" "})
      rest == IF At(text, word, {"number", "no"}) THEN word + 1 ELSE i + 1
      hash == After(text, After(text, rest, {" "}), {"#"})
  IN IF At(text, i, {"bus"}) /\ Edge(text, i) THEN After(text, hash, {" "}) ELSE 0
BusEnd(text, i) ==
  LET n == BusNumber(text, i)
  IN IF NumAt(text, n, 1 .. 4) /\ Edge(text, n + 1) THEN n + 1 ELSE 0
SayBus(text, i) ==
  LET d == text[BusNumber(text, i)].d
  IN Spoken(<<"bus", "number">> \o (IF Num(d) <= 99 THEN NumberWords[Num(d)] ELSE DigitWords(d)))

LockerEnd(text, i) ==
  LET n == Named(text, i, {"locker"})
  IN IF NumAt(text, n, 1 .. 4) /\ Edge(text, n + 1) THEN n + 1 ELSE 0
SayLocker(text, i) ==
  Spoken(<<"locker">> \o DigitWords(text[Named(text, i, {"locker"})].d))

ExtensionNames == {"ext", "extension", "x"}
ExtensionEnd(text, i) ==
  LET n == Named(text, i, ExtensionNames)
  IN IF NumAt(text, n, 2 .. 5) /\ Edge(text, n + 1) THEN n + 1 ELSE 0
SayExtension(text, i) ==
  Spoken(<<"extension">> \o DigitWords(text[Named(text, i, ExtensionNames)].d))

----------------------------------------------------------------------------
(* Numbers with a mark between them.                                       *)

ShortPhone(text, i) ==
  /\ NumAt(text, i, {3}) /\ At(text, i + 1, {"-", "."}) /\ NumAt(text, i + 2, {4})
  /\ Edge(text, i) /\ Edge(text, i + 3)
WithArea(text, i) ==
  NumAt(text, i, {3}) /\ Edge(text, i) /\ At(text, i + 1, {"-", ".", " "}) /\ ShortPhone(text, i + 2)
PhoneEnd(text, i) ==
  IF WithArea(text, i) THEN i + 5 ELSE IF ShortPhone(text, i) THEN i + 3 ELSE 0
SayPhone(text, i) ==
  Spoken((IF WithArea(text, i) THEN DigitWords(text[i].d) ELSE <<>>)
           \o DigitWords(text[PhoneEnd(text, i) - 3].d) \o DigitWords(text[PhoneEnd(text, i) - 1].d))

\* Mutant of RangeEnd: "8 and 10" is taken for a range too.
RangeOrPairEnd(text, i) ==
  LET dash == After(text, i + 1, {" "})
      to   == After(text, dash + 1, {" "})
  IN IF /\ NumAt(text, i, 1 .. 2) /\ At(text, dash, {"-", "and"}) /\ NumAt(text, to, 1 .. 2)
        /\ Edge(text, i) /\ Edge(text, to + 1)
     THEN to + 1 ELSE 0

RangeEnd(text, i) ==
  LET dash == After(text, i + 1, {" "})
      to   == After(text, dash + 1, {" "})
  IN IF /\ NumAt(text, i, 1 .. 2) /\ At(text, dash, {"-"}) /\ NumAt(text, to, 1 .. 2)
        /\ Edge(text, i) /\ Edge(text, to + 1)
     THEN to + 1 ELSE 0
SayRange(text, i) ==
  <<text[i], Space, W("to"), Space, text[RangeEnd(text, i) - 1]>>

OrdinalEnd(text, i) ==
  IF NumAt(text, i, 1 .. 4) /\ Edge(text, i) /\ At(text, i + 1, {"st", "nd", "rd", "th"})
       /\ Edge(text, i + 2)
  THEN i + 2 ELSE 0
SayOrdinal(text, i) == Spoken(OrdinalWords(Num(text[i].d)))

----------------------------------------------------------------------------
(* Symbols, abbreviations and what is left.                                *)

Abbreviations == [mr |-> "mister", dr |-> "doctor", dept |-> "department"]
Symbol(mark) == CASE mark = "&" -> "and" [] mark = "%" -> "percent" [] OTHER -> "number"
SymbolEnd(text, i) == IF At(text, i, {"&", "%", "#"}) THEN i + 1 ELSE 0
SaySymbol(text, i) == <<Space, W(Symbol(text[i].w)), Space>>
AbbreviationEnd(text, i) ==
  IF At(text, i, DOMAIN Abbreviations) /\ Edge(text, i) /\ Edge(text, i + 1)
  THEN IF At(text, i + 1, {"."}) /\ (At(text, i + 2, {" "}) \/ ~In(text, i + 2))
       THEN i + 2 ELSE i + 1
  ELSE 0
SayAbbreviation(text, i) == <<W(Abbreviations[text[i].w])>>

DecimalEnd(text, i) ==
  IF /\ NumAt(text, i, Nat) /\ At(text, i + 1, {"."}) /\ NumAt(text, i + 2, Nat)
     /\ Edge(text, i) /\ Edge(text, i + 3)
  THEN i + 3 ELSE 0
SayDecimal(text, i) == Spoken(DecimalWords(text[i].d, text[i + 2].d))
LongRunEnd(text, i) ==
  IF NumAt(text, i, Nat \ 0 .. 4) /\ Edge(text, i) /\ Edge(text, i + 1) THEN i + 1 ELSE 0
SayLongRun(text, i) == Spoken(DigitWords(text[i].d))

\* Mutant of IntEnd: only a number that touches no letter.
IntEndAtEdges(text, i) ==
  IF NumAt(text, i, Nat) /\ Edge(text, i) /\ Edge(text, i + 1) THEN i + 1 ELSE 0

IntEnd(text, i) == IF NumAt(text, i, Nat) THEN i + 1 ELSE 0
SayInt(text, i) == Spoken(NumberWords[Num(text[i].d)])

ExpandNumbers(text) ==
  Sub(Sub(Sub(text, DecimalEnd, SayDecimal), LongRunEnd, SayLongRun), IntEnd, SayInt)

----------------------------------------------------------------------------
(* _expand_chunk.                                                          *)

Rules == 10

Expanded(text, rule) ==
  CASE rule = 1  -> ExpandTimes(text)
    [] rule = 2  -> Sub(text, RoomEnd, SayRoom)
    [] rule = 3  -> Sub(text, BusEnd, SayBus)
    [] rule = 4  -> Sub(text, LockerEnd, SayLocker)
    [] rule = 5  -> Sub(text, ExtensionEnd, SayExtension)
    [] rule = 6  -> Sub(text, PhoneEnd, SayPhone)
    [] rule = 7  -> Sub(text, RangeEnd, SayRange)
    [] rule = 8  -> Sub(text, OrdinalEnd, SayOrdinal)
    [] rule = 9  -> Sub(Sub(text, SymbolEnd, SaySymbol), AbbreviationEnd, SayAbbreviation)
    [] rule = 10 -> ExpandNumbers(text)

Normalized(text) ==
  LET upto[k \in 0 .. Rules] == IF k = 0 THEN text ELSE Expanded(upto[k - 1], k)
  IN upto[Rules]
Heard(text) ==
  LET upto[k \in 0 .. Len(text)] ==
        IF k = 0 THEN <<>>
        ELSE IF text[k] = Space THEN upto[k - 1] ELSE upto[k - 1] \o <<text[k].w>>
  IN upto[Len(text)]
=============================================================================
