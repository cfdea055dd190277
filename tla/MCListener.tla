----------------------------- MODULE MCListener -----------------------------
(* Sentences that somebody types, and what is heard.                       *)
EXTENDS Listener, FiniteSets

Items(kind, as, bs, ms) == [kind : {kind}, a : as, b : bs, m : ms]

Of(digits, lengths) == UNION {[1 .. k -> digits] : k \in lengths}
None == {<<>>}
Plain == {""}
Minutes == {<<0, 0>>, <<0, 5>>, <<1, 5>>, <<4, 0>>, <<5, 9>>, <<6, 0>>}

Alone ==
  UNION {
    Items("number", Of(0 .. 9, 1 .. 3) \cup Of({0, 1, 7}, 4 .. 6) \cup Of({9}, 7 .. 12), None, Plain),
    Items("time", Of(0 .. 9, 1 .. 2), Minutes, {"", "am", "pm"}),
    Items("hour", Of(0 .. 9, 1 .. 2), None, {"am", "pm"}),
    Items("clock", Of(0 .. 2, 1 .. 2), Minutes \ {<<6, 0>>}, {"am", "pm"}),
    Items("percent", Of({0, 5}, 1 .. 3), None, Plain),
    Items("area", {<<6, 0, 4>>}, Of({0, 5}, {7}), Plain),
    Items("room", Of(0 .. 4, 1 .. 3) \cup Of({0, 1, 9}, {4}), None, Plain),
    Items("wing", Of({0, 1, 2}, 1 .. 4), None, Plain),
    Items("bus", Of({0, 1, 2}, 1 .. 4), None, Plain),
    Items("locker", Of({0, 1, 2}, 1 .. 4), None, Plain),
    Items("ext", Of({0, 1, 2}, 2 .. 5), None, Plain),
    Items("phone", Of({0, 5}, {3}), Of({0, 1}, {4}), Plain),
    Items("range", Of(0 .. 3, 1 .. 2), Of(0 .. 3, 1 .. 2), Plain),
    Items("ordinal", Of(0 .. 9, 1 .. 2) \cup Of({0, 1, 2}, 3 .. 4), None, Plain),
    Items("decimal", Of({0, 1, 3}, 1 .. 6), Of({0, 5}, 1 .. 2), Plain)}

(* A few of each kind.                                                     *)
Some ==
  UNION {
    Items("number", {<<7>>, <<4, 2>>, <<2, 0, 4>>, <<1, 2, 3, 4, 5>>}, None, Plain),
    Items("time", {<<9>>, <<1, 2>>, <<7, 7>>}, {<<0, 5>>, <<3, 0>>}, {"", "pm"}),
    Items("hour", {<<8>>, <<2, 5>>}, None, {"am"}),
    Items("room", {<<7>>, <<2, 0, 4>>}, None, Plain),
    Items("wing", {<<1, 2>>}, None, Plain),
    Items("bus", {<<8>>, <<1, 4, 7>>}, None, Plain),
    Items("locker", {<<0, 1, 4, 2>>}, None, Plain),
    Items("ext", {<<3, 0, 2, 1>>}, None, Plain),
    Items("percent", {<<5, 0>>}, None, Plain),
    Items("area", {<<6, 0, 4>>}, {<<5, 5, 5, 0, 1, 9, 9>>}, Plain),
    Items("phone", {<<5, 5, 5>>}, {<<1, 2, 3, 4>>}, Plain),
    Items("range", {<<8>>}, {<<1, 0>>}, Plain),
    Items("ordinal", {<<3>>, <<2, 0>>}, None, Plain),
    Items("decimal", {<<2>>}, {<<5>>}, Plain)}

Short == {<<i>> : i \in Alone} \cup (Some \X Some)
=============================================================================
