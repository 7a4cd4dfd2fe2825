-------------------------------- MODULE Json --------------------------------
(***************************************************************************)
(* The JSON of crow (json.h).  load() copies a text and parses it in       *)
(* place: strings and keys are pointers into the copy, the quotes that     *)
(* enclosed them are overwritten, and an escaped string is shortened where *)
(* it stands when it is first read.  Objects are sorted by key when a      *)
(* field is first looked up.  dump() writes what handlers answer.          *)
(*                                                                         *)
(* A text is a sequence of characters; "rue", "alse" and "ull" are the     *)
(* rests of the three words, BS is a backslash, and NUL ends the copy.     *)
(***************************************************************************)
EXTENDS Integers, SequencesExt, FiniteSetsExt

CONSTANTS
  Precision, \* how many digits of a number "%g" writes
  MaxInt     \* the largest int64_t

(* Characters in the order of their codes.                                 *)
Chars == <<"NUL", "SOH", "LF", "SO", "DLE", "DC1", "RS", "SP", "QUOTE", "+", ",", "-", ".",
           "/", "0", "1", "2", "3", "4", "5", "6", "7", "8", "9", ":", "[", "BS", "]", "a", "alse", "b", "e", "f", "n",
           "rue", "t", "u", "ull", "{", "}", "HIGH">>
Rank(c) == CHOOSE i \in DOMAIN Chars : Chars[i] = c

Digits == <<"0", "1", "2", "3", "4", "5", "6", "7", "8", "9">>
Digit == ToSet(Digits)
DigitValue(c) == (CHOOSE i \in DOMAIN Digits : Digits[i] = c) - 1
HexDigit == Digit \cup {"a", "b", "e", "f"}
HexValue(c) == CASE c \in Digit -> DigitValue(c) [] c = "a" -> 10 [] c = "b" -> 11
                 [] c = "e" -> 14 [] c = "f" -> 15
Control == (0 :> "NUL") @@ (1 :> "SOH") @@ (10 :> "LF") @@ (14 :> "SO") @@ (16 :> "DLE")
             @@ (17 :> "DC1") @@ (30 :> "RS")

-----------------------------------------------------------------------------
(* The parser.  Its state is the buffer, the position, the rvalues made so *)
(* far and the last one, 0 when that is an error; an error ends it.        *)

rvalue(type, s, e) ==
  [t |-> type, start |-> s, end |-> e, key |-> <<1, 1>>, l |-> <<>>, cached |-> FALSE]
Parsed(p, id) == [p EXCEPT !.id = id]
Failed(p) == Parsed(p, 0)
Made(p, at, v) == [p EXCEPT !.at = at, !.nodes = Append(@, v), !.id = Len(p.nodes) + 1]

Skip(buf, i) == Min({j \in i .. Len(buf) : buf[j] # "SP"})

(* decode_string: where the closing quote of a string is, 0 for an error,  *)
(* and whether it holds an escape.                                         *)
Escape == [c \in {"QUOTE", "BS", "/", "b", "f", "n", "t"} |-> IF c = "n" THEN "LF" ELSE c]

RECURSIVE Close(_, _, _)
Close(buf, i, has_escaping) ==
  CASE buf[i] = "QUOTE" -> [end |-> i, has_escaping |-> has_escaping]
    [] buf[i] = "NUL" -> [end |-> 0, has_escaping |-> has_escaping]
    [] buf[i] = "BS" /\ buf[i + 1] \in DOMAIN Escape -> Close(buf, i + 2, TRUE)
    [] buf[i] = "BS" /\ buf[i + 1] = "u" ->
         IF \A k \in 2 .. 5 : i + k <= Len(buf) /\ buf[i + k] \in HexDigit
         THEN Close(buf, i + 6, TRUE) ELSE [end |-> 0, has_escaping |-> TRUE]
    [] buf[i] = "BS" -> [end |-> 0, has_escaping |-> TRUE]
    [] OTHER -> Close(buf, i + 1, has_escaping)

(* The quotes become an end mark and the flag that unescape() looks at.    *)
Flag(has_escaping) == IF has_escaping THEN "SOH" ELSE "NUL"

DecodeString(p) ==
  LET c == Close(p.buf, p.at + 1, FALSE)
  IN IF p.buf[p.at] # "QUOTE" \/ c.end = 0 THEN Failed(p)
     ELSE [Made(p, c.end + 1, rvalue("String", p.at + 1, c.end))
             EXCEPT !.buf = [p.buf EXCEPT ![c.end] = "NUL", ![p.at] = Flag(c.has_escaping)]]

(* What an escape at position i stands for, in bytes, and its length.      *)
Escaped(buf, i) ==
  LET x(k) == HexValue(buf[i + k])
      code == 4096 * x(2) + 256 * x(3) + 16 * x(4) + x(5)
  IN IF buf[i + 1] # "u" THEN [bytes |-> <<Escape[buf[i + 1]]>>, length |-> 2]
     ELSE [bytes |-> IF code >= 2048 THEN <<"HIGH", "HIGH", "HIGH">>
                     ELSE IF code >= 128 THEN <<"HIGH", "HIGH">>
                     ELSE IF code \in DOMAIN Control THEN <<Control[code]>> ELSE <<"a">>,
           length |-> 6]

RECURSIVE Plain(_, _, _)
Plain(buf, i, end) ==
  IF i >= end THEN <<>>
  ELSE IF buf[i] = "BS"
       THEN Escaped(buf, i).bytes \o Plain(buf, i + Escaped(buf, i).length, end)
       ELSE <<buf[i]>> \o Plain(buf, i + 1, end)

MutUnescape(buf, start, end) ==
  LET s == Plain(buf, start, end)
  IN [buf |-> [i \in DOMAIN buf |->
                 IF i \in start .. start + Len(s) - 1 THEN s[i - start + 1] ELSE buf[i]],
      end |-> end]

(* unescape(): the buffer and the end of the string after it.              *)
Unescape(buf, start, end) ==
  LET s == Plain(buf, start, end)
      e == start + Len(s)
  IN IF buf[start - 1] = "NUL" THEN [buf |-> buf, end |-> end]
     ELSE [buf |-> [i \in DOMAIN buf |->
                      IF i = e \/ i = start - 1 THEN "NUL"
                      ELSE IF i \in start .. e - 1 THEN s[i - start + 1] ELSE buf[i]],
           end |-> e]

(* decode_number: the automaton over Minus = 0, AfterMinus, ZeroFirst,     *)
(* Digits, DigitsAfterPoints, E, DigitsAfterE, Invalid = 7.                *)
Moves == [zero |-> <<2, 2, 7, 3, 4, 6, 6>>, digit |-> <<3, 3, 7, 3, 4, 6, 6>>,
          point |-> <<7, 7, 4, 4, 7, 7, 7>>, minus |-> <<1, 7, 7, 7, 7, 6, 7>>,
          plus |-> <<7, 7, 7, 7, 7, 6, 7>>, e |-> <<7, 7, 7, 5, 5, 7, 7>>]
ClassOf == [c \in Digit \cup {".", "-", "+", "e"} |->
              CASE c = "0" -> "zero" [] c = "." -> "point" [] c = "-" -> "minus"
                [] c = "+" -> "plus" [] c = "e" -> "e" [] OTHER -> "digit"]
FinalState == {2, 3, 4, 6}

RECURSIVE NumberEnd(_, _, _)
NumberEnd(buf, i, state) ==
  LET digitsEnd == Min({j \in i + 1 .. Len(buf) : buf[j] \notin Digit})
      class == ClassOf[buf[i]]
  IN IF state = 7 THEN 0
     ELSE IF buf[i] \notin DOMAIN ClassOf THEN IF state \in FinalState THEN i ELSE 0
     ELSE NumberEnd(buf, IF class = "digit" THEN digitsEnd ELSE i + 1, Moves[class][state + 1])

Word == ("t" :> <<"rue", "True">>) @@ ("f" :> <<"alse", "False">>) @@ ("n" :> <<"ull", "Null">>)
Closing == [Object |-> "}", List |-> "]"]

(* decode_value; decode_list and decode_object, which read items until the *)
(* container is closed.  The key of a member is unescaped at once.         *)
RECURSIVE DecodeValue(_), DecodeItems(_, _), AfterKey(_, _, _), AfterValue(_, _, _)

DecodeContainer(p, first, type) ==
  IF p.buf[first] = Closing[type] THEN Made(p, first + 1, rvalue(type, 0, 0))
  ELSE DecodeItems(Made(p, first, rvalue(type, 0, 0)), Len(p.nodes) + 1)

NumberTo(p, end) == IF end = 0 THEN Failed(p) ELSE Made(p, end, rvalue("Number", p.at, end))

DecodeValue(p) ==
  LET c == p.buf[p.at]
  IN CASE c = "[" -> DecodeContainer(p, Skip(p.buf, p.at + 1), "List")
       [] c = "{" -> DecodeContainer(p, Skip(p.buf, p.at + 1), "Object")
       [] c = "QUOTE" -> DecodeString(p)
       [] c \in DOMAIN Word -> IF p.buf[p.at + 1] = Word[c][1]
                               THEN Made(p, p.at + 2, rvalue(Word[c][2], 0, 0)) ELSE Failed(p)
       [] OTHER -> NumberTo(p, NumberEnd(p.buf, p.at, 0))

DecodeItems(p, id) ==
  IF p.nodes[id].t = "Object" THEN AfterKey(DecodeString(p), p.nodes, id)
  ELSE AfterValue(DecodeValue(p), <<1, 1>>, id)

AfterKey(k, nodes, id) ==
  LET start == k.nodes[k.id].start
      plain == Unescape(k.buf, start, k.nodes[k.id].end)
      colon == Skip(k.buf, k.at)
  IN IF k.id = 0 \/ k.buf[colon] # ":" THEN Failed(k)
     ELSE AfterValue(DecodeValue([k EXCEPT !.buf = plain.buf, !.nodes = nodes,
                                           !.at = Skip(plain.buf, colon + 1)]),
                     <<start, plain.end>>, id)

AfterValue(v, key, id) ==
  LET at == Skip(v.buf, v.at)
      added == [v EXCEPT !.nodes[v.id].key = key, !.nodes[id].l = Append(@, v.id)]
  IN IF v.id = 0 THEN Failed(v)
     ELSE IF v.buf[at] = Closing[v.nodes[id].t] THEN [added EXCEPT !.at = at + 1, !.id = id]
     ELSE IF v.buf[at] = "," THEN DecodeItems([added EXCEPT !.at = Skip(v.buf, at + 1)], id)
     ELSE Failed(v)

(* load(): what follows the value must be the end of the text.  An invalid *)
(* document has no root.                                                   *)
Document(p) == [buf |-> p.buf, nodes |-> p.nodes, root |-> p.id]
Invalid == [buf |-> <<>>, nodes |-> <<>>, root |-> 0]

Whole(p) == IF p.id = 0 \/ p.buf[Skip(p.buf, p.at)] # "NUL" THEN Invalid ELSE Document(p)
Load(text) ==
  LET buf == Append(text, "NUL")
  IN Whole(DecodeValue([at |-> Skip(buf, 1), buf |-> buf, nodes |-> <<>>, id |-> 0]))

-----------------------------------------------------------------------------
(* Reading a document.                                                     *)

Between(d, bounds) == SubSeq(d.buf, bounds[1], bounds[2] - 1)
Key(d, n) == Between(d, d.nodes[n].key)
Text(d, n) == Between(d, <<d.nodes[n].start, d.nodes[n].end>>)

(* lexicographical_compare of two strings.                                 *)
Less(s, t) ==
  \E k \in 1 .. Len(t) :
     /\ \A i \in 1 .. k - 1 : i <= Len(s) /\ s[i] = t[i]
     /\ k = Len(s) + 1 \/ (k <= Len(s) /\ Rank(s[k]) < Rank(t[k]))

MutSorted(d, n) == {d.nodes[n].l}

(* std::sort by key leaves the order of equal keys open.                   *)
Sorted(d, n) ==
  LET l == d.nodes[n].l
  IN IF d.nodes[n].cached THEN {l}
     ELSE {s \in {[i \in DOMAIN l |-> l[pi[i]]] : pi \in {q \in [DOMAIN l -> DOMAIN l] : IsInjective(q)}} :
             \A i, j \in DOMAIN l : i < j => ~Less(Key(d, s[j]), Key(d, s[i]))}

(* operator[] of an object: the document and the member, 0 when it throws. *)
Lookup(d, n, key) ==
  IF n = 0 \/ d.nodes[n].t # "Object" THEN {[doc |-> d, node |-> 0]}
  ELSE {LET at == {i \in DOMAIN s : ~Less(Key(d, s[i]), key)}
            it == Min(at)
        IN [doc |-> [d EXCEPT !.nodes[n].l = s, !.nodes[n].cached = TRUE],
            node |-> IF at # {} /\ Key(d, s[it]) = key THEN s[it] ELSE 0]
          : s \in Sorted(d, n)}

(* s(): the document after unescape() and the string.                      *)
Str(d, n) ==
  LET v == d.nodes[n]
      u == Unescape(d.buf, v.start, v.end)
  IN [doc |-> [d EXCEPT !.buf = u.buf, !.nodes[n].end = u.end],
      value |-> SubSeq(u.buf, v.start, u.end - 1)]
IsStr(d, n) == n # 0 /\ d.nodes[n].t = "String"

(* i(): lexical_cast of the characters of a number or, as they stand, of a *)
(* string; anything but a whole number that fits throws.                   *)
ToNumber(s) == FoldLeft(LAMBDA v, c : 10 * v + DigitValue(c), 0, s)
Unsigned(s) == IF s # <<>> /\ Head(s) \in {"+", "-"} THEN Tail(s) ELSE s
Int64(s) == IF Head(s) = "-" THEN -ToNumber(Unsigned(s)) ELSE ToNumber(Unsigned(s))
IsInt(d, n) ==
  /\ n # 0 /\ d.nodes[n].t \in {"Number", "String"}
  /\ Unsigned(Text(d, n)) # <<>> /\ ToSet(Unsigned(Text(d, n))) \subseteq Digit
  /\ Int64(Text(d, n)) \in -MaxInt - 1 .. MaxInt
AsInt(d, n) == Int64(Text(d, n))

-----------------------------------------------------------------------------
(* Writing: a wvalue is [t, s, l]: s is the string, or the digits of the   *)
(* whole number, l the values, or the <<key, value>> of an object.         *)

wvalue(type, s, l) == [t |-> type, s |-> s, l |-> l]

(* Members of a wvalue are made when they are first assigned.              *)
Set(w, key, value) ==
  LET old == IF w.t = "Object" THEN w.l ELSE <<>>
  IN wvalue("Object", <<>>, Append(SelectSeq(old, LAMBDA m : m[1] # key), <<key, value>>))

MutEscapeChar(c) == IF c = "QUOTE" THEN <<"BS", "QUOTE">> ELSE <<c>>
EscapeChar(c) ==
  CASE c = "QUOTE" -> <<"BS", "QUOTE">> [] c = "BS" -> <<"BS", "BS">> [] c = "LF" -> <<"BS", "n">>
    [] c = "NUL" -> <<"BS", "u", "0", "0", "0", "0">>
    [] c = "SOH" -> <<"BS", "u", "0", "0", "0", "1">>
    [] c = "SO" -> <<"BS", "u", "0", "0", "0", "e">>
    [] c = "DLE" -> <<"BS", "u", "0", "0", "1", "0">>
    [] c = "DC1" -> <<"BS", "u", "0", "0", "1", "1">>
    [] c = "RS" -> <<"BS", "u", "0", "0", "1", "e">>
    [] OTHER -> <<c>>
Quoted(s) == <<"QUOTE">> \o FlattenSeq([i \in DOMAIN s |-> EscapeChar(s[i])]) \o <<"QUOTE">>

(* "%g" of a whole number without leading zeros: all its digits when they  *)
(* are few, or the first of them, rounded, with an exponent.               *)
FormatG(s) ==
  LET unit == 10 ^ (Len(s) - Precision)
      kept == ToNumber(s) \div unit
      left == 2 * (ToNumber(s) % unit)
      rounded == IF left > unit \/ (left = unit /\ kept % 2 = 1) THEN kept + 1 ELSE kept
      carry == IF rounded = 10 ^ Precision THEN 1 ELSE 0
      value == IF carry = 1 THEN rounded \div 10 ELSE rounded
      digits == [i \in 1 .. Precision |->
                   Digits[((value \div 10 ^ (Precision - i)) % 10) + 1]]
      shown == Max({i \in DOMAIN digits : digits[i] # "0"})
  IN IF Len(s) <= Precision THEN s
     ELSE <<digits[1]>> \o (IF shown > 1 THEN <<".">> \o SubSeq(digits, 2, shown) ELSE <<>>)
          \o <<"e", "+", "0", Digits[Len(s) + carry]>>

RECURSIVE Dump(_)
Dump(w) ==
  LET parts == [i \in DOMAIN w.l |->
                  (IF i > 1 THEN <<",">> ELSE <<>>)
                  \o (IF w.t = "Object" THEN Quoted(w.l[i][1]) \o <<":">> \o Dump(w.l[i][2])
                      ELSE Dump(w.l[i]))]
  IN CASE w.t = "Null" -> <<"n", "ull">> [] w.t = "True" -> <<"t", "rue">>
       [] w.t = "False" -> <<"f", "alse">>
       [] w.t = "Number" -> FormatG(w.s)
       [] w.t = "String" -> Quoted(w.s)
       [] w.t = "List" -> <<"[">> \o FlattenSeq(parts) \o <<"]">>
       [] w.t = "Object" -> <<"{">> \o FlattenSeq(parts) \o <<"}">>

-----------------------------------------------------------------------------
(* What a text means, by the grammar of RFC 8259, except for the numbers:  *)
(* this parser also takes a point without digits after it, and an exponent *)
(* that is only a sign, but no exponent after a lone zero.                 *)

Trim(s) == LET is == {i \in DOMAIN s : s[i] # "SP"}
           IN IF is = {} THEN <<>> ELSE SubSeq(s, Min(is), Max(is))
AllDigits(s) == ToSet(s) \subseteq Digit
IsWhole(s) == s # <<>> /\ AllDigits(s) /\ (Len(s) > 1 => Head(s) # "0")
IsFraction(s) ==
  \E i \in 0 .. Len(s) : /\ IsWhole(SubSeq(s, 1, i))
                         /\ i < Len(s) => s[i + 1] = "." /\ AllDigits(SubSeq(s, i + 2, Len(s)))
IsNumber(s) ==
  LET u == IF s # <<>> /\ Head(s) = "-" THEN Tail(s) ELSE s
      exponent(x) == x # <<>> /\ AllDigits(IF Head(x) \in {"+", "-"} THEN Tail(x) ELSE x)
  IN \/ IsFraction(u)
     \/ \E i \in DOMAIN u : /\ u[i] = "e" /\ IsFraction(SubSeq(u, 1, i - 1))
                            /\ SubSeq(u, 1, i - 1) # <<"0">> /\ exponent(SubSeq(u, i + 1, Len(u)))

(* The strings, at most one, that a text between quotes spells.            *)
RECURSIVE Spelled(_)
Spelled(s) ==
  LET rest(k) == Spelled(SubSeq(s, k + 1, Len(s)))
      after(k, bytes) == {bytes \o t : t \in rest(k)}
  IN IF s = <<>> THEN {<<>>}
     ELSE IF Head(s) = "QUOTE" THEN {}
     ELSE IF Head(s) # "BS" THEN after(1, <<Head(s)>>)
     ELSE IF Len(s) > 1 /\ s[2] \in DOMAIN Escape THEN after(2, <<Escape[s[2]]>>)
     ELSE IF Len(s) > 5 /\ s[2] = "u" /\ \A i \in 3 .. 6 : s[i] \in HexDigit
     THEN after(6, Escaped(s, 1).bytes)
     ELSE {}

Inner(s) == SubSeq(s, 2, Len(s) - 1)
Enclosed(s, open, close) == Len(s) > 1 /\ Head(s) = open /\ Last(s) = close
Strings(s) == IF Enclosed(s, "QUOTE", "QUOTE") THEN Spelled(Inner(s)) ELSE {}

RECURSIVE Values(_), Items(_, _)
Values(text) ==
  LET s == Trim(text)
      all(type) == IF Trim(Inner(s)) = <<>> THEN {<<>>} ELSE Items(Inner(s), type)
  IN {wvalue("String", x, <<>>) : x \in Strings(s)}
     \cup {wvalue(Word[c][2], <<>>, <<>>) : c \in {d \in DOMAIN Word : s = <<d, Word[d][1]>>}}
     \cup (IF IsNumber(s) THEN {wvalue("Number", s, <<>>)} ELSE {})
     \cup (IF Enclosed(s, "[", "]") THEN {wvalue("List", <<>>, l) : l \in all("List")} ELSE {})
     \cup (IF Enclosed(s, "{", "}") THEN {wvalue("Object", <<>>, l) : l \in all("Object")} ELSE {})

Items(s, type) ==
  LET one(x) == IF type = "List" THEN Values(x)
                ELSE UNION {{<<k, v>> : k \in Strings(Trim(SubSeq(x, 1, i - 1))),
                                        v \in Values(SubSeq(x, i + 1, Len(x)))}
                              : i \in {j \in DOMAIN x : x[j] = ":"}}
  IN {<<v>> : v \in one(s)}
     \cup UNION {{<<v>> \o rest : v \in one(SubSeq(s, 1, i - 1)),
                                  rest \in Items(SubSeq(s, i + 1, Len(s)), type)}
                   : i \in {j \in DOMAIN s : s[j] = "," /\ one(SubSeq(s, 1, j - 1)) # {}}}

(* What a document says, as read by a loop over it; and a number for what  *)
(* "%g" writes of a whole one.                                             *)
RECURSIVE Tree(_, _)
Tree(d, n) ==
  LET v == d.nodes[n]
      member(m) == IF v.t = "Object" THEN <<Key(d, m), Tree(d, m)>> ELSE Tree(d, m)
  IN wvalue(v.t, CASE v.t = "String" -> Str(d, n).value [] v.t = "Number" -> Text(d, n)
                   [] OTHER -> <<>>,
            [i \in DOMAIN v.l |-> member(v.l[i])])
=============================================================================
