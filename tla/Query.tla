------------------------------- MODULE Query -------------------------------
(***************************************************************************)
(* The query string of a request (query_string.h).  A copy of the raw url  *)
(* is cut into pairs and the values are decoded in place; a query_string   *)
(* keeps pointers into its own copy, which it corrects when it is copied   *)
(* or moved to another request.  Lookups compare keys without decoding     *)
(* them first.                                                             *)
(*                                                                         *)
(* A query_string is [at, url, kv]: the address of its buffer, what is in  *)
(* it, and addresses of pairs.  NUL ends the buffer.                       *)
(***************************************************************************)
EXTENDS Integers, SequencesExt, FiniteSetsExt, TLC

CONSTANT MAX_KEY_VALUE_PAIRS_COUNT \* pairs there is room for

HexDigit == {"0", "1", "2", "3", "5", "6", "a", "b", "B", "D"}
IsQsChr(c) == c \notin {"=", "#", "&", "NUL"}

(* What a percent sign and two digits stand for; OTHER is any character    *)
(* that is not written otherwise.                                          *)
Named ==
  (<<"2", "0">> :> "SP") @@ (<<"2", "3">> :> "#") @@ (<<"2", "5">> :> "%") @@ (<<"2", "6">> :> "&")
    @@ (<<"2", "B">> :> "+") @@ (<<"3", "D">> :> "=") @@ (<<"6", "1">> :> "a") @@ (<<"5", "B">> :> "[")
    @@ (<<"5", "D">> :> "]") @@ (<<"0", "0">> :> "NUL")
Hex(digits) == IF digits \in DOMAIN Named THEN Named[digits] ELSE "OTHER"

At(b, i) == IF i \in DOMAIN b THEN b[i] ELSE "NUL"
IsHex(b, i) == {At(b, i + 1), At(b, i + 2)} \subseteq HexDigit

(* strcspn: the first place from i on with one of chars or the end.        *)
Span(b, i, chars) ==
  Min({j \in i .. Len(b) : At(b, j) \in chars \cup {"NUL"}} \cup {Max({i, Len(b)})})
CString(b, i) == SubSeq(b, i, Span(b, i, {}) - 1)

(* One character of a url, decoded, and where the next one is.             *)
Unit(b, i) ==
  [c |-> CASE ~IsQsChr(At(b, i)) -> "NUL"
           [] b[i] = "+" -> "SP"
           [] b[i] = "%" -> IF IsHex(b, i) THEN Hex(<<b[i + 1], b[i + 2]>>) ELSE "NUL"
           [] OTHER -> b[i],
   next |-> IF At(b, i) = "%" THEN i + 3 ELSE i + 1]

(* qs_strncmp(s, qs, n) = 0. *)
RECURSIVE qs_equal(_, _, _, _, _)
qs_equal(s, i, qs, j, n) ==
  IF n = 0 THEN ~IsQsChr(At(qs, j))
  ELSE LET u == Unit(s, i)
           v == Unit(qs, j)
       IN u.c = v.c /\ (u.c # "NUL" => qs_equal(s, u.next, qs, v.next, n - 1))

(* From i on the characters at j and after it are decoded.                 *)
RECURSIVE qs_decode(_, _, _)
qs_decode(b, i, j) ==
  IF ~IsQsChr(b[j]) \/ (b[j] = "%" /\ ~IsHex(b, j)) THEN [b EXCEPT ![i] = "NUL"]
  ELSE qs_decode([b EXCEPT ![i] = Unit(b, j).c], i + 1, Unit(b, j).next)

(* What qs_parse does with the value of the pair at i. *)
DecodePair(b, i) ==
  LET e == Span(b, i, {"=", "&", "#"})
  IN IF b[e] \in {"&", "NUL"} THEN [b EXCEPT ![e] = "NUL"] ELSE qs_decode(b, e + 1, e + 1)

(* Where the pairs of a buffer start, all of them and those that are kept. *)
AllStarts(b) ==
  LET q == Span(b, 1, {"?", "#"})
  IN IF b[q] = "NUL" THEN <<>>
     ELSE SetToSortSeq({q + 1} \cup {i + 1 : i \in {j \in q + 1 .. Len(b) : b[j] = "&"}}, <)
Starts(b) == SubSeq(AllStarts(b), 1, Min({MAX_KEY_VALUE_PAIRS_COUNT, Len(AllStarts(b))}))

(* One pair too many: qs_parse leaves its first loop with a count that is  *)
(* one above the room, and its second loop follows a pointer that lies     *)
(* behind the vector.  Most such words are no addresses and end the        *)
(* program; after one that is, resize() adds a null pointer to the pairs.  *)
Overrun(b) == Len(AllStarts(b)) > MAX_KEY_VALUE_PAIRS_COUNT
Null == 0

(* query_string(raw_url), with a buffer at some address. *)
Made(raw, at) ==
  LET b == Append(raw, "NUL")
      kv == Starts(b)
  IN [at |-> at, url |-> FoldLeft(DecodePair, b, kv),
      kv |-> [k \in DOMAIN kv |-> at + kv[k]] \o (IF Overrun(b) THEN <<Null>> ELSE <<>>)]

MutCopied(q, at) == [q EXCEPT !.at = at]

(* Copies, and assignments from a query_string that is moved, point into   *)
(* their own buffer.                                                       *)
Copied(q, at) ==
  [at |-> at, url |-> q.url, kv |-> [k \in DOMAIN q.kv |-> q.kv[k] - q.at + at]]
Moved(q, at) ==
  [q EXCEPT !.at = at, !.kv = [k \in DOMAIN @ |-> @[k] + (at - q.at)]]

Pair(q, k) == q.kv[k] - q.at
After(b, i, char) == LET e == Span(b, i, {char}) IN IF At(b, e) = char THEN e + 1 ELSE e

(* The pairs qs_k2v finds for a key, and the values it returns for them.   *)
Matches(q, key) ==
  SelectSeq([k \in DOMAIN q.kv |-> Pair(q, k)],
            LAMBDA i : qs_equal(Append(key, "NUL"), 1, q.url, i, Len(key)))
qs_k2v(q, i) == CString(q.url, After(q.url, i, "="))

(* <<>> stands for a null pointer, <<s>> for a string. *)
Values(q, key) == [k \in DOMAIN Matches(q, key) |-> qs_k2v(q, Matches(q, key)[k])]
get(q, name) == IF Values(q, name) = <<>> THEN <<>> ELSE <<Head(Values(q, name))>>
get_list(q, name) == Values(q, name \o <<"[", "]">>)

(* qs_dict_name2kv: a pair that begins with the name; the text between its *)
(* brackets is the key.  A search ends with the first pair that has them   *)
(* the wrong way round; of equal keys the first stays.                     *)
Named2kv(q, name) ==
  SelectSeq([k \in DOMAIN q.kv |-> CString(q.url, Pair(q, k))], LAMBDA s : IsPrefix(name, s))
Opening(s) == After(Append(s, "NUL"), 1, "[")
Closing(s) == Span(Append(s, "NUL"), 1, {"]"})
Element(s) ==
  [key |-> SubSeq(s, Opening(s), Closing(s) - 1),
   value |-> SubSeq(s, After(Append(s, "NUL"), 1, "="), Len(s))]
IsElement(s) == Opening(s) > 1 /\ Closing(s) > 1 /\ Opening(s) <= Closing(s)
get_dict(q, name) ==
  LET found == Named2kv(q, name)
      last == Min({k \in DOMAIN found : ~IsElement(found[k])} \cup {Len(found) + 1})
      elements == [k \in 1 .. last - 1 |-> Element(found[k])]
  IN [key \in {elements[k].key : k \in DOMAIN elements} |->
        elements[Min({k \in DOMAIN elements : elements[k].key = key})].value]
=============================================================================
