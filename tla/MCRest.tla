------------------------------- MODULE MCRest -------------------------------
(* The routes of the NFVi and small sets of rules that share beginnings;   *)
(* bodies that fit the handlers, unusual ones and garbled ones.            *)
EXTENDS Rest

Rule(pattern, methods, reads, throws, report) ==
  [pattern |-> pattern, methods |-> methods, websocket |-> FALSE, handled |-> TRUE,
   reads |-> reads, throws |-> throws, report |-> report]
Reporting(pattern, kind) == Rule(pattern, {"GET"}, <<>>, {}, kind)
BeforeBody(method) == {<<method, "before">>}
AfterBody(method) == {<<method, "after">>}
Plain(pattern) == Reporting(pattern, "none")

Field(path, how) == [path |-> path, how |-> how, try |-> FALSE, after |-> {}]
A == <<"a">>
B == <<"b">>
E == <<"e">>
Tap == <<"t">>
ReadName == <<Field(<<A>>, "string")>>
ReadPort == <<Field(<<A>>, "string"),
              [Field(<<B, E>>, "string") EXCEPT !.try = TRUE, !.after = {Tap}]>>

(* /, /system, /system/cpu, ... in the order of rest_api_thread.           *)
V == <<"/", "v", "/", "<str>">>
Nfvi == <<
  Reporting(<<"/">>, "root"), Reporting(<<"/", "s">>, "system"),
  Reporting(<<"/", "s", "/", "c">>, "cpu"), Reporting(<<"/", "s", "/", "m">>, "mem"),
  Reporting(<<"/", "s", "/", "p">>, "pnic"), Reporting(<<"/", "v">>, "vnfs"),
  Rule(V, {"GET", "POST", "DELETE"}, "POST" :> ReadName, AfterBody("POST"), "vnf"),
  Rule(V \o <<"/", "p", "o", "/", "<int>">>, {"PUT", "DELETE"}, "PUT" :> ReadName, {}, "none"),
  Reporting(<<"/", "p", "o">>, "ports"),
  Rule(<<"/", "p", "o", "/", "<str>">>, {"GET", "POST", "DELETE"}, "POST" :> ReadPort, {}, "port"),
  Reporting(<<"/", "c", "/", "v">>, "catalog"),
  Rule(V \o <<"/", "c", "/", "<int>">>, {"PUT"}, "PUT" :> <<Field(<<A>>, "int")>>, BeforeBody("PUT"), "none"),
  Rule(V \o <<"/", "r">>, {"PUT"}, <<>>, {}, "none"),
  Rule(V \o <<"/", "d">>, {"PUT"}, <<>>, BeforeBody("PUT"), "none"),
  Rule(V \o <<"/", "u">>, {"PUT"}, <<>>, BeforeBody("PUT"), "none"),
  Reporting(<<"/", "p", "p">>, "ppps"),
  Rule(<<"/", "p", "p", "/", "<str>">>, {"GET", "POST", "DELETE"},
       "POST" :> <<Field(<<A>>, "string"), Field(<<B>>, "string")>>,
       AfterBody("POST") \cup BeforeBody("DELETE"), "ppp")>>

Patterns == {
  <<"/", "a">>, <<"/", "a", "/">>, <<"/", "a", "b">>, <<"/", "<str>">>, <<"/", "<str>", "/", "a">>,
  <<"/", "<int>", "/", "<str>">>, <<"/", "<uint>">>, <<"/", "<double>", "<path>">>,
  <<"/", "a", "<path>">>, <<"/", "a", "/", "<int>", "b">>}
Odd == {[Plain(<<"/", "a">>) EXCEPT !.websocket = TRUE, !.methods = {"PUT"}, !.handled = FALSE],
        [Plain(<<"/", "b">>) EXCEPT !.handled = FALSE],
        Plain(<<>>), Plain(<<"<path>">>)}

(* An application whose handlers look things up in queries. *)
Asking == <<Reporting(<<"/", "a">>, "root")>>

MCScripts ==
  {Nfvi, Asking} \cup {<<Plain(p), Plain(q)>> : p, q \in Patterns} \cup {<<r>> : r \in Odd}
  \cup {<<Plain(<<"/", "<int>">>), Plain(<<"/", "<str>">>), Plain(p)>> : p \in Patterns}

Ask(url, method, body) == [url |-> url, method |-> method, upgrade |-> FALSE, body |-> body]

Segment == {<<"v">>, <<"s">>, <<"p">>, <<"m">>, <<"p", "o">>, <<"p", "p">>, <<"c">>, <<"r">>, <<"1">>, <<"-", "1", "9", "9">>}
Paths(k) == {FlattenSeq([i \in 1 .. k |-> <<"/">> \o s[i]]) : s \in [1 .. k -> Segment]}
NfviUrls == Paths(1) \cup Paths(2) \cup {<<"/", "v", "/", "a">> \o p : p \in Paths(1) \cup Paths(2)}
Urls == {<<"/">> \o s : s \in UNION {[1 .. n -> {"/", "a", "b", "1", "-", "."}] : n \in 0 .. 3}}
        \cup {<<"/", "a", "/">> \o s \o <<"b">> : s \in [1 .. 2 -> {"1", "9", "+", "-"}]}
        \cup {<<"/">> \o s : s \in [1 .. 3 -> {"1", "9"}]}

Quoted(s) == <<"QUOTE">> \o s \o <<"QUOTE">>
Pair(k, v) == Quoted(k) \o <<":">> \o v
Braces(s) == <<"{">> \o s \o <<"}">>
Simple == Braces(Pair(A, Quoted(B)))
WithOptions == Braces(Pair(B, Braces(Pair(E, Quoted(<<"BS", "n", "b">>)))) \o <<",">> \o Pair(A, Quoted(Tap)))
Two(v, w) == Braces(Pair(A, v) \o <<",">> \o Pair(B, w))
Twice(v, w) == Braces(Pair(A, v) \o <<",">> \o Pair(A, w))
Noise == {"QUOTE", "BS", "{", "}", ",", ":", "SP", "1", "a", "NUL", "["}
Garbled(s) == {[s EXCEPT ![i] = c] : i \in DOMAIN s, c \in Noise}

Bodies ==
  Garbled(Simple) \cup Garbled(WithOptions) \cup Garbled(Twice(Quoted(B), Quoted(Tap)))
  \cup {Two(Quoted(A), Quoted(<<"BS", "BS", "e">>)),
        Two(<<"[">> \o Quoted(B) \o <<",", "t", "rue", "]">>, <<"n", "ull">>),
        Braces(Pair(<<"BS", "u", "0", "0", "6", "1">>, Quoted(<<"BS", "u", "0", "8", "0", "0">>))),
        Braces(Pair(<<"BS", "BS">>, <<"[", "]">>) \o <<",">> \o Pair(A, Quoted(<<"BS", "QUOTE">>)) \o <<",">>
               \o Pair(<<>>, <<"{", "SP", "}">>)),
        Twice(Quoted(<<"1">>), <<"1">>), <<"[", "f", "alse", "]">>, <<>>}
  \cup {Braces(Pair(A, s)) : s \in UNION {[1 .. n -> {"0", "1", ".", "e", "-"}] : n \in 1 .. 3}
                                   \cup {Quoted(<<"-", "9", "9">>), <<"1", "0", "0">>, <<"1", "e", "+", "1">>}}

(* Queries of up to three pairs, and some of four; %61 is an a, and the    *)
(* other escapes are of characters that mean something in a query.         *)
Escape(s) == <<"%">> \o s
Special == {<<"2", "6">>, <<"3", "D">>, <<"2", "3">>, <<"2", "B">>, <<"2", "5">>}
QueryKeys == {<<>>, A, <<"a", "b">>, Escape(<<"6", "1">>), <<"a", "[", "]">>, <<"a", "[", "b", "]">>,
              <<"a", "[", "e", "]">>, Escape(<<"2", "5", "6", "1">>), Escape(<<"6">>), <<"a", "+">>}
             \cup {A \o Escape(s) : s \in Special}
QueryValues == {B, <<"+">> \o Escape(<<"2", "6">>) \o A, <<"b", "=", "a">>,
                Escape(<<"3", "D">>) \o Escape(<<"0", "0">>) \o B, <<"[", "%", "6", "]">>}
QueryPairs == {k \o <<"=">> \o v : k \in QueryKeys, v \in QueryValues} \cup {A, <<>>, A \o <<"=">>}
Few == {<<>>, A \o <<"=">>, <<"a", "[", "]", "=", "b">>}
With(first, pairs) == {first \o <<"&">> \o p : p \in pairs}
TwoPairs == UNION {With(<<"/", "a", "?">> \o p, QueryPairs) : p \in QueryPairs}
ThreePairs == UNION {With(<<"/", "a", "?", "a", "[", "b", "]", "=", "1", "&">> \o p, QueryPairs) :
                   p \in Few \cup {Escape(<<"6", "1">>) \o <<"=", "%">>}}
Queries == {<<"/", "a", "?">> \o p : p \in QueryPairs} \cup TwoPairs \cup ThreePairs
           \cup UNION {With(q, Few) : q \in UNION {With(<<"/", "a", "?", "&">> \o p, Few) : p \in Few}}

MCRequests(rs) ==
  IF \A i \in DOMAIN rs : rs[i].report = "root"
  THEN {Ask(u, "GET", <<>>) : u \in Queries}
  ELSE IF Cardinality(DOMAIN rs) < Len(Nfvi)
  THEN {Ask(u, "GET", <<>>) : u \in Urls}
       \cup {[Ask(<<"/", "a">>, "GET", <<>>) EXCEPT !.upgrade = TRUE], Ask(<<"/", "a">>, "PUT", <<>>)}
  ELSE {Ask(u, m, <<>>) : u \in NfviUrls, m \in {"GET", "PUT"}}
       \cup {Ask(<<"/", "p", "p", "/", "a">>, "DELETE", <<>>)}
       \cup {Ask(<<"/", "v", "/", "a", "/", "c", "/", "1">>, "PUT", b) : b \in Bodies}
       \cup {Ask(<<"/", "p", p, "/", "a">>, "POST", b) : p \in {"o", "p"}, b \in Bodies}

MCMessages == {<<"QUOTE", "BS", "a", "BS">>, <<"LF", "NUL", "RS", "HIGH">>}
MCNames == {<<"a">>, <<"QUOTE", "BS">>}
MCCounters == {<<"7">>, <<"9", "5">>, <<"1", "2", "5">>, <<"9", "9", "5">>, <<"1", "3", "5", "1">>}
=============================================================================
