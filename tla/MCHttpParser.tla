---------------------------- MODULE MCHttpParser ----------------------------
(* Streams of one or two requests, plain, unusual, cut short and garbled. *)
EXTENDS HttpParser, TLC

Header(n, v) == [name |-> n, value |-> v]
Host == Header(<<"ho", "st">>, <<"x">>)
Other == Header(<<"con", "x">>, <<"chu", "SP", "cl">>)
Folded == Header(<<"a">>, <<"x", "CR", "LF", "SP", "x">>)
Empty == Header(<<"x">>, <<>>)
Length(v) == Header(<<"con", "tent-length">>, v)
Chunked == Header(<<"trans", "fer-encoding">>, <<"chu", "nked">>)
Close == Header(<<"con", "nection">>, <<"cl", "ose">>)
Keep == Header(<<"con", "nection">>, <<"keep", "-alive">>)
Upgrade == Header(<<"up", "grade">>, <<"x">>)

Ask(m, u, v, hs, b) == [method |-> m, url |-> u, minor |-> v, headers |-> hs,
                        body |-> b, chunked |-> FALSE, trailer |-> <<>>]
AskChunked(m, hs, b, t) == [method |-> m, url |-> <<"/">>, minor |-> "1", headers |-> hs,
                            body |-> b, chunked |-> TRUE, trailer |-> t]

Root == <<"/">>
Query == <<"/", "a", "?", "a", "?", "#", "#", "a", "?", "#">>
Absolute == <<"a", ":", "/", "/", "a", "@", "a", "?", "a", "#", "?">>
Get == Ask("GET", Root, "1", <<>>, <<>>)
Post == Ask("POST", Root, "1", <<Length(<<"2">>)>>, <<<<"a", "CR">>>>)
PutChunks == AskChunked("PUT", <<Host, Chunked>>, <<<<"x", "a">>, <<"x">>>>, <<>>)
Trailing == AskChunked("POST", <<Chunked>>, <<<<"x">>>>, <<Host, Other, Close>>)

Plain(asked) == [asked |-> asked, plain |-> TRUE,
                 text |-> FlattenSeq([i \in DOMAIN asked |-> Text(asked[i])])]
Odd(text) == [asked |-> <<>>, plain |-> FALSE, text |-> text]

PlainStreams == {Plain(s) : s \in {
  <<Get, Post>>,
  <<Post, Get>>,
  <<PutChunks, Post>>,
  <<Ask("GET", Query, "1", <<Host, Other, Folded>>, <<>>)>>,
  <<Ask("GET", Absolute, "1", <<Close>>, <<>>), Get>>,
  <<Ask("COPY", Root, "0", <<Keep, Length(<<"0", "1">>)>>, <<<<"x">>>>), Get>>,
  <<Ask("POST", Root, "0", <<Length(<<"1", "2">>), Empty>>,
        <<[i \in 1 .. 12 |-> "a"]>>), Get>>,
  <<Ask("GET", Root, "1", <<Empty, Host>>, <<>>), Get>>,
  <<Ask("GET", Root, "1", <<Host, Empty, Empty, Folded>>, <<>>), Get>>,
  <<AskChunked("POST", <<Chunked, Empty>>, <<<<"x">>>>, <<Host, Empty, Other>>), Get>>,
  <<Trailing, Get>>, <<Trailing>>}}

Garble(text, noise) ==
  {Odd([text EXCEPT ![i] = c]) : i \in DOMAIN text, c \in noise}
Short(text) == {Odd(SubSeq(text, 1, i)) : i \in DOMAIN text}

Noise == {"SP", "CR", "LF", ":", "?", "@", "#", "a", "6", ";"}

MCStreams ==
  PlainStreams
  \cup {Odd(Text(r)) : r \in {
          Ask("CONNECT", <<"a", ":", "1">>, "1", <<Host>>, <<>>),
          Ask("GET", Root, "1", <<Empty, Host, Upgrade>>, <<>>),
          Ask("GET", Root, "1", <<Length(<<"6", "6">>)>>, <<>>),
          Ask("POST", Root, "1", <<Length(<<"6", "2">>), Empty>>, <<>>),
          Ask("GET", Root, "0", <<Header(<<"pro", "xy-connection">>, <<"keep", "-alive">>)>>, <<>>)}}
  \cup {Odd(Text(Ask("CONNECT", <<"a">>, "1", <<>>, <<>>)) \o Text(Get)),
        Odd(<<"G", "ET", "SP", "/", "CR", "LF">> \o NewLine),
        Odd([i \in 1 .. 61 |-> "CR"])}
  \cup Garble(Text(Ask("POST", <<"a", ":", "/", "/", "a", "@", "a", "/", "#", "a">>, "1",
                       <<Keep, Folded, Length(<<"2">>)>>, <<<<"x", "x">>>>)), Noise)
  \cup Garble(Text(AskChunked("PUT", <<Empty, Chunked>>, <<<<"x", "a">>>>, <<Host>>)) , Noise)
  \cup Short(Text(Post)) \cup Short(Text(Trailing))
=============================================================================
