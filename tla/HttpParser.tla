----------------------------- MODULE HttpParser -----------------------------
(***************************************************************************)
(* The request parser of the REST server: http_parser_execute, a byte by   *)
(* byte automaton that is fed whatever the socket delivers, and crow's     *)
(* HTTPParser (parser.h), whose callbacks put the request together.        *)
(*                                                                         *)
(* A symbol stands for a character, or for the rest of a word the parser   *)
(* compares ("nection" after "con"); a word can be cut between two of its  *)
(* symbols.  One action is one arm of the switch over parser->state, for   *)
(* one byte; an arm that ends in "goto reexecute_byte" leaves the byte to  *)
(* the next action.  The stream of a client is fed twice: first in one     *)
(* piece, then in pieces that end anywhere.                                *)
(***************************************************************************)
EXTENDS Integers, SequencesExt

CONSTANTS
  Streams,    \* what clients send: [asked, text, plain]; plain is FALSE for
              \* a text that does not just spell the requests asked
  ULLONG_MAX, \* the largest content_length, and "there is none"
  MAX_HEADER_SIZE,
  Cut         \* the lengths of pieces

ASSUME ParserAssumption == ULLONG_MAX \in Nat /\ MAX_HEADER_SIZE \in Nat

VARIABLES
  sent,      \* the client's stream
  at,        \* how much of it the parser has been fed
  first,     \* <<>>, then what the first feeding came to
  data, p,   \* the piece being executed, the current byte
  pc,        \* "idle", at the "loop" head, at a "byte", or "closed"
  mark,      \* where url, header_field, header_value and body began, or 0
  ps,        \* http_parser
  cr,        \* the fields of crow's HTTPParser
  requests   \* what handle() was called with

client == <<sent, at, first>>
vars == <<client, data, p, pc, mark, ps, cr, requests>>

-----------------------------------------------------------------------------
(* Characters.                                                             *)

Digit == {"0", "1", "2", "6"}
Value == [c \in Digit \cup {"a"} |->
            CASE c = "0" -> 0 [] c = "1" -> 1 [] c = "2" -> 2 [] c = "6" -> 6
              [] c = "a" -> 10]
Alpha == {"a", "x", "G", "ET", "P", "OST", "UT", "C", "ONNECT", "OPY", "H",
          "con", "nection", "pro", "trans", "up", "grade", "cl", "ose", "chu", "nked"}
LineEnd == {"CR", "LF"}
Separator == LineEnd \cup {"SP", ":", "/", "?", "@", ";", "TTP/"}
IsToken(c) == c \notin Separator
IsUrlChar(c) == c \notin LineEnd \cup {"SP", "?", "#"}
IsUserInfo(c) == c \notin LineEnd \cup {"SP", "?", "#", "/", "@", "TTP/"}

(* Five of the methods, by their letters, and the letter that turns the first guess *)
(* into another method.                                                     *)
Spelling == [GET |-> <<"G", "ET">>, POST |-> <<"P", "OST">>, PUT |-> <<"P", "UT">>,
             CONNECT |-> <<"C", "ONNECT">>, COPY |-> <<"C", "OPY">>]
FirstGuess == {<<"G", "GET">>, <<"P", "POST">>, <<"C", "CONNECT">>}
Turn == {<<"POST", "UT", "PUT">>, <<"CONNECT", "OPY", "COPY">>}

(* parse_url_char: the state after a character of the URL. *)
UrlChar(s, c) ==
  CASE c \in LineEnd \cup {"SP"} -> "dead"
    [] s = "spaces_before_url" /\ c = "/" -> "path"
    [] s \in {"spaces_before_url", "schema"} /\ c \in Alpha -> "schema"
    [] s = "schema" /\ c = ":" -> "schema_slash"
    [] s = "schema_slash" /\ c = "/" -> "schema_slash_slash"
    [] s = "schema_slash_slash" /\ c = "/" -> "server_start"
    [] s = "server_with_at" /\ c = "@" -> "dead"
    [] s \in {"server_start", "server", "server_with_at"} ->
         CASE c = "/" -> "path" [] c = "?" -> "query_string_start"
           [] c = "@" -> "server_with_at" [] IsUserInfo(c) -> "server"
           [] OTHER -> "dead"
    [] s \in {"path", "query_string_start", "query_string"} ->
         CASE IsUrlChar(c) -> IF s = "path" THEN s ELSE "query_string"
           [] c = "?" -> IF s = "path" THEN "query_string_start" ELSE "query_string"
           [] OTHER -> "fragment_start"
    [] s \in {"fragment_start", "fragment"} ->
         IF c = "#" THEN s ELSE "fragment"
    [] OTHER -> "dead"

UrlState == {"schema", "schema_slash", "schema_slash_slash", "server_start",
             "server", "server_with_at", "path", "query_string_start",
             "query_string", "fragment_start", "fragment"}
UrlEnds == UrlState \ {"schema", "schema_slash", "schema_slash_slash", "server_start"}

BodyState == {"chunk_data", "chunk_data_almost_done", "chunk_data_done",
              "body_identity", "message_done"}
ParsingHeader(s) == s \notin BodyState

(* The words that header_field and header_value look for, by the header    *)
(* state in which a symbol is read: the next state, or general.            *)
Matches == {<<"CON", "nection", "connection">>,
            <<"CON", "tent-length", "content_length">>,
            <<"matching_proxy_connection", "xy-connection", "connection">>,
            <<"matching_transfer_encoding", "fer-encoding", "transfer_encoding">>,
            <<"matching_upgrade", "grade", "upgrade">>}
NameState(h, c) ==
  IF \E m \in Matches : m[1] = h /\ m[2] = c
  THEN (CHOOSE m \in Matches : m[1] = h /\ m[2] = c)[3] ELSE "general"

NameStarts(c) ==
  CASE c = "con" -> "CON" [] c = "pro" -> "matching_proxy_connection"
    [] c = "trans" -> "matching_transfer_encoding"
    [] c = "up" -> "matching_upgrade" [] OTHER -> "general"

-----------------------------------------------------------------------------
(* crow's callbacks.                                                       *)

Fresh == [raw_url |-> <<>>, building |-> 0, field |-> <<>>, value |-> <<>>,
          headers |-> <<>>, body |-> <<>>]

Emplace(c) == [c EXCEPT !.headers = Append(@, <<c.field, c.value>>),
                        !.field = <<>>, !.value = <<>>]

OnHeaderField(c, text) ==
  IF c.building = 1 THEN [c EXCEPT !.field = @ \o text]
  ELSE LET e == IF c.value # <<>> THEN Emplace(c) ELSE c
       IN  [e EXCEPT !.field = text, !.building = 1]

OnHeaderValue(c, text) ==
  IF c.building = 0 THEN [c EXCEPT !.value = @ \o text]
                    ELSE [c EXCEPT !.value = text, !.building = 0]

OnHeadersComplete(c) == IF c.field # <<>> THEN Emplace(c) ELSE c

OnData(kind, c, text) ==
  CASE kind = "url" -> [c EXCEPT !.raw_url = @ \o text]
    [] kind = "header_field" -> OnHeaderField(c, text)
    [] kind = "header_value" -> OnHeaderValue(c, text)
    [] kind = "body" -> [c EXCEPT !.body = @ \o text]

(* on_message_complete, with the URL that is routed. *)
UpTo(s, c) == LET i == SelectInSeq(s, LAMBDA x : x = c)
              IN  IF i = 0 THEN s ELSE SubSeq(s, 1, i - 1)
Complete(c) == [method |-> ps.method, raw_url |-> c.raw_url,
                url |-> UpTo(c.raw_url, "?"), headers |-> c.headers,
                body |-> c.body, upgrade |-> ps.upgrade]

-----------------------------------------------------------------------------
NoMarks == [kind \in {"url", "header_field", "header_value", "body"} |-> 0]

(* http_parser_init *)
ParserInit ==
  [state |-> "start_req", header_state |-> "general", flags |-> {},
   method |-> "GET", index |-> 0, content_length |-> 0, nread |-> 0,
   http_major |-> 0, http_minor |-> 0, upgrade |-> FALSE, errno |-> "OK"]

Init ==
  /\ sent \in Streams /\ at = 0 /\ first = <<>>
  /\ data = <<>> /\ p = 1 /\ pc = "idle" /\ mark = NoMarks
  /\ ps = ParserInit /\ cr = Fresh /\ requests = <<>>

(* One arm of the switch. *)
At(s) == pc = "byte" /\ ps.state = s
ch == data[p]
Break == p' = p + 1 /\ pc' = "loop" /\ UNCHANGED <<client, data>>
Reexecute == UNCHANGED <<client, data, p, pc>>
Goto(s) == ps' = [ps EXCEPT !.state = s]
Quiet == UNCHANGED <<mark, cr, requests>>
Mark(kind) == mark' = [mark EXCEPT ![kind] = IF @ = 0 THEN p ELSE @]

(* CALLBACK_DATA, up to the symbol before the current one. *)
CallbackData(kind) ==
  /\ mark' = [mark EXCEPT ![kind] = 0]
  /\ cr' = IF mark[kind] = 0 THEN cr
           ELSE OnData(kind, cr, SubSeq(data, mark[kind], p - 1))
  /\ UNCHANGED requests

(* goto error: execute returns how far it came, feed returns false and the *)
(* connection is closed.                                                   *)
Fail(e) ==
  /\ ps' = [ps EXCEPT !.errno = e] /\ pc' = "closed"
  /\ UNCHANGED <<client, data, p, mark, cr, requests>>

KeepAlive ==
  IF ps.http_major > 0 /\ ps.http_minor > 0
  THEN "CONNECTION_CLOSE" \notin ps.flags
  ELSE "CONNECTION_KEEP_ALIVE" \in ps.flags
NewMessage == IF KeepAlive THEN "start_req" ELSE "dead"

(* CALLBACK_NOTIFY(message_complete) *)
MessageComplete ==
  /\ requests' = Append(requests, Complete(cr))
  /\ UNCHANGED <<mark, cr>>

-----------------------------------------------------------------------------
(* Feeding.                                                                *)

Rest == Len(sent.text) - at
Piece == IF first = <<>> THEN {Rest}
         ELSE IF sent.plain THEN {k \in Cut : k <= Rest} \cup {Rest} ELSE {1}

MutFeed ==
  /\ pc = "idle" /\ at < Len(sent.text)
  /\ \E k \in Piece :
       data' = SubSeq(sent.text, at + 1, at + k) /\ at' = at + k
  /\ p' = 1 /\ pc' = "loop"
  /\ mark' = [kind \in DOMAIN mark |->
               IF \/ kind = "header_field" /\ ps.state = "header_field"
                  \/ kind = "url" /\ ps.state \in UrlState
               THEN 1 ELSE 0]
  /\ UNCHANGED <<sent, first, ps, cr, requests>>

(* feed: the mark of a datum that was cut is set to the start of the piece. *)
Feed ==
  /\ pc = "idle" /\ at < Len(sent.text)
  /\ \E k \in Piece :
       data' = SubSeq(sent.text, at + 1, at + k) /\ at' = at + k
  /\ p' = 1 /\ pc' = "loop"
  /\ mark' = [kind \in DOMAIN mark |->
               IF \/ kind = "header_field" /\ ps.state = "header_field"
                  \/ kind = "header_value" /\ ps.state = "header_value"
                  \/ kind = "url" /\ ps.state \in UrlState
               THEN 1 ELSE 0]
  /\ UNCHANGED <<sent, first, ps, cr, requests>>

NextByte ==
  /\ pc = "loop" /\ p <= Len(data)
  /\ LET n == IF ParsingHeader(ps.state) THEN ps.nread + 1 ELSE ps.nread
     IN  IF n > MAX_HEADER_SIZE THEN Fail("HEADER_OVERFLOW")
         ELSE /\ ps' = [ps EXCEPT !.nread = n] /\ pc' = "byte"
              /\ UNCHANGED <<client, data, p>> /\ Quiet

(* The callbacks for what is left over at the end of the piece. *)
DataEnds ==
  /\ pc = "loop" /\ p > Len(data)
  /\ LET left == {kind \in DOMAIN mark : mark[kind] # 0}
     IN  cr' = IF left = {} THEN cr
               ELSE LET kind == CHOOSE k \in left : TRUE
                    IN  OnData(kind, cr, SubSeq(data, mark[kind], p - 1))
  /\ mark' = NoMarks /\ pc' = "idle"
  /\ UNCHANGED <<client, data, p, ps, requests>>

(* done(): the client has closed its side. *)
Done ==
  /\ pc = "idle" /\ at = Len(sent.text)
  /\ IF ps.state \in {"dead", "start_req"} THEN UNCHANGED ps
     ELSE ps' = [ps EXCEPT !.errno = "INVALID_EOF_STATE"]
  /\ pc' = "closed"
  /\ UNCHANGED <<client, data, p, mark, cr, requests>>

(* The same stream again, for a new parser. *)
FeedAgain ==
  /\ pc = "closed" /\ first = <<>>
  /\ first' = <<requests, ps.errno>>
  /\ at' = 0 /\ data' = <<>> /\ p' = 1 /\ pc' = "idle" /\ mark' = NoMarks
  /\ ps' = ParserInit /\ cr' = Fresh /\ requests' = <<>>
  /\ UNCHANGED sent

-----------------------------------------------------------------------------
(* The request line.                                                       *)

Dead ==
  /\ At("dead")
  /\ IF ch \in LineEnd THEN Break /\ Quiet /\ UNCHANGED ps
                       ELSE Fail("CLOSED_CONNECTION")

MutStartReq ==
  /\ At("start_req")
  /\ IF ch \in LineEnd THEN Break /\ Quiet /\ UNCHANGED ps
     ELSE IF \E g \in FirstGuess : g[1] = ch
     THEN /\ ps' = [ps EXCEPT !.state = "req_method",
                      !.content_length = ULLONG_MAX, !.index = 1,
                      !.method = (CHOOSE g \in FirstGuess : g[1] = ch)[2]]
          /\ cr' = Fresh                          \* on_message_begin
          /\ Break /\ UNCHANGED <<mark, requests>>
     ELSE Fail("INVALID_METHOD")

StartReq ==
  /\ At("start_req")
  /\ IF ch \in LineEnd THEN Break /\ Quiet /\ UNCHANGED ps
     ELSE IF \E g \in FirstGuess : g[1] = ch
     THEN /\ ps' = [ps EXCEPT !.state = "req_method", !.flags = {},
                      !.content_length = ULLONG_MAX, !.index = 1,
                      !.method = (CHOOSE g \in FirstGuess : g[1] = ch)[2]]
          /\ cr' = Fresh                          \* on_message_begin
          /\ Break /\ UNCHANGED <<mark, requests>>
     ELSE Fail("INVALID_METHOD")

ReqMethod ==
  /\ At("req_method")
  /\ LET matcher == Spelling[ps.method]
         Step(s, m) == /\ ps' = [ps EXCEPT !.state = s, !.method = m, !.index = @ + 1]
                       /\ Break /\ Quiet
     IN  CASE ps.index = Len(matcher) /\ ch = "SP" -> Step("spaces_before_url", ps.method)
           [] ps.index < Len(matcher) /\ ch = matcher[ps.index + 1] ->
                Step("req_method", ps.method)
           [] \E t \in Turn : ps.index = 1 /\ t[1] = ps.method /\ t[2] = ch ->
                Step("req_method", (CHOOSE t \in Turn : t[1] = ps.method /\ t[2] = ch)[3])
           [] OTHER -> Fail("INVALID_METHOD")

(* The URL begins: with the server after CONNECT. *)
SpacesBeforeUrl ==
  /\ At("spaces_before_url")
  /\ IF ch = "SP" THEN Break /\ Quiet /\ UNCHANGED ps
     ELSE LET s == UrlChar(IF ps.method = "CONNECT" THEN "server_start" ELSE ps.state, ch)
          IN  IF s = "dead" THEN Fail("INVALID_URL")
              ELSE Goto(s) /\ Mark("url") /\ Break /\ UNCHANGED <<cr, requests>>

InUrl(states) ==
  /\ pc = "byte" /\ ps.state \in states
  /\ LET n == UrlChar(ps.state, ch)
     IN  IF n = "dead" THEN Fail("INVALID_URL") ELSE Goto(n) /\ Break /\ Quiet

UrlBegins == InUrl(UrlState \ UrlEnds)

UrlGoesOn ==
  /\ pc = "byte" /\ ch \notin LineEnd \cup {"SP"}
  /\ InUrl(UrlEnds)

(* on_url; a line that ends here is HTTP/0.9. *)
UrlFinished ==
  /\ pc = "byte" /\ ps.state \in UrlEnds /\ ch \in LineEnd \cup {"SP"}
  /\ IF ch = "SP" THEN Goto("http_start")
     ELSE ps' = [ps EXCEPT !.http_major = 0, !.http_minor = 9,
                   !.state = IF ch = "CR" THEN "line_almost_done" ELSE "header_field_start"]
  /\ CallbackData("url") /\ Break

HttpStart ==
  /\ At("http_start")
  /\ CASE ch = "H" -> Goto("http_H") /\ Break /\ Quiet
       [] ch = "SP" -> Break /\ Quiet /\ UNCHANGED ps
       [] OTHER -> Fail("INVALID_CONSTANT")

HttpH ==
  /\ At("http_H")
  /\ IF ch = "TTP/" THEN Goto("first_http_major") /\ Break /\ Quiet ELSE Fail("STRICT")

FirstHttpMajor ==
  /\ At("first_http_major")
  /\ IF ch \in Digit \ {"0"}
     THEN /\ ps' = [ps EXCEPT !.state = "http_major", !.http_major = Value[ch]]
          /\ Break /\ Quiet
     ELSE Fail("INVALID_VERSION")

HttpMajor ==
  /\ At("http_major")
  /\ CASE ch = "." -> Goto("first_http_minor") /\ Break /\ Quiet
       [] ch \in Digit /\ ps.http_major * 10 + Value[ch] <= 999 ->
            /\ ps' = [ps EXCEPT !.http_major = @ * 10 + Value[ch]]
            /\ Break /\ Quiet
       [] OTHER -> Fail("INVALID_VERSION")

FirstHttpMinor ==
  /\ At("first_http_minor")
  /\ IF ch \in Digit
     THEN /\ ps' = [ps EXCEPT !.state = "http_minor", !.http_minor = Value[ch]]
          /\ Break /\ Quiet
     ELSE Fail("INVALID_VERSION")

HttpMinor ==
  /\ At("http_minor")
  /\ CASE ch = "CR" -> Goto("line_almost_done") /\ Break /\ Quiet
       [] ch = "LF" -> Goto("header_field_start") /\ Break /\ Quiet
       [] ch \in Digit /\ ps.http_minor * 10 + Value[ch] <= 999 ->
            /\ ps' = [ps EXCEPT !.http_minor = @ * 10 + Value[ch]]
            /\ Break /\ Quiet
       [] OTHER -> Fail("INVALID_VERSION")

LineAlmostDone ==
  /\ At("line_almost_done")
  /\ IF ch = "LF" THEN Goto("header_field_start") /\ Break /\ Quiet
                  ELSE Fail("LF_EXPECTED")

RequestLine ==
  \/ Dead \/ StartReq \/ ReqMethod \/ SpacesBeforeUrl
  \/ UrlBegins \/ UrlGoesOn \/ UrlFinished
  \/ HttpStart \/ HttpH \/ FirstHttpMajor \/ HttpMajor
  \/ FirstHttpMinor \/ HttpMinor \/ LineAlmostDone

-----------------------------------------------------------------------------
(* Headers, and the trailer of a chunked body.                             *)

HeaderFieldStart ==
  /\ At("header_field_start")
  /\ CASE ch = "CR" -> Goto("headers_almost_done") /\ Break /\ Quiet
       [] ch = "LF" -> Goto("headers_almost_done") /\ Reexecute /\ Quiet
       [] IsToken(ch) ->
            /\ ps' = [ps EXCEPT !.state = "header_field", !.index = 0,
                                !.header_state = NameStarts(ch)]
            /\ Mark("header_field") /\ Break /\ UNCHANGED <<cr, requests>>
       [] OTHER -> Fail("INVALID_HEADER_TOKEN")

HeaderName ==
  /\ At("header_field") /\ IsToken(ch)
  /\ ps' = [ps EXCEPT !.header_state = NameState(@, ch)]
  /\ Break /\ Quiet

(* on_header_field *)
HeaderNameEnds ==
  /\ At("header_field") /\ ~IsToken(ch)
  /\ IF ch \in {":", "CR", "LF"}
     THEN /\ Goto(CASE ch = ":" -> "header_value_discard_ws"
                    [] ch = "CR" -> "header_almost_done"
                    [] ch = "LF" -> "header_field_start")
          /\ CallbackData("header_field") /\ Break
     ELSE Fail("INVALID_HEADER_TOKEN")

DiscardWs ==
  /\ At("header_value_discard_ws") /\ ch \in LineEnd \cup {"SP"}
  /\ CASE ch = "SP" -> UNCHANGED ps
       [] ch = "CR" -> Goto("header_value_discard_ws_almost_done")
       [] ch = "LF" -> Goto("header_value_discard_lws")
  /\ Break /\ Quiet

(* What the first symbol of a value makes of the header's state. *)
ValueStarts(h, c) ==
  CASE h = "transfer_encoding" /\ c = "chu" -> "matching_chunked"
    [] h = "connection" /\ c = "keep" -> "matching_keep_alive"
    [] h = "connection" /\ c = "cl" -> "matching_close"
    [] h = "content_length" -> h
    [] OTHER -> "general"

ValueStart ==
  /\ \/ At("header_value_start")
     \/ At("header_value_discard_ws") /\ ch \notin LineEnd \cup {"SP"}
  /\ IF ps.header_state = "content_length" /\ ch \notin Digit
     THEN Fail("INVALID_CONTENT_LENGTH")
     ELSE /\ ps' = [ps EXCEPT
                      !.state = "header_value", !.index = 0,
                      !.header_state = ValueStarts(@, ch),
                      !.flags = IF ps.header_state = "upgrade" THEN @ \cup {"UPGRADE"} ELSE @,
                      !.content_length = IF ps.header_state = "content_length"
                                         THEN Value[ch] ELSE @]
          /\ Mark("header_value") /\ Break /\ UNCHANGED <<cr, requests>>

(* on_header_value *)
ValueEnds ==
  /\ At("header_value") /\ ch \in LineEnd
  /\ Goto("header_almost_done")
  /\ CallbackData("header_value")
  /\ IF ch = "CR" THEN Break ELSE Reexecute

(* One more digit. *)
ContentLength ==
  /\ At("header_value") /\ ch \notin LineEnd /\ ps.header_state = "content_length"
  /\ IF ch = "SP" THEN Break /\ Quiet /\ UNCHANGED ps
     ELSE IF ch \notin Digit \/ (ULLONG_MAX - 10) \div 10 < ps.content_length
     THEN Fail("INVALID_CONTENT_LENGTH")
     ELSE /\ ps' = [ps EXCEPT !.content_length = @ * 10 + Value[ch]]
          /\ Break /\ Quiet

ValueWord == {<<"matching_chunked", "nked", "transfer_encoding_chunked">>,
              <<"matching_keep_alive", "-alive", "connection_keep_alive">>,
              <<"matching_close", "ose", "connection_close">>}

(* A word that is complete may be followed by spaces only. *)
HeaderValue ==
  /\ At("header_value") /\ ch \notin LineEnd /\ ps.header_state # "content_length"
  /\ LET m == {w \in ValueWord : \/ w[1] = ps.header_state /\ w[2] = ch
                                 \/ w[3] = ps.header_state /\ ch = "SP"}
     IN  ps' = [ps EXCEPT !.header_state =
                  IF m = {} THEN "general" ELSE (CHOOSE w \in m : TRUE)[3]]
  /\ Break /\ Quiet

HeaderAlmostDone ==
  /\ At("header_almost_done")
  /\ IF ch = "LF" THEN Goto("header_value_lws") /\ Break /\ Quiet ELSE Fail("STRICT")

(* A line that begins with a space goes on with the value. *)
HeaderValueLws ==
  /\ At("header_value_lws")
  /\ ps' = IF ch = "SP" THEN [ps EXCEPT !.state = "header_value_start"]
           ELSE [ps EXCEPT !.state = "header_field_start",
                   !.flags = @ \cup
                     CASE ps.header_state = "connection_keep_alive" -> {"CONNECTION_KEEP_ALIVE"}
                       [] ps.header_state = "connection_close" -> {"CONNECTION_CLOSE"}
                       [] ps.header_state = "transfer_encoding_chunked" -> {"CHUNKED"}
                       [] OTHER -> {}]
  /\ Reexecute /\ Quiet

DiscardWsAlmostDone ==
  /\ At("header_value_discard_ws_almost_done")
  /\ IF ch = "LF" THEN Goto("header_value_discard_lws") /\ Break /\ Quiet
                  ELSE Fail("STRICT")

(* An empty value is a callback with no characters. *)
DiscardLws ==
  /\ At("header_value_discard_lws")
  /\ IF ch = "SP" THEN Goto("header_value_discard_ws") /\ Break /\ Quiet
     ELSE /\ Goto("header_field_start")
          /\ cr' = OnHeaderValue(cr, <<>>)
          /\ Reexecute /\ UNCHANGED <<mark, requests>>

(* The empty line: of the trailer, then of the header. *)
TrailerDone ==
  /\ At("headers_almost_done") /\ ch = "LF" /\ "TRAILING" \in ps.flags
  /\ Goto(NewMessage) /\ MessageComplete /\ Break

HeadersAlmostDone ==
  /\ At("headers_almost_done")
  /\ IF ch # "LF" THEN Fail("STRICT")
     ELSE /\ "TRAILING" \notin ps.flags
          /\ ps' = [ps EXCEPT !.state = "headers_done",
                     !.upgrade = "UPGRADE" \in ps.flags \/ ps.method = "CONNECT"]
          /\ cr' = OnHeadersComplete(cr)
          /\ Reexecute /\ UNCHANGED <<mark, requests>>

(* The rest of an upgraded connection is not HTTP: execute returns at once. *)
UpgradeDone ==
  /\ At("headers_done") /\ ps.upgrade
  /\ ps' = [ps EXCEPT !.state = NewMessage, !.nread = 0]
  /\ MessageComplete
  /\ pc' = IF p = Len(data) THEN "idle" ELSE "closed"
  /\ UNCHANGED <<client, data, p>>

HeadersDone ==
  /\ At("headers_done") /\ ~ps.upgrade
  /\ LET s == CASE "CHUNKED" \in ps.flags -> "chunk_size_start"
                [] ps.content_length \in {0, ULLONG_MAX} -> NewMessage
                [] OTHER -> "body_identity"
     IN  /\ ps' = [ps EXCEPT !.state = s, !.nread = 0]
         /\ IF s = NewMessage THEN MessageComplete ELSE Quiet
  /\ Break

Headers ==
  \/ HeaderFieldStart \/ HeaderName \/ HeaderNameEnds \/ DiscardWs
  \/ ValueStart \/ ValueEnds \/ ContentLength \/ HeaderValue
  \/ HeaderAlmostDone \/ HeaderValueLws \/ DiscardWsAlmostDone \/ DiscardLws
  \/ TrailerDone \/ HeadersAlmostDone \/ UpgradeDone \/ HeadersDone

-----------------------------------------------------------------------------
(* Bodies.                                                                 *)

ToRead == IF ps.content_length < Len(data) + 1 - p
          THEN ps.content_length ELSE Len(data) + 1 - p

(* As much of the body as the piece has; the last byte is looked at twice. *)
BodyIdentity ==
  /\ At("body_identity")
  /\ IF ToRead = ps.content_length
     THEN /\ ps' = [ps EXCEPT !.state = "message_done", !.content_length = 0]
          /\ p' = p + ToRead - 1
          /\ cr' = OnData("body", cr, SubSeq(data, p, p'))
          /\ UNCHANGED <<client, data, pc, mark, requests>>
     ELSE /\ ps' = [ps EXCEPT !.content_length = @ - ToRead]
          /\ Mark("body") /\ p' = p + ToRead /\ pc' = "loop"
          /\ UNCHANGED <<client, data, cr, requests>>

MessageDone ==
  /\ At("message_done")
  /\ Goto(NewMessage) /\ MessageComplete /\ Break

Unhex(c) == c \in DOMAIN Value

ChunkSizeStart ==
  /\ At("chunk_size_start")
  /\ IF Unhex(ch)
     THEN /\ ps' = [ps EXCEPT !.state = "chunk_size", !.content_length = Value[ch]]
          /\ Break /\ Quiet
     ELSE Fail("INVALID_CHUNK_SIZE")

ChunkSize ==
  /\ At("chunk_size")
  /\ CASE ch = "CR" -> Goto("chunk_size_almost_done") /\ Break /\ Quiet
       [] ch \in {";", "SP"} -> Goto("chunk_parameters") /\ Break /\ Quiet
       [] ~Unhex(ch) /\ ch \notin {"CR", ";", "SP"} -> Fail("INVALID_CHUNK_SIZE")
       [] OTHER ->
            IF (ULLONG_MAX - 16) \div 16 < ps.content_length
            THEN Fail("INVALID_CONTENT_LENGTH")
            ELSE /\ ps' = [ps EXCEPT !.content_length = @ * 16 + Value[ch]]
                 /\ Break /\ Quiet

ChunkParameters ==
  /\ At("chunk_parameters")
  /\ IF ch = "CR" THEN Goto("chunk_size_almost_done") ELSE UNCHANGED ps
  /\ Break /\ Quiet

ChunkSizeAlmostDone ==
  /\ At("chunk_size_almost_done")
  /\ IF ch # "LF" THEN Fail("STRICT")
     ELSE /\ ps' = IF ps.content_length = 0
                   THEN [ps EXCEPT !.state = "header_field_start", !.nread = 0,
                                   !.flags = @ \cup {"TRAILING"}]
                   ELSE [ps EXCEPT !.state = "chunk_data", !.nread = 0]
          /\ Break /\ Quiet

ChunkData ==
  /\ At("chunk_data")
  /\ ps' = [ps EXCEPT !.content_length = @ - ToRead,
              !.state = IF ToRead = ps.content_length THEN "chunk_data_almost_done" ELSE @]
  /\ Mark("body") /\ p' = p + ToRead /\ pc' = "loop"
  /\ UNCHANGED <<client, data, cr, requests>>

ChunkDataAlmostDone ==
  /\ At("chunk_data_almost_done")
  /\ IF ch = "CR" THEN Goto("chunk_data_done") /\ CallbackData("body") /\ Break
                  ELSE Fail("STRICT")

ChunkDataDone ==
  /\ At("chunk_data_done")
  /\ IF ch = "LF"
     THEN /\ ps' = [ps EXCEPT !.state = "chunk_size_start", !.nread = 0]
          /\ Break /\ Quiet
     ELSE Fail("STRICT")

Body ==
  \/ BodyIdentity \/ MessageDone
  \/ ChunkSizeStart \/ ChunkSize \/ ChunkParameters \/ ChunkSizeAlmostDone
  \/ ChunkData \/ ChunkDataAlmostDone \/ ChunkDataDone

-----------------------------------------------------------------------------
Next ==
  \/ Feed \/ NextByte \/ DataEnds \/ Done \/ FeedAgain
  \/ RequestLine \/ Headers \/ Body

Spec == Init /\ [][Next]_vars

-----------------------------------------------------------------------------
(* What a client means by the symbols it sends (RFC 2616).                 *)

NewLine == <<"CR", "LF">>
Line(h) == h.name \o <<":", "SP">> \o h.value \o NewLine
Size == <<"1", "2">>
ChunkText(b) == <<Size[Len(b)]>> \o NewLine \o b \o NewLine

Text(r) ==
  Spelling[r.method] \o <<"SP">> \o r.url
  \o <<"SP", "H", "TTP/", "1", ".", r.minor>> \o NewLine
  \o FlattenSeq([i \in DOMAIN r.headers |-> Line(r.headers[i])]) \o NewLine
  \o IF r.chunked
     THEN FlattenSeq([i \in DOMAIN r.body |-> ChunkText(r.body[i])]) \o <<"0">> \o NewLine
          \o FlattenSeq([i \in DOMAIN r.trailer |-> Line(r.trailer[i])]) \o NewLine
     ELSE FlattenSeq(r.body)

(* The headers that reach handle().  Crow's map takes a header when the    *)
(* name of the next comes, unless its value is empty, and the last one     *)
(* when the headers are complete; a trailer is never complete.             *)
LastOf(s) == IF s = <<>> THEN <<>> ELSE <<Last(s)>>
NotEmpty(s) == SelectSeq(s, LAMBDA h : h.value # <<>>)
Kept(r) == NotEmpty(Front(r.headers)) \o LastOf(r.headers) \o NotEmpty(Front(r.trailer))

(* A value that was folded into two lines is one value. *)
Unfolded(s) == SelectSeq(s, LAMBDA c : c \notin LineEnd)
Meaning(r) ==
  [method |-> r.method, raw_url |-> r.url, url |-> UpTo(r.url, "?"),
   headers |-> [i \in DOMAIN Kept(r) |-> <<Kept(r)[i].name, Unfolded(Kept(r)[i].value)>>],
   body |-> FlattenSeq(r.body), upgrade |-> FALSE]

Says(r, word) == [name |-> <<"con", "nection">>, value |-> word] \in ToSet(r.headers \o r.trailer)
Closes(r) == IF r.minor = "0" THEN ~Says(r, <<"keep", "-alive">>)
                              ELSE Says(r, <<"cl", "ose">>)

(* The requests up to the first after which the connection closes. *)
Answerable(asked) ==
  LET n == SelectInSeq(asked, Closes)
  IN  IF n = 0 THEN asked ELSE SubSeq(asked, 1, n)

-----------------------------------------------------------------------------
(* Properties.                                                             *)

(* The assertions in http_parser_execute. *)
AssertionsHold ==
  /\ pc = "loop" /\ p > Len(data) =>
       \A k, l \in DOMAIN mark : mark[k] # 0 /\ mark[l] # 0 => k = l
  /\ At("header_field") /\ IsToken(ch) =>
       ps.header_state \in {"general", "CON", "connection", "content_length",
         "transfer_encoding", "upgrade", "matching_proxy_connection",
         "matching_transfer_encoding", "matching_upgrade"}
  /\ At("header_value") => ps.header_state \notin {"connection", "transfer_encoding"}
  /\ At("body_identity") \/ At("chunk_data") => ps.content_length \notin {0, ULLONG_MAX}
  /\ At("chunk_size_start") => ps.nread = 1
  /\ At("chunk_data_almost_done") => ps.content_length = 0
  /\ pc = "byte" /\ ps.state \in {"chunk_size_start", "chunk_size", "chunk_parameters",
       "chunk_size_almost_done", "chunk_data", "chunk_data_almost_done", "chunk_data_done"}
     => "CHUNKED" \in ps.flags

(* What handle() is called with is what the client meant, request by       *)
(* request: the method although it is first guessed, names and values that *)
(* were cut and folded, the body by its length or by its chunks, nothing   *)
(* left from the request before, no header joined to another.  Two things  *)
(* are lost, and only these: a header with an empty value that another     *)
(* follows, and the last header of a trailer.  After a request that closes *)
(* the connection nothing more is taken.  No assertion fails on the way,   *)
(* in garbled streams either.                                              *)
DeliversWhatWasAsked ==
  /\ pc = "closed" /\ sent.plain =>
       LET answerable == Answerable(sent.asked)
       IN  /\ requests = [i \in DOMAIN answerable |-> Meaning(answerable[i])]
           /\ ps.errno = IF answerable = sent.asked THEN "OK" ELSE "CLOSED_CONNECTION"
  /\ AssertionsHold

(* How the stream is cut into pieces makes no difference to what is        *)
(* delivered nor to whether it is refused, garbled or not; where an        *)
(* upgrade ends HTTP the pieces do matter, as execute then returns early.  *)
PiecesDoNotMatter ==
  pc = "closed" /\ first # <<>> /\ (\A i \in DOMAIN requests : ~requests[i].upgrade)
    => first = <<requests, ps.errno>>

=============================================================================
