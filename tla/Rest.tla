-------------------------------- MODULE Rest --------------------------------
(***************************************************************************)
(* How the REST server answers one request after another: the router finds *)
(* the rule, the handler of ssn_rest_api.cc loads the body and reads the   *)
(* fields it needs one at a time, and its answer is dumped into the        *)
(* response.  What handlers do to VNFs and ports is modelled elsewhere;    *)
(* here a handler may find its objects or not.                             *)
(*                                                                         *)
(* A rule of the application also has reads: for each method, the fields   *)
(* its handler reads from the body.  A field is [path, how, try, after]:   *)
(* keys, "string" or "int", whether an exception is caught by the handler, *)
(* and the values of the first field with which it is read, {} for any.    *)
(* A rule also has throws: a pair of a method and "before" or "after" when *)
(* its handler may throw an exception of its own, before it has read       *)
(* anything from the body or after it has read all; and report: the kind   *)
(* of its answer to a GET.  The keys of answers are shortened, and one     *)
(* figure stands for several.  The only number handlers read is a          *)
(* coremask, which is narrowed from int64_t to uint32_t.                   *)
(*                                                                         *)
(* The query of a url is parsed with every request; the lookups that a     *)
(* handler may make in it change nothing.                                  *)
(***************************************************************************)
EXTENDS Router, TLC

CONSTANTS
  Precision,   \* how many digits "%g" writes
  CoremaskValues, \* how many values a uint32_t has
  MAX_KEY_VALUE_PAIRS_COUNT, \* how many pairs of a query there is room for
  Requests(_), \* what clients send to an application with some rules:
               \* [url, method, upgrade, body], the url with its query
  Addresses,   \* where buffers of strings are
  Names,       \* names of VNFs, ports and panels
  Messages,    \* texts of exceptions
  Counters     \* digits of the figures they report

Json == INSTANCE Json
Query == INSTANCE Query

VARIABLES
  raw,    \* raw_url
  params, \* url_params of the connection's request
  pc,     \* "idle", "handler", "read", "send" or "crashed"
  doc,    \* req_json
  todo,   \* the fields still to be read
  got,    \* the fields read, with what came of it
  answer, \* the wvalue the handler returns, or None
  sent    \* the body of the response

queryVars == <<raw, params>>
vars == <<routerVars, queryVars, pc, doc, todo, got, answer, sent>>

None == Json!wvalue("Null", <<>>, <<>>)

Init ==
  /\ RouterInit
  /\ raw = <<>> /\ params = Query!Made(<<>>, 0)
  /\ pc = "idle" /\ doc = Json!Invalid /\ todo = <<>> /\ got = <<>>
  /\ answer = None /\ sent = <<>>

Idle == pc = "idle" /\ UNCHANGED <<queryVars, pc, doc, todo, got, answer, sent>>

(* The parser takes the query from the raw url and copies itself to the    *)
(* request, which is moved to the connection's.                            *)
BeforeQuery(url) == SubSeq(url, 1, Min({i \in DOMAIN url : url[i] = "?"} \cup {Len(url) + 1}) - 1)
url_params(url, at) == Query!Moved(Query!Copied(Query!Made(url, 10), at), 10)

Receive ==
  /\ pc = "idle"
  /\ \E r \in Requests(rules), at \in Addresses :
       /\ Handle([r EXCEPT !.url = BeforeQuery(r.url)])
       /\ raw' = r.url
       /\ params' = url_params(r.url, at)
  /\ pc' = IF reply'.status = 200 THEN "handler" ELSE "send"
  /\ UNCHANGED <<doc, todo, got, answer, sent>>

(* The pointer past the pairs is none, before the request reaches the      *)
(* router.                                                                 *)
ReceiveTooMany ==
  /\ pc = "idle" /\ phase = "serving"
  /\ \E r \in Requests(rules) : Query!Overrun(Append(r.url, "NUL")) /\ raw' = r.url
  /\ pc' = "crashed"
  /\ UNCHANGED <<routerVars, params, doc, todo, got, answer, sent>>

Str(x) == Json!wvalue("String", x, <<>>)
Num(digits) == Json!wvalue("Number", digits, <<>>)
Flag(b) == Json!wvalue(IF b THEN "True" ELSE "False", <<>>, <<>>)

(* The answers of ssn_json.cc, by assignments to members of a wvalue.  A   *)
(* list is an object with numbers for keys, and null when it is empty.     *)
Put(w, members) == FoldLeft(LAMBDA x, m : Json!Set(x, m[1], m[2]), w, members)
Listed(w, infos) == Put(w, [i \in DOMAIN infos |-> <<<<Json!Digits[i]>>, infos[i]>>])

responce_info(success, msg) == Put(None, <<<<<<"a">>, Flag(success)>>, <<<<"b">>, Str(msg)>>>>)
core_info(f) == Put(None, <<<<<<"e">>, Num(f)>>, <<<<"f">>, Str(<<"u">>)>>>>)
cpu_info(f) == Listed(Put(None, <<<<<<"e">>, Num(f)>>>>), <<core_info(f)>>)
mempool_info(name, f) == Put(None, <<<<<<"n">>, Str(name)>>, <<<<"e">>, Num(f)>>>>)
nfvi_info(f) == Put(None, <<<<<<"e">>, Num(f)>>, <<<<"t">>, Listed(None, <<core_info(f)>>)>>>>)
vnf_port_info(name, f) ==
  Put(None, <<<<<<"n">>, Str(name)>>, <<<<"e">>, Num(f)>>, <<<<"a">>, Str(<<"n", "ull">>)>>>>)
pnic_info(f) == Put(None, <<<<<<"e">>, Num(f)>>, <<<<"f">>, Num(f)>>>>)
vnf_block_info(name, f) == Put(None, <<<<<<"n">>, Str(name)>>, <<<<"e">>, Num(f)>>, <<<<"u">>, Flag(TRUE)>>>>)
vnf_info(name, f, ports) ==
  Put(None, <<<<<<"n">>, Str(name)>>, <<<<"e">>, Num(f)>>,
              <<<<"b">>, Listed(None, <<vnf_block_info(name, f)>>)>>,
              <<<<"t">>, Listed(None, ports)>>>>)
ppp_info(name, f) ==
  Put(None, <<<<<<"n">>, Str(name)>>, <<<<"a">>, Flag(FALSE)>>, <<<<"t">>, vnf_port_info(name, f)>>>>)

Result(success, msg) == Json!Set(None, <<"t">>, responce_info(success, msg))
Success == Result(TRUE, <<>>)
Failure == Result(FALSE, <<"a">>)
Counted(infos) == Listed(Put(Success, <<<<<<"n">>, Num(<<Json!Digits[Len(infos) + 1]>>)>>>>), infos)
Single(info) == Put(Success, <<<<<<"e">>, info>>>>)

(* What the GET handlers answer when there is one object, or none.         *)
AnyNumber(info) == {Counted(<<>>), Counted(<<info>>)}
Vnfs(name, f) == {vnf_info(name, f, ports) : ports \in {<<>>, <<Str(<<"n">>)>>, <<vnf_port_info(name, f)>>}}

addroute__(f) == {Put(Success, <<<<<<"u">>, Num(f)>>, <<<<"e">>, Flag(TRUE)>>>>)}
addroute__system(f) == {Put(Single(nfvi_info(f)), <<<<<<"n">>, Num(f)>>>>)}
addroute__system_cpu(f) == {Counted(<<cpu_info(f)>>)}
addroute__system_mem(name, f) == {Counted(<<mempool_info(name, f)>>)}
addroute__system_pnic(f) == AnyNumber(pnic_info(f))
addroute__vnfs(name, f) == UNION {AnyNumber(v) : v \in Vnfs(name, f)}
addroute__vnfs_NAME(name, f) == {Single(v) : v \in Vnfs(name, f)}
addroute__ports(name, f) == AnyNumber(vnf_port_info(name, f))
addroute__ports_NAME(name, f) == {Single(vnf_port_info(name, f))}
addroute__ppps(name, f) == AnyNumber(ppp_info(name, f))
addroute__ppps_NAME(name, f) == {Single(ppp_info(name, f))}
addroute__catalogs_vnf(name, f) == AnyNumber(mempool_info(name, f))

Answers(kind, name, f) ==
  CASE kind = "root" -> addroute__(f)
    [] kind = "system" -> addroute__system(f)
    [] kind = "cpu" -> addroute__system_cpu(f)
    [] kind = "mem" -> addroute__system_mem(name, f)
    [] kind = "pnic" -> addroute__system_pnic(f)
    [] kind = "vnfs" -> addroute__vnfs(name, f)
    [] kind = "vnf" -> addroute__vnfs_NAME(name, f)
    [] kind = "ports" -> addroute__ports(name, f)
    [] kind = "port" -> addroute__ports_NAME(name, f)
    [] kind = "ppps" -> addroute__ppps(name, f)
    [] kind = "ppp" -> addroute__ppps_NAME(name, f)
    [] kind = "catalog" -> addroute__catalogs_vnf(name, f)
    [] OTHER -> {Success}

Reads ==
  LET rule == rules[reply.index]
  IN IF request.method \in DOMAIN rule.reads THEN rule.reads[request.method] ELSE <<>>

(* A handler that misses an object says so before it looks at the body;    *)
(* one that reports gives the figures of what it found.                    *)
Refuse ==
  /\ pc = "handler"
  /\ answer' = Failure
  /\ pc' = "send"
  /\ UNCHANGED <<routerVars, queryVars, doc, todo, got, sent>>

Kind == IF request.method = "GET" THEN rules[reply.index].report ELSE "done"

Report ==
  /\ pc = "handler" /\ Reads = <<>>
  /\ \E name \in Names, f \in Counters : answer' \in Answers(Kind, name, f)
  /\ pc' = "send"
  /\ UNCHANGED <<routerVars, queryVars, doc, todo, got, sent>>

(* What a handler calls throws: get_coremask() of a block there is not,    *)
(* config_acc() and the making of rings in deploy(), the join in           *)
(* undeploy(), del_ppp() when there are more panels than VNFs, and the     *)
(* constructors of VNFs and panels.  The router catches it.                *)
HandlerThrows ==
  /\ \/ pc = "handler" /\ <<request.method, "before">> \in rules[reply.index].throws
     \/ /\ pc = "read" /\ todo = <<>>
        /\ <<request.method, "after">> \in rules[reply.index].throws
  /\ reply' = [reply EXCEPT !.status = 500]
  /\ pc' = "send"
  /\ UNCHANGED <<script, rules, trie, phase, request, queryVars, doc, todo, got, answer, sent>>

LoadBody ==
  /\ pc = "handler" /\ Reads # <<>>
  /\ doc' = Json!Load(request.body)
  /\ todo' = Reads
  /\ pc' = "read"
  /\ UNCHANGED <<routerVars, queryVars, got, answer, sent>>

Needed(f) == f.after # {} => got[1].value \in f.after

Found(d, path) ==
  UNION {IF Len(path) = 1 THEN {x} ELSE Json!Lookup(x.doc, x.node, path[2])
           : x \in Json!Lookup(d, d.root, path[1])}

Coremask(n) == n % CoremaskValues

(* req_json[...].s() or .i(): a missing key, a value of another type and a *)
(* body that is no JSON throw, and end the handler with an answer of its   *)
(* own, or in the router with a 500.                                       *)
Outcome(f, x) ==
  IF f.how = "string" /\ Json!IsStr(x.doc, x.node)
  THEN [ok |-> TRUE, value |-> Json!Str(x.doc, x.node).value]
  ELSE IF f.how = "int" /\ Json!IsInt(x.doc, x.node)
  THEN [ok |-> TRUE, value |-> <<Coremask(Json!AsInt(x.doc, x.node))>>]
  ELSE [ok |-> FALSE, value |-> <<>>]

ReadField ==
  /\ pc = "read" /\ todo # <<>> /\ Needed(Head(todo))
  /\ LET f == Head(todo)
     IN \E x \in Found(doc, f.path) :
          LET o == Outcome(f, x)
          IN /\ got' = Append(got, o)
             /\ doc' = IF o.ok /\ f.how = "string" THEN Json!Str(x.doc, x.node).doc ELSE x.doc
             /\ IF o.ok THEN todo' = Tail(todo) /\ UNCHANGED <<pc, answer, reply>>
                ELSE /\ pc' = "send"
                     /\ IF f.try
                        THEN (\E what \in Messages : answer' = Result(FALSE, what)) /\ UNCHANGED reply
                        ELSE reply' = [reply EXCEPT !.status = 500] /\ UNCHANGED answer
                     /\ UNCHANGED todo
  /\ UNCHANGED <<script, rules, trie, phase, request, queryVars, sent>>

SkipField ==
  /\ pc = "read" /\ todo # <<>> /\ ~Needed(Head(todo))
  /\ todo' = Tail(todo)
  /\ UNCHANGED <<routerVars, queryVars, pc, doc, got, answer, sent>>

(* What the fields ask for is done, or is not possible.                    *)
Carry ==
  /\ pc = "read" /\ todo = <<>>
  /\ answer' \in {Success, Failure}
  /\ pc' = "send"
  /\ UNCHANGED <<routerVars, queryVars, doc, todo, got, sent>>

(* dump(): the members of an object come in any order.                     *)
Send ==
  /\ pc = "send" /\ sent = <<>>
  /\ reply.status # 200 => sent' = <<"a">>
  /\ reply.status = 200 =>
       \E pi \in Permutations(DOMAIN answer.l) :
          sent' = Json!Dump([answer EXCEPT !.l = [i \in DOMAIN answer.l |-> answer.l[pi[i]]]])
  /\ UNCHANGED <<routerVars, queryVars, pc, doc, todo, got, answer>>

Sent ==
  /\ pc = "send" /\ sent # <<>>
  /\ pc' = "idle" /\ doc' = Json!Invalid /\ todo' = <<>> /\ got' = <<>>
  /\ answer' = None /\ sent' = <<>>
  /\ request' = NoRequest /\ reply' = Nothing
  /\ raw' = <<>> /\ params' = Query!Made(<<>>, 0)
  /\ UNCHANGED <<script, rules, trie, phase>>

Next ==
  \/ RegisterRule /\ Idle
  \/ Validate /\ Idle
  \/ Receive \/ ReceiveTooMany
  \/ Refuse \/ Report \/ HandlerThrows \/ LoadBody \/ ReadField \/ SkipField \/ Carry
  \/ Send \/ Sent

Spec == Init /\ [][Next]_vars

-----------------------------------------------------------------------------
(* Properties.                                                             *)

UpToNul(s) ==
  IF "NUL" \in ToSet(s) THEN SubSeq(s, 1, Min({i \in DOMAIN s : s[i] = "NUL"}) - 1) ELSE s
Said == Json!Values(UpToNul(request.body))

(* A handler is given a document exactly when the body, up to a NUL byte,  *)
(* is JSON, and then the document says what the body says: overwriting     *)
(* quotes and shortening keys in the buffer that is still being parsed     *)
(* never reaches a character that is needed later.                         *)
DocumentsAreJson ==
  pc = "read" /\ got = <<>> =>
     IF doc.root = 0 THEN Said = {} ELSE Said = {Json!Tree(doc, doc.root)}

Members(v, key) ==
  IF v.t = "Object" THEN {v.l[i][2] : i \in {j \in DOMAIN v.l : v.l[j][1] = key}} ELSE {}
Given(path) ==
  UNION {IF Len(path) = 1 THEN Members(v, path[1])
         ELSE UNION {Members(m, path[2]) : m \in Members(v, path[1])} : v \in Said}
WholeNumber(s) == Json!Unsigned(s) # <<>> /\ Json!AllDigits(Json!Unsigned(s))
Fits(n) == n \in -MaxInt - 1 .. MaxInt
Asked(f) ==
  {[ok |-> TRUE, value |-> v.s] : v \in {w \in Given(f.path) : f.how = "string" /\ w.t = "String"}}
  \cup {[ok |-> TRUE, value |-> <<Coremask(Json!Int64(v.s))>>] :
          v \in {w \in Given(f.path) : /\ f.how = "int" /\ w.t \in {"Number", "String"}
                                       /\ WholeNumber(w.s) /\ Fits(Json!Int64(w.s))}}
(* A value of the wrong type, also beside others of the same key, throws.  *)
MayThrow(f) ==
  \/ Given(f.path) = {}
  \/ \E v \in Given(f.path) :
       IF f.how = "string" THEN v.t # "String"
       ELSE v.t \notin {"Number", "String"} \/ ~WholeNumber(v.s) \/ ~Fits(Json!Int64(v.s))

Throws(when) == <<request.method, when>> \in rules[reply.index].throws

(* Whatever a handler read before, in whatever order the sort left equal   *)
(* keys and however often a string was read, each field it reads is a      *)
(* value that the body gives for it, a coremask as far as a uint32_t holds *)
(* it, or an exception when the body does not give one of the right type   *)
(* and nothing else.  After such a field no other is read and the request  *)
(* is refused, with 500 where the handler does not catch it; there is no   *)
(* other 500 but for an exception of a handler that throws one itself,     *)
(* with no field read or with all of them read well.                       *)
FieldsAreTheBodys ==
  LET wanted == SelectSeq(Reads, Needed)
      failed == got # <<>> /\ ~Last(got).ok
      handled == reply.status \in {200, 500} /\ pc = "send"
  IN /\ pc = "read" \/ handled =>
          \A i \in DOMAIN got : IF got[i].ok THEN got[i] \in Asked(wanted[i])
                               ELSE MayThrow(wanted[i]) /\ i = Len(got)
     /\ handled /\ failed =>
          IF wanted[Len(got)].try
          THEN reply.status = 200 /\ answer \in {Result(FALSE, what) : what \in Messages}
          ELSE reply.status = 500
     /\ reply.status = 500 /\ ~failed =>
          \/ got = <<>> /\ Throws("before")
          \/ Len(got) = Len(wanted) /\ Throws("after")

Figure(s) ==
  IF "e" \notin ToSet(s) THEN Json!ToNumber(s)
  ELSE LET e == Min({i \in DOMAIN s : s[i] = "e"})
           digits == SelectSeq(SubSeq(s, 1, e - 1), LAMBDA c : c # ".")
       IN Json!ToNumber(digits) * 10 ^ (Json!ToNumber(SubSeq(s, e + 2, Len(s))) - Len(digits) + 1)
Near(s, n) ==
  LET off == Figure(s) - Json!ToNumber(n)
      unit == IF Len(n) > Precision THEN 10 ^ (Len(n) - Precision) ELSE 0
  IN off * 2 \in -unit .. unit

RECURSIVE Same(_, _)
Same(v, w) ==
  /\ v.t = w.t
  /\ v.t = "String" => v.s = w.s
  /\ v.t = "Number" => Near(v.s, w.s)
  /\ Len(v.l) = Len(w.l)
  /\ v.t = "List" => \A i \in DOMAIN v.l : Same(v.l[i], w.l[i])
  /\ v.t = "Object" => \A i \in DOMAIN w.l : \E j \in DOMAIN v.l :
                          v.l[j][1] = w.l[i][1] /\ Same(v.l[j][2], w.l[i][2])

(* A client that parses an answer finds in it what the handler put there:  *)
(* every string, whatever is in it, and every figure as far as the six     *)
(* digits that "%g" writes go.                                             *)
AnswersSurvive ==
  reply.status = 200 /\ sent # <<>> =>
     \E d \in {Json!Load(sent)} : d.root # 0 /\ Same(Json!Tree(d, d.root), answer)

RECURSIVE Decoded(_)
Decoded(s) ==
  IF s = <<>> THEN <<>>
  ELSE <<Query!Unit(s, 1).c>> \o Decoded(SubSeq(s, Query!Unit(s, 1).next, Len(s)))
Cut(s, c) == Min({i \in DOMAIN s : s[i] = c} \cup {Len(s) + 1})
RECURSIVE Pairs(_)
Pairs(s) ==
  LET pair == SubSeq(s, 1, Cut(s, "&") - 1)
  IN <<[key |-> SubSeq(pair, 1, Cut(pair, "=") - 1),
        value |-> UpToNul(Decoded(SubSeq(pair, Cut(pair, "=") + 1, Len(pair))))]>>
     \o (IF Cut(s, "&") > Len(s) THEN <<>> ELSE Pairs(SubSeq(s, Cut(s, "&") + 1, Len(s))))

(* Names a lookup can find: it takes them for encoded ones and decodes     *)
(* them, and reads them as C strings.                                      *)
Clear(name) == ToSet(name) \cap {"%", "&", "=", "#", "+", "NUL"} = {}
Between(key, name) == SubSeq(key, Len(name) + 2, Len(key) - 1)
Bracketed(key, name) ==
  /\ Len(key) > Len(name) + 2 /\ IsPrefix(name \o <<"[">>, key) /\ Last(key) = "]"
  /\ "]" \notin ToSet(Between(key, name))
NamesOf(pairs) == {Decoded(pairs[i].key) : i \in DOMAIN pairs}
StemsOf(pairs) ==
  UNION {{SubSeq(pairs[i].key, 1, k - 1) : k \in {j \in DOMAIN pairs[i].key : pairs[i].key[j] = "["}}
           : i \in DOMAIN pairs}
ValuesOf(pairs, name) ==
  LET those == SelectSeq(pairs, LAMBDA p : Decoded(p.key) = name)
  IN [i \in DOMAIN those |-> those[i].value]

(* No query harms the server but one with more pairs than there is room    *)
(* for.  Of all others, without a fragment, the values a client put into   *)
(* it come out, by the names it gave them: the first of that name, all in  *)
(* order when the name ends in brackets, and each by the key in its        *)
(* brackets when no other name begins alike.  A name or a value may be     *)
(* written with escapes, but a name that has one of % & = # + for itself   *)
(* is not found, as lookups decode it once more; and a value ends at an    *)
(* equals sign that is not escaped, a NUL or a broken escape.  The buffer  *)
(* that pairs point into was copied and moved since it was parsed.         *)
QueryIsFound ==
  LET pairs == Pairs(SubSeq(raw, Cut(raw, "?") + 1, Len(raw)))
      mine(name) == SelectSeq(pairs, LAMBDA p : IsPrefix(name, p.key))
  IN /\ pc = "crashed" => Len(pairs) > MAX_KEY_VALUE_PAIRS_COUNT
     /\ pc = "handler" /\ "?" \in ToSet(raw) /\ "#" \notin ToSet(raw) /\ Len(pairs) <= MAX_KEY_VALUE_PAIRS_COUNT =>
          /\ \A name \in {n \in NamesOf(pairs) \cup {<<"b">>} : Clear(n)} :
               Query!get(params, name) =
                 IF name \in NamesOf(pairs) THEN <<ValuesOf(pairs, name)[1]>> ELSE <<>>
          /\ \A name \in {n \in StemsOf(pairs) : Clear(n)} :
               /\ Query!get_list(params, name) = ValuesOf(pairs, name \o <<"[", "]">>)
               /\ (\A i \in DOMAIN mine(name) : Bracketed(mine(name)[i].key, name)) =>
                    Query!get_dict(params, name) =
                      [key \in {Between(mine(name)[i].key, name) : i \in DOMAIN mine(name)} |->
                         mine(name)[Min({i \in DOMAIN mine(name) :
                                           Between(mine(name)[i].key, name) = key})].value]
=============================================================================
