------------------------------- MODULE Router -------------------------------
(***************************************************************************)
(* The router of crow (routing.h).  The rules of an application are put    *)
(* into a trie, one character at a time; validate() joins the characters   *)
(* to fragments; then handle() looks every url up, trying all branches,    *)
(* and calls the handler of the rule it finds with the parameters it       *)
(* collected by type.                                                      *)
(*                                                                         *)
(* A url is a sequence of characters; in the pattern of a rule a parameter *)
(* ("<int>") is one symbol.                                                *)
(***************************************************************************)
EXTENDS Integers, SequencesExt, FiniteSetsExt

CONSTANTS
  Scripts, \* what an application registers: sequences of rules
           \* [pattern, methods, websocket, handled]
  MaxInt   \* the largest int64_t

VARIABLES
  script,  \* the rules still to be registered
  rules,   \* rules_: from the index of a rule to the rule
  trie,    \* trie_: from the index of a node to the node
  phase,   \* "registering", "serving", or "terminated" by an exception
  request, \* the request being handled
  reply    \* the response, or the handler that was called, with its arguments

routerVars == <<script, rules, trie, phase, request, reply>>

-----------------------------------------------------------------------------
(* The trie.  Node 0 is the head; an index of 0 means there is no node.    *)

Tag == [c \in {"<int>", "<uint>", "<double>", "<str>", "<path>"} |->
          CASE c = "<int>" -> "INT" [] c = "<uint>" -> "UINT" [] c = "<double>" -> "DOUBLE"
            [] c = "<str>" -> "STRING" [] c = "<path>" -> "PATH"]
ParamType == {Tag[c] : c \in DOMAIN Tag}

RULE_SPECIAL_REDIRECT_SLASH == 1

NewNode == [rule_index |-> 0, param |-> [t \in ParamType |-> 0], children |-> <<>>]
NewTrie == 0 :> NewNode

MutIsSimpleNode(node) == \A t \in ParamType : node.param[t] = 0
IsSimpleNode(node) == node.rule_index = 0 /\ \A t \in ParamType : node.param[t] = 0

Edge(node, c) ==
  IF c \in DOMAIN Tag THEN node.param[Tag[c]]
  ELSE IF <<c>> \in DOMAIN node.children THEN node.children[<<c>>] ELSE 0

(* The trie with the edges of a url below node n, and the node they end in. *)
RECURSIVE Grow(_, _, _)
Grow(t, n, url) ==
  IF url = <<>> THEN [trie |-> t, node |-> n]
  ELSE LET c == Head(url)
           new == Cardinality(DOMAIN t)
           linked == IF c \in DOMAIN Tag
                     THEN [t[n] EXCEPT !.param[Tag[c]] = new]
                     ELSE [t[n] EXCEPT !.children = (<<c>> :> new) @@ @]
       IN IF Edge(t[n], c) # 0
          THEN Grow(t, Edge(t[n], c), Tail(url))
          ELSE Grow((new :> NewNode) @@ [t EXCEPT ![n] = linked], new, Tail(url))

(* Trie::add throws when the node it ends in has a rule already.           *)
Taken(t, url) == LET g == Grow(t, 0, url) IN g.trie[g.node].rule_index # 0
Add(t, url, index) ==
  LET g == Grow(t, 0, url) IN [g.trie EXCEPT ![g.node].rule_index = index]

(* Trie::optimize: a node whose children are all simple takes over its     *)
(* grandchildren, again and again; then, or if not, its children are next. *)
RECURSIVE OptimizeNode(_, _)
OptimizeNode(t, n) ==
  LET below == FoldSet(LAMBDA x, acc : OptimizeNode(acc, x), t,
                       {t[n].param[p] : p \in ParamType} \ {0})
      children == below[n].children
      child(f) == below[children[f]]
      merged == [f \in UNION {{g \o h : h \in DOMAIN child(g).children} : g \in DOMAIN children} |->
                   child(Front(f)).children[<<Last(f)>>]]
  IN IF children = <<>> THEN below
     ELSE IF \A f \in DOMAIN children : IsSimpleNode(child(f))
          THEN OptimizeNode([below EXCEPT ![n].children = merged], n)
          ELSE FoldSet(LAMBDA x, acc : OptimizeNode(acc, x), below, Range(children))

-----------------------------------------------------------------------------
(* Trie::find.                                                             *)

Digit == {"0", "1", "9"}
DigitValue == [c \in Digit |-> CASE c = "0" -> 0 [] c = "1" -> 1 [] c = "9" -> 9]
Sign == {"+", "-"}

(* The first position from i on whose character is not in the set.         *)
After(url, i, chars) == Min({j \in i .. Len(url) + 1 : j > Len(url) \/ url[j] \notin chars})

Number(digits) == FoldLeft(LAMBDA v, c : 10 * v + DigitValue[c], 0, digits)

(* strtoll, strtoull and strtod on a url from position i to j - 1, the      *)
(* longest number there: what they return, the text for a double, and       *)
(* whether they set ERANGE.                                                 *)
Signed(sign, digits) == IF sign = "-" THEN -Number(digits) ELSE Number(digits)
Value(type, url, i, start, j) ==
  IF type = "DOUBLE" THEN SubSeq(url, i, j - 1) ELSE Signed(url[i], SubSeq(url, start, j - 1))
ERange(type, v) ==
  CASE type = "INT" -> v \notin -MaxInt - 1 .. MaxInt
    [] type = "UINT" -> v > 2 * MaxInt + 1
    [] type = "DOUBLE" -> FALSE

FirstChar == [INT |-> Digit \cup Sign, UINT |-> Digit \cup {"+"},
              DOUBLE |-> Digit \cup Sign \cup {"."}]

AfterSign(url, i) == IF url[i] \in Sign THEN i + 1 ELSE i
AfterPoint(url, i) == IF i <= Len(url) /\ url[i] = "." THEN After(url, i + 1, Digit) ELSE i
AfterNumber(type, url, start, whole) ==
  IF type = "DOUBLE" /\ (whole > start \/ AfterPoint(url, whole) > whole + 1)
  THEN AfterPoint(url, whole) ELSE whole

NumberAt(type, url, i, start) ==
  LET j == AfterNumber(type, url, start, After(url, start, Digit))
  IN IF url[i] \in FirstChar[type] /\ j > start /\ ~ERange(type, Value(type, url, i, start, j))
     THEN [end |-> j, value |-> Value(type, url, i, start, j)]
     ELSE [end |-> i, value |-> 0]

(* The parameter of a type that starts at position i: its end, or i when   *)
(* there is none, and its value.                                           *)
Param(type, url, i) ==
  LET to(j) == [end |-> j, value |-> SubSeq(url, i, j - 1)]
  IN CASE type = "STRING" -> to(Min({j \in i .. Len(url) + 1 : j > Len(url) \/ url[j] = "/"}))
       [] type = "PATH" -> to(Len(url) + 1)
       [] OTHER -> NumberAt(type, url, i, AfterSign(url, i))

(* A path parameter is kept with the strings.                              *)
Stack == [t \in ParamType |-> IF t = "PATH" THEN "STRING" ELSE t]
NoParams == [s \in ParamType \ {"PATH"} |-> <<>>]

(* The smallest rule index below node n that the rest of the url leads to, *)
(* or 0, and the parameters collected on the way.                          *)
RECURSIVE Find(_, _, _, _, _)
BelowParam(t, url, child, type, param, params) ==
  Find(t, url, child, param.end, [params EXCEPT ![Stack[type]] = Append(@, param.value)])
First(found) ==
  IF found = {} THEN [rule_index |-> 0, params |-> NoParams]
  ELSE CHOOSE r \in found : \A s \in found : r.rule_index <= s.rule_index

Find(t, url, n, pos, params) ==
  LET node == t[n]
      types == {q \in ParamType : node.param[q] # 0 /\ Param(q, url, pos).end > pos}
      fragments == {g \in DOMAIN node.children : IsPrefix(g, SubSeq(url, pos, Len(url)))}
  IN IF pos > Len(url) THEN [rule_index |-> node.rule_index, params |-> params]
     ELSE First({r \in {BelowParam(t, url, node.param[q], q, Param(q, url, pos), params) : q \in types}
                      \cup {Find(t, url, node.children[g], pos + Len(g), params) : g \in fragments} :
                   r.rule_index # 0})

(* The call helper hands over the parameters in the order of the handler's *)
(* arguments, the k-th of a type from the k-th place of its stack.         *)
Parameters(pattern) == SelectSeq(pattern, LAMBDA c : c \in DOMAIN Tag)
Arguments(pattern, params) ==
  LET types == [i \in DOMAIN Parameters(pattern) |-> Stack[Tag[Parameters(pattern)[i]]]]
  IN [i \in DOMAIN types |->
        params[types[i]][Cardinality({j \in 1 .. i : types[j] = types[i]})]]

-----------------------------------------------------------------------------
Nothing == [status |-> 0, index |-> 0, args |-> <<>>]
Status(code) == [Nothing EXCEPT !.status = code]
NoRequest == [url |-> <<>>, method |-> "GET", upgrade |-> FALSE]

RouterInit ==
  /\ script \in Scripts
  /\ rules = <<>>
  /\ trie = NewTrie
  /\ phase = "registering"
  /\ request = NoRequest
  /\ reply = Nothing

(* Router::internal_add_rule_object: indices start at 2; a rule that ends  *)
(* in a slash also takes the url without it, for a redirect.  An exception *)
(* ends the program.                                                       *)
HasSlash(pattern) == Len(pattern) > 1 /\ Last(pattern) = "/"

RegisterRule ==
  /\ phase = "registering" /\ script # <<>>
  /\ LET r == Head(script)
         index == Cardinality(DOMAIN rules) + 2
         added == Add(trie, r.pattern, index)
         slash == HasSlash(r.pattern)
     IN /\ rules' = (index :> r) @@ rules
        /\ script' = Tail(script)
        /\ IF Taken(trie, r.pattern) \/ (slash /\ Taken(added, Front(r.pattern)))
           THEN phase' = "terminated" /\ UNCHANGED trie
           ELSE /\ trie' = IF slash THEN Add(added, Front(r.pattern), RULE_SPECIAL_REDIRECT_SLASH)
                           ELSE added
                /\ UNCHANGED phase
  /\ UNCHANGED <<request, reply>>

(* Router::validate: a rule turned into a websocket is replaced by a rule  *)
(* of its own, with the default methods; a rule without a handler and a    *)
(* head that is not simple are exceptions.                                 *)
Upgraded(r) == IF r.websocket THEN [r EXCEPT !.methods = {"GET"}, !.handled = TRUE] ELSE r

Validate ==
  /\ phase = "registering" /\ script = <<>>
  /\ trie' = OptimizeNode(trie, 0)
  /\ rules' = [i \in DOMAIN rules |-> Upgraded(rules[i])]
  /\ phase' = IF IsSimpleNode(trie[0]) /\ \A i \in DOMAIN rules : rules'[i].handled
              THEN "serving" ELSE "terminated"
  /\ UNCHANGED <<script, request, reply>>

(* Router::handle and Router::handle_upgrade: a rule that is no websocket  *)
(* answers an upgrade with 404, and a websocket a plain request.           *)
Answer(r, found) ==
  LET rule == rules[found.rule_index]
  IN IF found.rule_index = 0 THEN Status(404)
     ELSE IF found.rule_index = RULE_SPECIAL_REDIRECT_SLASH
          THEN [Status(301) EXCEPT !.args = Append(r.url, "/")]
     ELSE IF r.method \notin rule.methods \/ r.upgrade # rule.websocket THEN Status(404)
     ELSE [status |-> 200, index |-> found.rule_index, args |-> Arguments(rule.pattern, found.params)]

Handle(r) ==
  /\ phase = "serving"
  /\ request' = r
  /\ reply' = Answer(r, Find(trie, r.url, 0, 1, NoParams))
  /\ UNCHANGED <<script, rules, trie, phase>>

-----------------------------------------------------------------------------
(* The meaning of rules, without a trie.                                   *)

IsWord(type, s) ==
  LET digits == SelectSeq(s, LAMBDA c : c \in Digit)
      unsigned == IF Head(s) \in Sign THEN Tail(s) ELSE s
      chars == ToSet(unsigned)
  IN /\ s # <<>>
     /\ CASE type = "STRING" -> "/" \notin ToSet(s)
          [] type = "PATH" -> TRUE
          [] type = "INT" -> digits # <<>> /\ chars \subseteq Digit
          [] type = "UINT" -> digits # <<>> /\ chars \subseteq Digit /\ Head(s) # "-"
          [] type = "DOUBLE" -> /\ digits # <<>> /\ chars \subseteq Digit \cup {"."}
                                /\ Cardinality({i \in DOMAIN s : s[i] = "."}) <= 1

Meaning(type, s) ==
  LET n == Number(SelectSeq(s, LAMBDA c : c \in Digit))
  IN IF type \notin {"INT", "UINT"} THEN s ELSE IF Head(s) = "-" THEN -n ELSE n

InRange(type, s) ==
  CASE type = "INT" -> Meaning(type, s) \in -MaxInt - 1 .. MaxInt
    [] type = "UINT" -> Meaning(type, s) <= 2 * MaxInt + 1
    [] OTHER -> TRUE

(* The argument lists with which a pattern matches a url: a parameter      *)
(* takes the longest word of its type.                                     *)
RECURSIVE Readings(_, _)
Readings(pattern, url) ==
  IF pattern = <<>> THEN IF url = <<>> THEN {<<>>} ELSE {}
  ELSE IF Head(pattern) \notin DOMAIN Tag
       THEN IF url # <<>> /\ Head(url) = Head(pattern)
            THEN Readings(Tail(pattern), Tail(url)) ELSE {}
  ELSE LET type == Tag[Head(pattern)]
           words == {k \in DOMAIN url : IsWord(type, SubSeq(url, 1, k))}
           k == Max(words)
           word == SubSeq(url, 1, k)
       IN IF words = {} \/ ~InRange(type, word) THEN {}
          ELSE {<<Meaning(type, word)>> \o rest : rest \in Readings(Tail(pattern), SubSeq(url, k + 1, Len(url)))}

Matches(pattern, url) == Readings(pattern, url) # {}

Redirected(r) ==
  \E i \in DOMAIN rules : HasSlash(rules[i].pattern) /\ Matches(Front(rules[i].pattern), r.url)
PromisedBy(r, first) ==
  IF r.method \notin rules[first].methods \/ r.upgrade # rules[first].websocket THEN Status(404)
  ELSE [status |-> 200, index |-> first,
        args |-> CHOOSE a \in Readings(rules[first].pattern, r.url) : TRUE]
Promised(r) ==
  LET matching == {i \in DOMAIN rules : Matches(rules[i].pattern, r.url)}
  IN IF Redirected(r) THEN [Status(301) EXCEPT !.args = Append(r.url, "/")]
     ELSE IF matching = {} THEN Status(404) ELSE PromisedBy(r, Min(matching))

(* Registration ends the program when, and only when, two rules take the   *)
(* same url for themselves (also by the slash at the end of one), a rule   *)
(* has no handler, or a rule starts with a parameter or is empty.          *)
Own(pattern) == {pattern} \cup (IF HasSlash(pattern) THEN {Front(pattern)} ELSE {})
RegistrationRefusesCollisions ==
  phase = "terminated" <=>
     \/ \E i, j \in DOMAIN rules :
          i # j /\ Own(rules[i].pattern) \cap Own(rules[j].pattern) # {}
     \/ /\ script = <<>> /\ phase # "registering"
        /\ \E i \in DOMAIN rules : ~rules[i].handled \/ rules[i].pattern = <<>>
                                     \/ rules[i].pattern[1] \in DOMAIN Tag

(* However rules share their beginnings, whatever validate() merged and    *)
(* whichever branches find() has to give up again, a request is answered   *)
(* by the first registered of the rules that match its url, whose handler  *)
(* gets the parameters in the order of the url; a redirect goes before all *)
(* rules, and a method the first rule does not take is not looked for in   *)
(* another.  An exception of the handler turns its answer into a 500.      *)
(* Rules that could not all be reached are not accepted in the first place.*)
DispatchFollowsRules ==
  /\ RegistrationRefusesCollisions
  /\ reply # Nothing => [reply EXCEPT !.status = IF @ = 500 THEN 200 ELSE @] = Promised(request)
=============================================================================
