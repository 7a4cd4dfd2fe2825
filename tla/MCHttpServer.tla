---------------------------- MODULE MCHttpServer ----------------------------
(* Instances of HttpServer for TLC: two connections of one worker. *)
EXTENDS HttpServer, TLC

Sends(paced, send) == [comes |-> TRUE, paced |-> paced, send |-> send]
Absent == [comes |-> FALSE, paced |-> TRUE, send |-> <<>>]

Get == Sends(TRUE, <<<<"get">>>>)
Silent == Sends(TRUE, <<>>)

Pair(c, d) == 1 :> c @@ 2 :> d

(* A request is under way, or not yet, when the program is told to stop. *)
Stopped == Pair(Absent, Get)

MCSetup == {
  Stopped,
  Pair(Get, Sends(TRUE, <<<<"get">>, <<"last">>>>)),
  Pair(Silent, Sends(TRUE, <<<<"get">>, <<"nohost">>>>)),
  Pair(Silent, Sends(TRUE, <<<<"expect">>, <<"get">>>>)),
  Pair(Silent, Sends(TRUE, <<<<"bad">>>>)),
  Pair(Silent, Sends(TRUE, <<<<"upgrade">>>>)),
  Pair(Silent, Sends(FALSE, <<<<"get", "last", "get">>>>)),
  Pair(Silent, Sends(FALSE, <<<<"expect", "last">>>>)),
  Pair(Silent, Sends(FALSE, <<<<"get", "bad">>>>))}

MCSignals == [s \in MCSetup |-> IF s = Stopped THEN 2 ELSE 0]
=============================================================================
