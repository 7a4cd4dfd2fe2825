----------------------------- MODULE MCLthread ------------------------------
(* Instances of ThreadLocal for TLC: two lcores and short programs. *)
EXTENDS ThreadLocal, TLC

Case(n, on0, on1, p1, p2, p3, p4) ==
  [main |-> <<>>, num |-> n, root |-> 0 :> on0 @@ 1 :> on1, prog |-> <<p1, p2, p3, p4>>]

Use == <<<<"lock">>, <<"yield">>, <<"unlock">>>>

(* One lcore with threads, the other without. *)
MCMutexOne == Case(1, <<1, 2, 3>>, <<>>, Use, Use, <<<<"trylock">>, <<"unlock">>, <<"lock">>, <<"lock">>, <<"unlock">>>>, <<>>)
MCMutexTwo == Case(2, <<1>>, <<2, 3>>, Use, <<<<"lock">>, <<"unlock">>>>, <<<<"trylock">>, <<"unlock">>>>, <<>>)
MCJoin == Case(2, <<1>>, <<2>>, <<<<"detach">>, <<"join", 2>>, <<"shutdown_all">>>>, <<<<"exit", 7>>>>, <<>>, <<>>)
MCJoinReturn == Case(1, <<1, 3>>, <<>>, <<<<"create", 2, 1>>, <<"join", 3>>, <<"join", 2>>>>, <<<<"yield">>>>, <<>>, <<>>)
MCCond == Case(2, <<1, 3>>, <<2>>, <<<<"wait">>>>, <<<<"signal">>, <<"broadcast">>>>, <<<<"wait">>>>, <<>>)
MCMove == Case(2, <<1>>, <<2>>, <<<<"affinity", 1>>, <<"yield">>, <<"affinity", 0>>>>, <<<<"join", 1>>>>, <<>>, <<>>)
MCSleep == Case(2, <<1>>, <<2>>, <<<<"detach">>, <<"sleep">>>>, <<<<"sleep">>, <<"yield">>>>, <<>>, <<>>)
MCCancel == Case(2, <<1, 2>>, <<>>, <<<<"detach">>, <<"sleep">>>>, <<<<"cancel", 1, 3>>>>, <<>>, <<>>)
MCCancelFar == Case(2, <<1, 3>>, <<2>>, <<<<"detach">>, <<"sleep">>>>, <<<<"cancel", 1, 4>>>>, <<<<"yield">>>>, <<<<"_cancel", 1>>>>)
MCStop == Case(2, <<1>>, <<2, 3>>, <<<<"detach">>, <<"shutdown_all">>>>, <<<<"detach">>, <<"sleep">>>>, <<<<"join", 2>>>>, <<>>)

(* Values of two threads; more keys than there are, and one used again. *)
MCValues ==
  Case(2, <<1>>, <<>>,
       <<<<"key_create", "a">>, <<"key_create", "b">>, <<"create", 2, 1>>, <<"set", "a", 0>>, <<"set", "a", 6>>,
         <<"set", "a", 0>>, <<"set", "a", 9>>, <<"set", "b", 7>>, <<"detach">>>>,
       <<<<"set", "a", 8>>, <<"affinity", 0>>, <<"get", "a">>, <<"detach">>>>, <<>>, <<>>)
MCKeys ==
  Case(2, <<1>>, <<>>,
       <<<<"key_create", "a">>, <<"set", "a", 5>>, <<"key_delete", "a">>, <<"key_create", "b">>,
         <<"key_create", "c">>, <<"key_create", "a">>, <<"get", "c">>, <<"detach">>>>, <<>>, <<>>, <<>>)

(* Lcore 1 is registered and runs a dummy and two functions. *)
Dummy == <<<<"dummy">>>>
MCGreen == [Case(1, <<>>, <<3>>, <<<<"ssn_sleep">>, <<"dead">>>>, <<<<"ssn_yield">>, <<"dead">>>>, Dummy, <<>>)
            EXCEPT !.main = <<<<"register", 1>>, <<"launch", 1, 1>>, <<"launch", 2, 1>>,
                              <<"join", 2>>, <<"join", 1>>, <<"unregister", 1>>>>]
MCGreenTwice == [MCGreen EXCEPT !.main = <<<<"register", 1>>, <<"launch", 1, 1>>, <<"join", 1>>, <<"join", 1>>>>]
MCGreenBrief == [MCGreen EXCEPT !.main = <<<<"register", 1>>, <<"unregister", 1>>>>]

MCSetup == {MCValues, MCKeys, MCGreen, MCGreenTwice, MCGreenBrief, MCMutexOne, MCMutexTwo, MCJoin, MCJoinReturn, MCCond, MCMove, MCSleep, MCCancel, MCCancelFar, MCStop}
=============================================================================
