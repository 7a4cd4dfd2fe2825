----------------------------- MODULE MCChannels -----------------------------
(* Instances of Pipe and LthreadQueue for TLC, one system at a time. *)
EXTENDS Pipe, LthreadQueue, TLC

CONSTANTS A, C  \* a pipe's device and the client's

VARIABLE runs  \* which of the two

PktSymmetry == Permutations(Pkt)

MCRemote == C :> A

MCQueue == {<<2, "pready">>, <<2, "ready">>, <<1, "cache">>}

Way(queues, own, most, mem, objects) ==
  [queues |-> queues, hand |-> <<own, {}>>, max |-> most, nodes |-> mem, objs |-> objects]

(* Objects go round; many go one way; some are passed on by the receiver.  *)
MCPlan ==
  {Way({<<2, "pready">>, <<1, "cache">>}, {}, <<5, 5>>, 8, {1, 2}),
   Way({<<2, "pready">>}, 1 .. 6, <<6, 0>>, 12, 1 .. 6),
   Way({<<2, "pready">>, <<2, "ready">>}, 1 .. 3, <<3, 2>>, 12, 1 .. 3)}

OnePlan == {Way({<<2, "pready">>}, 1 .. 6, <<6, 0>>, 12, 1 .. 6)}

Init ==
  /\ PipeInit /\ QueueInit
  /\ runs \in {"pipe", "queue"}
  /\ runs = "pipe" => plan = CHOOSE p \in MCPlan : TRUE

Next ==
  \/ runs = "pipe" /\ PipeNext /\ UNCHANGED <<runs, qvars>>
  \/ runs = "queue" /\ QueueNext /\ UNCHANGED <<runs, pvars>>

Spec == Init /\ [][Next]_<<runs, pvars, qvars>>
=============================================================================
