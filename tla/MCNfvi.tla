------------------------------- MODULE MCNfvi -------------------------------
(* Instances of Nfvi for TLC. *)
EXTENDS Nfvi, TLC

CONSTANTS A, B, P, X, Y, N, M  \* VNFs, ports and panels

MCMask == {{2}}
MCProgram == {<<"l2fwd", "acl", "l3fwd">>, <<"l2fwd", "l2fwd">>}
MCKind ==
  {[v \in {A, B} |-> c] : c \in {"acl", "l3fwd"}}
    \cup {A :> "l2fwd" @@ B :> "no such", B :> "l2fwd" @@ A :> "no such"}

\* The two VNFs differ in nothing, nor do the two ports.
MCSym == Permutations({A, B}) \cup Permutations({X, Y})
=============================================================================
