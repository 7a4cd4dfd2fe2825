---------------------------- MODULE MCDataPlane -----------------------------
(* Instances of DataPlane for TLC: two VNFs in a row between two NICs. *)
EXTENDS DataPlane, TLC

CONSTANTS V, W, A, B, L, R  \* VNFs, NICs and the two sides of a panel

MCPortOf == V :> (0 :> A @@ 1 :> L) @@ W :> (0 :> R @@ 1 :> B)
MCPeer == L :> R @@ R :> L

Packets(in, que, ip4, out, pass) ==
  [in |-> in, que |-> que, ip4 |-> ip4, out |-> out, pass |-> pass]

Plain == Packets(A, 0, TRUE, 1, TRUE)
NotIp == Packets(A, 1, FALSE, 1, FALSE)
Denied == Packets(A, 0, TRUE, 1, FALSE)
MCFlow == {Plain, NotIp, Denied}

Service(p, n, q, m, k, f, x) ==
  [prog |-> V :> p @@ W :> q, cores |-> V :> n @@ W :> m, watch |-> k,
   flows |-> f, max |-> x]

MCSetup ==
  {Service("l2fwd", 1, "l2fwd", 1, ProdSum(TxChan(L)), {Plain, NotIp}, 2),
   Service("l2fwd", 2, "l2fwd", 1, ConsSum(RxChan(A)), {Plain, NotIp}, 1),
   Service("l2fwd", 1, "l2fwd", 2, NoCounter, {Plain, NotIp}, 3),
   Service("l2fwd", 2, "l2fwd", 2, NoCounter, {Plain, NotIp}, 3),
   Service("l2fwd_numa", 1, "l2fwd", 1, NoCounter, {Plain, NotIp}, 2),
   Service("l3fwd", 1, "acl", 1, ConsSum(RxChan(R)), {Plain, NotIp}, 2),
   Service("acl", 1, "l2fwd", 1, NoCounter, {Plain, Denied}, 3)}
=============================================================================
