---------------------------- MODULE MCVnfDeploy -----------------------------
(* Instances of VnfDeploy for TLC. *)
EXTENDS VnfDeployInv

CONSTANTS A, B, C  \* VNFs

(* A is an l2fwd (one block), B an l2fwd_numa (two). *)
MCNBlock == [v \in Vnf |-> IF v = B THEN 2 ELSE 1]
MCJob == Block

(* lcore 1 is the timer's; 2..4 are workers. *)
MCMaskNarrow == {{2}, {3}, {2, 3}}
MCMaskWide == {{}, {0}, {1}, {2}, {3}, {2, 3}, {3, 4}, {2, 3, 4}}
MCMaskAny == {{0}, {2}}
=============================================================================
