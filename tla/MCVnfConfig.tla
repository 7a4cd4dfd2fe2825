---------------------------- MODULE MCVnfConfig -----------------------------
(* Instances of VnfConfig for TLC. *)
EXTENDS VnfConfig

CONSTANTS A, B, P, Q, X, Y, N  \* VNFs, ports and a panel

MCMask == {{2}, {3}, {2, 3}}
=============================================================================
