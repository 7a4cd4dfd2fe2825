------------------------------ MODULE MaAccess ------------------------------
(***************************************************************************)
(* How the queues of a port are dealt out to its accessors.  The same      *)
(* computation is written twice in the sources: for the hardware queues of *)
(* a DPDK port (ssn_ma_port.cc) and for the rings of a virtual port        *)
(* (ssn_ma_ring.h).  Queues and accessors are numbered from 0.             *)
(***************************************************************************)
EXTENDS Integers

Queues(nque) == 0 .. nque - 1
Accessors(nacc) == 0 .. nacc - 1

(* The test both versions make before they deal out, for nacc > 0. *)
Divides(nacc, nque) == nque % nacc = 0

(* Accessor aid gets the aid-th run of nque / nacc consecutive queues. *)
QidsOfAid(aid, nacc, nque) ==
  LET share == nque \div nacc IN {aid * share + i : i \in 0 .. share - 1}
=============================================================================
