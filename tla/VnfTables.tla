----------------------------- MODULE VnfTables ------------------------------
(***************************************************************************)
(* What the VNFs of one program share without knowing it: the DPDK tables  *)
(* that l3fwd (vnfs/l3fwd.h) and acl (vnfs/acl.h, acl.cc) make when they   *)
(* are created.  DPDK knows a table by its name, and the names are the     *)
(* same for every instance.                                                *)
(*                                                                         *)
(* rte_acl_create returns the context that has the name already, so all    *)
(* acl VNFs classify with one context, and the constructor of each of them *)
(* clears and builds it anew with the rules of all, kept in one vector.    *)
(* rte_lpm_create refuses a name that is taken.                            *)
(*                                                                         *)
(* ssn_vnf has no virtual destructor: deleting a VNF by the pointer that   *)
(* the registry has runs no destructor of its class, which is what the     *)
(* compilers make of it, and the tables stay.                              *)
(***************************************************************************)
EXTENDS FiniteSets

VARIABLES
  lpm,      \* whether the two LPM tables exist
  acx,      \* whether the ACL context exists
  user,     \* VNFs that point to it
  stale     \* VNFs that point to one that was freed

tableVars == <<lpm, acx, user, stale>>

NoTables == lpm = FALSE /\ acx = FALSE /\ user = {} /\ stale = {}

(* setup_lpm for socket 0 and socket 1. *)
LpmMade == ~lpm /\ lpm' = TRUE /\ UNCHANGED <<acx, user, stale>>

(* rte_exit when rte_lpm_create returns null. *)
LpmRefused == lpm /\ UNCHANGED tableVars

(* The constructor of acl_5tuple: a new context, or the one there is. *)
Acx(v) == acx' = TRUE /\ user' = user \cup {v}

(* The constructor of ssn_vnf_acl: add_rule, twice, and build. *)
AclBuilt(v) == Acx(v) /\ UNCHANGED <<lpm, stale>>

(* rte_acl_add_rules or rte_acl_build fails, the constructor throws, and   *)
(* the member acl, which is whole, is destructed: the context is freed.    *)
AclThrows ==
  /\ acx' = FALSE /\ user' = {}
  /\ stale' = stale \cup user
  /\ UNCHANGED lpm

(* build and the destructor of acl_5tuple take the memory away that the    *)
(* workers of the other acl VNFs are searching.                            *)
Rebuilt(running) == user \cap running # {}

(* packet_filter_pass with a context that was freed. *)
Dangling(running) == stale \cap running # {}

Forget(v) ==
  /\ user' = user \ {v} /\ stale' = stale \ {v}
  /\ UNCHANGED <<lpm, acx>>
=============================================================================
