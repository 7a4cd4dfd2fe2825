-------------------------------- MODULE Nfvi --------------------------------
(***************************************************************************)
(* The NFVi's registry (ssn_nfvi.cc): the vectors of VNFs, ports and patch *)
(* panels that the REST thread creates, deletes and configures, and the    *)
(* timer callback that walks the same vectors and objects once a second on *)
(* an lcore of its own, without a lock.                                    *)
(*                                                                         *)
(* The configuration of VNFs is module VnfConfig's; its actions are used   *)
(* here on registered objects only, as the handlers find them by name.  An *)
(* object stands for its name: POST refuses a name that is in use, and an  *)
(* object that was deleted does not come back.  What VNFs of a class share *)
(* is module VnfTables'.                                                   *)
(*                                                                         *)
(* Around that, the life of the program: the timer lcore is launched and a *)
(* timer added to it, the operator stops the program, VNFs are undeployed, *)
(* and the destructor frees the timer, VNFs, ports and panels, in the      *)
(* order in which it does.                                                 *)
(*                                                                         *)
(* Nothing here waits for anything that the code does not wait for.  When  *)
(* the callback, a handler, the destructor or a worker dereferences what   *)
(* is null or freed, misuse says who did it, and the model stops: what the *)
(* client or the program had done before is kept in history variables.     *)
(***************************************************************************)
EXTENDS VnfTables, Naturals, Sequences, SequencesExt

CONSTANTS
  Vnf, Numa, Port, Virt, Panel, NoVnf, NoPort, Lcore, Mask, Garbage, NQueue,
  MaxAcc,
  Program,            \* the catalog names a program registers, in order
  Kind                \* the catalog names VNFs are asked for by

(* Objects of one kind are none of another, nor null.                      *)
ASSUME NfviAssumption ==
  /\ Virt \subseteq Port /\ Vnf \cap Port = {}
  /\ NoVnf \notin Vnf /\ NoPort \notin Port \cup Vnf

VARIABLES
  cname,              \* the name each VNF is asked for by
  phase,              \* of the program
  armed,              \* the timer lcore polls, the timer is armed
  program, vnf_catalog, \* names still to be registered, those that are
  procedure, slot, owner, nacc, acc, panel, mask, grant, launched, running,
  stripped, fresh, crashed,
  vnfs, ports, ppps,  \* the vectors
  freed,              \* VNFs and ports that were deleted
  tpc,                \* where the timer callback is
  n_vnf, ti,          \* its loop over vnfs
  tvnf, tpid,         \* the VNF it looks at, its loop over the VNF's ports
  vi,                 \* run()'s loop over vnfs, when it ends
  misuse,             \* who dereferenced a freed object or a null pointer
  during,             \* history: VNFs that were stripped when the callback
                      \* began, or deleted or detached from since
  orphaned,           \* history: a port was deleted that a panel had
  beside,             \* history: an acl was asked for beside another one
  passed,             \* history: VNFs that is_running() did not tell of
                      \* when run() ended
  overtaken           \* history: the timer was freed under its callback

configVars == <<procedure, slot, owner, nacc, acc, panel, mask, grant,
                launched, running, stripped, fresh, crashed>>
registryVars == <<vnfs, ports, ppps, freed>>
timerVars == <<tpc, n_vnf, ti, tvnf, tpid, during>>
catalogVars == <<program, vnf_catalog>>
pastVars == <<orphaned, beside, passed, overtaken>>
mainVars == <<cname, phase, armed, catalogVars, tableVars, vi>>
onlyPhase == <<cname, armed, catalogVars, tableVars, vi>>
vars == <<mainVars, configVars, registryVars, timerVars, misuse, pastVars>>

(* Clients of any kind. *)
Config == INSTANCE VnfConfig WITH Procedure <- {FALSE}

Live(s) == ToSet(s)

(* vector::erase, where the loop over the names has found the object.      *)
Erased(s, o) == RemoveAt(s, CHOOSE k \in DOMAIN s : s[k] = o)

Init ==
  /\ cname \in Kind /\ NoTables /\ phase = "launched" /\ armed = FALSE
  /\ program \in Program /\ vnf_catalog = <<>>
  /\ Config!Init
  /\ vnfs = <<>> /\ ports = <<>> /\ ppps = <<>>
  /\ freed = {}
  /\ tpc = "idle" /\ n_vnf = 0 /\ ti = 1 /\ tvnf = NoVnf /\ tpid = 0 /\ vi = 0
  /\ misuse = "none"
  /\ during = {} /\ orphaned = FALSE /\ beside = FALSE /\ passed = {} /\ overtaken = FALSE

-----------------------------------------------------------------------------
(* The REST thread.                                                        *)

Running == ~crashed /\ misuse = "none" /\ phase # "exited"
Serving == Running /\ phase = "serving"

Misuse(who, bad) == misuse' = IF bad THEN who ELSE "none"

(* The catalog has an allocator of that name. *)
Allocates(v) == cname[v] \in ToSet(vnf_catalog)

(* POST /vnfs/NAME, up to the allocator. *)
Alloc(v) == Serving /\ v \notin Live(vnfs) \cup freed /\ Allocates(v)

(* VNFs that have workers, those that have one in its loop. *)
Polled == {v \in Vnf : launched[v] # {}}
Busy == {v \in Vnf : running[v] # {}}

(* vnfs.push_back *)
Pushed(v) ==
  /\ vnfs' = Append(vnfs, v)
  /\ UNCHANGED <<cname, phase, armed, catalogVars, vi, configVars, ports, ppps, freed, timerVars,
                 orphaned, passed, overtaken>>

VnfAlloc(v) ==
  /\ Alloc(v) /\ cname[v] \notin {"l3fwd", "acl"}
  /\ Pushed(v) /\ UNCHANGED <<tableVars, misuse, beside>>

L3fwdAlloc(v) ==
  /\ Alloc(v) /\ cname[v] = "l3fwd"
  /\ LpmMade /\ Pushed(v) /\ UNCHANGED <<misuse, beside>>

(* There has been an l3fwd before: the process exits. *)
L3fwdExits(v) ==
  /\ Alloc(v) /\ cname[v] = "l3fwd"
  /\ LpmRefused /\ phase' = "exited"
  /\ UNCHANGED <<cname, armed, catalogVars, vi, configVars, registryVars, timerVars, misuse, pastVars>>

(* The workers of another acl search the context that the constructor, or  *)
(* what undoes it, takes away.                                             *)
AskedForAcl(v) ==
  /\ Alloc(v) /\ cname[v] = "acl"
  /\ beside' = (beside \/ \E u \in Live(vnfs) : cname[u] = "acl")
  /\ Misuse("context", Rebuilt(Busy))

AclAlloc(v) == AskedForAcl(v) /\ AclBuilt(v) /\ Pushed(v)

(* The exception becomes the reply. *)
AclAllocFails(v) ==
  /\ AskedForAcl(v) /\ AclThrows
  /\ UNCHANGED <<cname, phase, armed, catalogVars, vi, configVars, registryVars, timerVars,
                 orphaned, passed, overtaken>>

(* A step that takes something of VNF v away, perhaps during a callback. *)
Taken(v) == during' = IF tpc = "idle" THEN during ELSE during \cup {v}

(* ssn_vnf::is_deletable *)
Deletable(v) == \A i \in Config!Slot : slot[v][i] = NoPort

(* DELETE /vnfs/NAME *)
DelVnf(v) ==
  /\ Serving /\ v \in Live(vnfs)
  /\ Deletable(v)
  /\ vnfs' = Erased(vnfs, v)
  /\ freed' = freed \cup {v}
  /\ Forget(v) /\ Taken(v)
  /\ UNCHANGED <<cname, phase, armed, catalogVars, vi, configVars, ports, ppps,
                 tpc, n_vnf, ti, tvnf, tpid, misuse, pastVars>>

(* POST /ports/NAME *)
AppendPort(p) ==
  /\ Serving /\ p \notin Live(ports) \cup freed
  /\ ports' = Append(ports, p)
  /\ UNCHANGED <<mainVars, configVars, vnfs, ppps, freed, timerVars, misuse, pastVars>>

(* DELETE /ports/NAME asks whether a VNF has the port, not whether a panel *)
(* does.                                                                   *)
DelPort(p) ==
  /\ Serving /\ p \in Live(ports)
  /\ owner[p] = NoVnf
  /\ ports' = Erased(ports, p)
  /\ freed' = freed \cup {p}
  /\ orphaned' = (orphaned \/ Config!Patched(p))
  /\ UNCHANGED <<mainVars, configVars, vnfs, ppps, timerVars, misuse, beside, passed, overtaken>>

(* POST /ppps/NAME *)
PppAlloc(n, r, l) ==
  /\ Serving /\ {r, l} \subseteq Live(ports)
  /\ Config!PppAlloc(n, r, l)
  /\ ppps' = Append(ppps, n)
  /\ UNCHANGED <<mainVars, vnfs, ports, freed, timerVars, misuse, pastVars>>

(* The indices del_ppp searches: it counts the VNFs. *)
Searched == 1 .. Len(vnfs)
FoundPpp(n) == \E i \in Searched : i <= Len(ppps) /\ ppps[i] = n

(* DELETE /ppps/NAME: deletable() reads both ports and the destructor      *)
(* writes to them.  When the search misses the panel an exception is the   *)
(* reply and nothing changes.                                              *)
DelPpp(n) ==
  /\ Serving /\ FoundPpp(n)
  /\ Config!DelPpp(n)
  /\ ppps' = Erased(ppps, n)
  /\ Misuse("panel", panel[n] \cap freed # {})
  /\ UNCHANGED <<mainVars, vnfs, ports, freed, timerVars, pastVars>>

(* The handlers of VnfConfig find the VNF and the port in the vectors. *)
Attach == \E v \in Live(vnfs), i \in Config!Slot, p \in Live(ports) :
            Config!AttachPort(v, i, p)

Dettach == \E v \in Live(vnfs), i \in Config!Slot :
             Config!DettachPort(v, i) /\ Taken(v)

Operate ==
  \E v \in Live(vnfs) :
    \/ Config!Reset(v)
    \/ Config!Deploy(v) \/ Config!DeployRollsBack(v) \/ Config!DeployFails(v) \/ Config!Undeploy(v)
    \/ \E m \in Mask, b \in Config!BlocksOf(v) : Config!SetCoremask(v, b, m)

Configure ==
  /\ Serving
  /\ \/ (Attach \/ Operate) /\ UNCHANGED during
     \/ Dettach
  /\ UNCHANGED <<mainVars, registryVars, tpc, n_vnf, ti, tvnf, tpid, misuse, pastVars>>

-----------------------------------------------------------------------------
(* The main thread.                                                        *)

(* ssn_nfvi's constructor: ssn_timer_sched_poll_thread reports the lcore's *)
(* state a while after it was launched, add_timer throws before that.      *)
PollThreadStarts ==
  /\ phase = "launched" /\ ~armed
  /\ armed' = TRUE
  /\ UNCHANGED <<cname, phase, catalogVars, tableVars, vi, configVars, registryVars, timerVars, misuse, pastVars>>

AddTimer ==
  /\ phase = "launched"
  /\ phase' = IF armed THEN "registering" ELSE "failed"
  /\ UNCHANGED <<onlyPhase, configVars, registryVars, timerVars, misuse, pastVars>>

(* main fills the catalog; a name that is there already is an exception.   *)
(* register_vnf itself would only say no.                                  *)
RegisterVnf ==
  /\ phase = "registering" /\ program # <<>>
  /\ IF Head(program) \in ToSet(vnf_catalog)
     THEN phase' = "failed" /\ UNCHANGED catalogVars
     ELSE vnf_catalog' = Append(vnf_catalog, Head(program)) /\ program' = Tail(program) /\ UNCHANGED phase
  /\ UNCHANGED <<cname, armed, tableVars, vi, configVars, registryVars, timerVars, misuse, pastVars>>

Run ==
  /\ phase = "registering" /\ program = <<>> /\ phase' = "serving"
  /\ UNCHANGED <<onlyPhase, configVars, registryVars, timerVars, misuse, pastVars>>

(* stop(), by the signal handler, between two requests. *)
Stop ==
  /\ Serving
  /\ phase' = "undeploying"
  /\ UNCHANGED <<onlyPhase, configVars, registryVars, timerVars, misuse, pastVars>>

(* The end of run(): one VNF after the other is undeployed if is_running() *)
(* says yes.                                                               *)
UndeployAll ==
  /\ Running /\ phase = "undeploying" /\ vi < Len(vnfs)
  /\ vi' = vi + 1
  /\ LET v == vnfs[vi + 1] IN
       IF Config!VnfRunning(v)
       THEN Config!Undeploy(v) /\ UNCHANGED passed
       ELSE passed' = passed \cup ({v} \cap Polled) /\ UNCHANGED configVars
  /\ UNCHANGED <<cname, phase, armed, catalogVars, tableVars, registryVars, timerVars, misuse,
                 orphaned, beside, overtaken>>

Returns ==
  /\ Running /\ phase = "undeploying" /\ vi = Len(vnfs)
  /\ phase' = "destructor"
  /\ UNCHANGED <<onlyPhase, configVars, registryVars, timerVars, misuse, pastVars>>

(* del_timer, for the one timer there is: rte_timer_stop fails while the   *)
(* callback runs, which del does not notice.  The timer is freed and the   *)
(* callback goes on.                                                       *)
DelTimer ==
  /\ Running /\ phase = "destructor"
  /\ phase' = "no timer" /\ armed' = FALSE
  /\ overtaken' = (tpc # "idle")
  /\ UNCHANGED <<cname, catalogVars, tableVars, vi, configVars, registryVars, timerVars, misuse,
                 orphaned, beside, passed>>

(* The rest of ~ssn_nfvi: the VNFs, then the ports, then the panels, whose *)
(* destructor writes to the ports on both sides.                           *)
Free ==
  /\ Running
  /\ \/ /\ phase = "no timer" /\ phase' = "no vnfs"
        /\ freed' = freed \cup Live(vnfs) /\ UNCHANGED misuse
     \/ /\ phase = "no vnfs" /\ phase' = "no ports"
        /\ freed' = freed \cup Live(ports) /\ UNCHANGED misuse
     \/ /\ phase = "no ports" /\ phase' = "no ppps"
        /\ Misuse("panel", \E n \in Live(ppps) : panel[n] \cap freed # {})
        /\ UNCHANGED freed
  /\ UNCHANGED <<onlyPhase, configVars, vnfs, ports, ppps, timerVars, pastVars>>

-----------------------------------------------------------------------------
(* The timer lcore: _timercallback.                                        *)

OnlyTimer == UNCHANGED <<mainVars, configVars, registryVars, pastVars>>

NextVnf == ti' = ti + 1 /\ tpc' = IF ti < n_vnf THEN "pick" ELSE "return"

TimerFires ==
  /\ Running /\ armed /\ tpc = "idle" /\ vnfs # <<>>
  /\ n_vnf' = Len(vnfs) /\ ti' = 1
  /\ tpc' = "pick"
  /\ during' = stripped
  /\ UNCHANGED <<tvnf, tpid, misuse>> /\ OnlyTimer

(* nfvi->vnfs[i], which operator[] does not check. *)
TimerPicks ==
  /\ Running /\ tpc = "pick"
  /\ IF ti <= Len(vnfs)
     THEN tvnf' = vnfs[ti] /\ tpc' = "ask" /\ UNCHANGED misuse
     ELSE misuse' = "walk" /\ UNCHANGED <<tvnf, tpc>>
  /\ UNCHANGED <<n_vnf, ti, tpid, during>> /\ OnlyTimer

MutTimerAsks ==
  /\ Running /\ tpc = "ask"
  /\ Misuse("callback", tvnf \in freed)
  /\ tpc' = "update" /\ tpid' = 0 /\ UNCHANGED ti
  /\ UNCHANGED <<n_vnf, tvnf, during>> /\ OnlyTimer

(* if (vnf->is_running()) *)
TimerAsks ==
  /\ Running /\ tpc = "ask"
  /\ Misuse("callback", tvnf \in freed)
  /\ IF Config!VnfRunning(tvnf) THEN tpc' = "update" /\ tpid' = 0 /\ UNCHANGED ti
                                ELSE NextVnf /\ UNCHANGED tpid
  /\ UNCHANGED <<n_vnf, tvnf, during>> /\ OnlyTimer

(* update_stats: ports.at(i)->stats_update_per1sec(), port by port. *)
TimerUpdates ==
  /\ Running /\ tpc = "update"
  /\ Misuse("callback", tvnf \in freed \/ slot[tvnf][tpid] \in freed \cup {NoPort})
  /\ IF tpid + 1 \in Config!Slot
     THEN tpid' = tpid + 1 /\ UNCHANGED <<tpc, ti>>
     ELSE tpid' = 0 /\ NextVnf
  /\ UNCHANGED <<n_vnf, tvnf, during>> /\ OnlyTimer

(* Back in rte_timer_manage, which arms the timer anew; the callback's     *)
(* variables are gone.                                                     *)
TimerReturns ==
  /\ Running /\ tpc = "return"
  /\ Misuse("callback", overtaken)
  /\ tpc' = "idle" /\ n_vnf' = 0 /\ ti' = 1 /\ tvnf' = NoVnf /\ tpid' = 0
  /\ during' = {}
  /\ OnlyTimer

-----------------------------------------------------------------------------
(* The workers of a VNF.                                                   *)

WorkersStart ==
  /\ Running
  /\ \E v \in Vnf : \E b \in Config!BlocksOf(v) : Config!WorkersStart(v, b)
  /\ UNCHANGED <<mainVars, registryVars, timerVars, misuse, pastVars>>

WorkersFault ==
  /\ Running
  /\ \E v \in Vnf : Config!WorkersFault(v)
  /\ UNCHANGED <<mainVars, registryVars, timerVars, misuse, pastVars>>

(* A burst of a VNF that is freed, or has freed ports, or a search of the  *)
(* context of an acl that has lost it.                                     *)
WorkersGo ==
  /\ Running
  /\ \E v \in Busy :
       \/ (v \in freed \/ Config!PortsOf(v) \cap freed # {}) /\ misuse' = "workers"
       \/ Dangling({v}) /\ misuse' = "context"
  /\ UNCHANGED <<mainVars, configVars, registryVars, timerVars, pastVars>>

-----------------------------------------------------------------------------
Rest ==
  \/ \E v \in Vnf : \/ VnfAlloc(v) \/ L3fwdAlloc(v) \/ L3fwdExits(v)
                    \/ AclAlloc(v) \/ AclAllocFails(v) \/ DelVnf(v)
  \/ \E p \in Port : AppendPort(p) \/ DelPort(p)
  \/ \E n \in Panel : DelPpp(n) \/ \E r, l \in Virt : PppAlloc(n, r, l)
  \/ Configure

Timer == TimerFires \/ TimerPicks \/ TimerAsks \/ TimerUpdates \/ TimerReturns

Main ==
  \/ PollThreadStarts \/ AddTimer \/ RegisterVnf \/ Run
  \/ Stop \/ UndeployAll \/ Returns \/ DelTimer \/ Free

Workers == WorkersStart \/ WorkersFault \/ WorkersGo

Next == Rest \/ Timer \/ Main \/ Workers

Spec == Init /\ [][Next]_vars

-----------------------------------------------------------------------------
(* Properties.                                                             *)

(* A registered VNF has registered ports and a port names a registered VNF. *)
AttachmentsAreLive ==
  phase = "serving" =>
  /\ \A v \in Live(vnfs) : Config!PortsOf(v) \subseteq Live(ports) \cup {NoPort}
  /\ \A p \in Live(ports) : owner[p] \in Live(vnfs) \cup {NoVnf}

(* When the timer callback walks past the end of vnfs, a VNF was deleted   *)
(* since it began.  When it follows a pointer that is null or freed, the   *)
(* destructor has overtaken it, or the client has taken something from the *)
(* VNF since it began, or had stripped the VNF before.                     *)
CallbackIsRobbed ==
  /\ misuse = "walk" => during \cap freed # {}
  /\ misuse = "callback" => overtaken \/ tvnf \in during

(* When the deletion of a panel writes to a port that is freed, the client *)
(* has deleted the port first, or has left the panel to the destructor.    *)
PanelIsOrphaned ==
  misuse = "panel" => orphaned \/ (phase = "no ppps" /\ ppps # <<>>)

(* When a VNF or a port of it is freed under its workers, is_running() did *)
(* not tell of them: to the client that stripped the VNF, or to run().     *)
WorkersAreForgotten ==
  \A v \in Busy : v \in freed \/ Config!PortsOf(v) \cap freed # {} => v \in stripped \cup passed

(* When an acl is robbed of its context, there were two acls.              *)
ContextIsShared == misuse = "context" => beside

(* The registry's locks are none, and its checks look at one thing each.   *)
(* Whatever the client does and whenever the program is stopped, what the  *)
(* callback, a panel, the destructor or a worker dereferences is there,    *)
(* but for these causes; and del_vnf and del_port leave no dangling        *)
(* pointer between a VNF and its ports, on either side.                    *)
MisuseHasACause ==
  /\ CallbackIsRobbed /\ PanelIsOrphaned /\ WorkersAreForgotten /\ ContextIsShared
  /\ AttachmentsAreLive
=============================================================================
