------------------------------ MODULE VnfConfig -----------------------------
(***************************************************************************)
(* What the REST thread does to VNFs: attaching and detaching ports,       *)
(* patching virtual ports together, reset, coremasks, deploy with the      *)
(* accessors it configures, undeploy.                                      *)
(*                                                                         *)
(* Crow runs one handler at a time, so a handler is one action.  Every     *)
(* handler asks is_running(), which is the conjunction of flags that the   *)
(* workers set themselves when they start: it is false from the reply to   *)
(* deploy until each block has started, and it stays false after a deploy  *)
(* that failed half-way and left a block polling.  What is launched        *)
(* (launched) and what is_running() says (running) are two variables.      *)
(*                                                                         *)
(* The interleaving of one handler with the workers is the business of     *)
(* module VnfDeploy.  Here the workers of one block start together, those  *)
(* that find their vcores gone do so before the next request, and no       *)
(* client gives an lcore to two blocks (Free), so that it is refused only  *)
(* to the block that has it.                                               *)
(***************************************************************************)
EXTENDS MaAccess, FiniteSets

CONSTANTS
  Vnf,
  Numa,       \* the VNFs of class l2fwd_numa; the others are l2fwd
  Port,
  Virt,       \* virtual ports; the others are DPDK ports
  Panel,      \* names of port patch panels
  NoVnf, NoPort,
  Lcore,      \* lcores a coremask can name
  Mask,       \* coremasks a client asks for
  Garbage,    \* a nonzero value of the coremask the constructor never sets
  NQueue,     \* rx and tx queues of every port
  MaxAcc,     \* bound: accesses requested from one port
  Procedure   \* the values of "procedure" below: the clients there are

Slot == {0, 1}            \* every VNF class of the repository has two ports
Side == {"rx", "tx"}

BlocksOf(v) == IF v \in Numa THEN {0, 1} ELSE {0}

ASSUME ConfigAssumption ==
  /\ Numa \subseteq Vnf /\ Virt \subseteq Port
  /\ NoVnf \notin Vnf /\ NoPort \notin Port
  /\ Lcore \subseteq Nat /\ IsFiniteSet(Lcore)
  /\ Mask \subseteq SUBSET Lcore
  /\ Garbage \notin SUBSET Lcore
  /\ NQueue \in Nat \ {0} /\ MaxAcc \in Nat
  /\ Procedure \subseteq BOOLEAN

VARIABLES
  procedure, \* whether the client keeps to the conditions the headers state
             \* and lets the workers start before it goes on
  slot,      \* slot[v][i]: the port attached to v as its port i
  owner,     \* attached_vnf of each port
  nacc,      \* n_rxacc and n_txacc of each port: accesses requested
  acc,       \* accessors configured in the device, or in the rings
  panel,     \* the two ports of each panel, {} when it does not exist
  mask,      \* coremask of each block
  grant,     \* the access ids in the vcores of each VNF
  launched,  \* the blocks of each VNF whose vcores have workers
  running,   \* the blocks of each VNF whose workers have set the flag
  fresh,     \* VNFs reset since a port was attached or detached, which a
             \* client that keeps to the procedure knows
  stripped,  \* history: VNFs that lost a port or its rings while they had
             \* workers and is_running() said no
  crashed    \* the process has died

portVars == <<slot, owner, panel>>
accessVars == <<nacc, acc, mask, grant>>
workerVars == <<launched, running, stripped>>
vars == <<procedure, portVars, accessVars, workerVars, fresh, crashed>>

(* port_rx_acc and port_tx_acc of a vcore: it accesses its VNF's port      *)
(* "slot" with "aid".                                                      *)
Grant == [blk : {0, 1}, lcore : Lcore, side : Side, slot : Slot, aid : Nat]

Zero == [s \in Side |-> 0]

TypeOK ==
  /\ slot \in [Vnf -> [Slot -> Port \cup {NoPort}]]
  /\ owner \in [Port -> Vnf \cup {NoVnf}]
  /\ nacc \in [Port -> [Side -> Nat]]
  /\ acc \in [Port -> [Side -> Nat]]
  /\ panel \in [Panel -> SUBSET Virt]
  /\ DOMAIN mask = Vnf
  /\ \A v \in Vnf : mask[v] \in [BlocksOf(v) -> (SUBSET Lcore) \cup {Garbage}]
  /\ grant \in [Vnf -> SUBSET Grant]
  /\ \A v \in Vnf : \A g \in grant[v] : g.blk \in BlocksOf(v)
  /\ procedure \in BOOLEAN
  /\ \A v \in Vnf : running[v] \subseteq launched[v] /\ launched[v] \subseteq BlocksOf(v)
  /\ launched \in [Vnf -> SUBSET {0, 1}] /\ running \in [Vnf -> SUBSET {0, 1}]
  /\ fresh \subseteq Vnf /\ stripped \subseteq Vnf
  /\ crashed \in BOOLEAN

(* The blocks are allocated with new and coremask is not initialised: each *)
(* block's is 0 or it is not.                                              *)
Init ==
  /\ slot = [v \in Vnf |-> [i \in Slot |-> NoPort]]
  /\ owner = [p \in Port |-> NoVnf]
  /\ nacc = [p \in Port |-> Zero]
  /\ acc = [p \in Port |-> Zero]
  /\ panel = [n \in Panel |-> {}]
  /\ \E odd \in SUBSET (Vnf \X {0, 1}) :
       mask = [v \in Vnf |-> [b \in BlocksOf(v) |->
                               IF <<v, b>> \in odd THEN Garbage ELSE {}]]
  /\ grant = [v \in Vnf |-> {}]
  /\ procedure \in Procedure
  /\ launched = [v \in Vnf |-> {}] /\ running = [v \in Vnf |-> {}]
  /\ fresh = {} /\ stripped = {}
  /\ crashed = FALSE

-----------------------------------------------------------------------------
PortsOf(v) == {slot[v][i] : i \in Slot}
AllAttached(v) == NoPort \notin PortsOf(v)
Patched(p) == \E n \in Panel : p \in panel[n]

(* ssn_vnf::is_running *)
VnfRunning(v) == running[v] = BlocksOf(v)

(* A client that keeps to the procedure waits longer than a worker takes   *)
(* to start.                                                               *)
Settled == procedure => launched = running

(* Any request.  VNFs of S are about to lose a port or its rings: those    *)
(* with workers that is_running() does not tell of are stripped.           *)
Request == ~crashed /\ Settled
Strip(S) ==
  stripped' = stripped \cup {v \in S : launched[v] # {} /\ ~VnfRunning(v)}

(* What a client that keeps to the procedure knows. *)
SetFresh(S) == fresh' = IF procedure THEN S ELSE {}

(* PUT and DELETE /vnfs/NAME/ports/PORTID.                                 *)

AttachPort(v, i, p) ==
  /\ Request /\ ~VnfRunning(v)
  /\ owner[p] = NoVnf
  /\ slot[v][i] = NoPort
  /\ slot' = [slot EXCEPT ![v][i] = p]
  /\ owner' = [owner EXCEPT ![p] = v]
  /\ SetFresh(fresh \ {v})
  /\ UNCHANGED <<procedure, panel, accessVars, workerVars, crashed>>

MutDettachPort(v, i) ==
  /\ Request
  /\ slot[v][i] # NoPort
  /\ owner' = [owner EXCEPT ![slot[v][i]] = NoVnf]
  /\ slot' = [slot EXCEPT ![v][i] = NoPort]
  /\ SetFresh(fresh \ {v}) /\ Strip({v})
  /\ UNCHANGED <<procedure, panel, accessVars, launched, running, crashed>>

(* The accesses requested from the port stay counted. *)
DettachPort(v, i) ==
  /\ Request /\ ~VnfRunning(v)
  /\ slot[v][i] # NoPort
  /\ owner' = [owner EXCEPT ![slot[v][i]] = NoVnf]
  /\ slot' = [slot EXCEPT ![v][i] = NoPort]
  /\ SetFresh(fresh \ {v}) /\ Strip({v})
  /\ UNCHANGED <<procedure, panel, accessVars, launched, running, crashed>>

(* POST /ppps/NAME: new rings, without accessors.  Nothing says that the   *)
(* two ports must differ.                                                  *)
PppAlloc(n, r, l) ==
  /\ Request
  /\ panel[n] = {}
  /\ {r, l} \subseteq Virt
  /\ ~Patched(r) /\ ~Patched(l)
  /\ panel' = [panel EXCEPT ![n] = {r, l}]
  /\ acc' = [p \in Port |-> IF p \in {r, l} THEN Zero ELSE acc[p]]
  /\ UNCHANGED <<procedure, slot, owner, nacc, mask, grant, workerVars, fresh, crashed>>

OwnersOf(n) == {owner[p] : p \in panel[n]} \ {NoVnf}
Deletable(n) == \A v \in OwnersOf(n) : ~VnfRunning(v)

(* DELETE /ppps/NAME. *)
DelPpp(n) ==
  /\ Request
  /\ panel[n] # {} /\ Deletable(n)
  /\ panel' = [panel EXCEPT ![n] = {}]
  /\ acc' = [p \in Port |-> IF p \in panel[n] THEN Zero ELSE acc[p]]
  /\ Strip(OwnersOf(n))
  /\ UNCHANGED <<procedure, slot, owner, nacc, mask, grant, launched, running, fresh, crashed>>

-----------------------------------------------------------------------------
(* PUT /vnfs/NAME/reset.                                                   *)

MutReset(v) ==
  /\ Request /\ ~VnfRunning(v)
  /\ AllAttached(v) /\ launched[v] = {}
  /\ mask' = [mask EXCEPT ![v] = [b \in BlocksOf(v) |-> {}]]
  /\ grant' = [grant EXCEPT ![v] = {}]
  /\ SetFresh(fresh \cup {v})
  /\ UNCHANGED <<procedure, portVars, nacc, acc, workerVars, crashed>>

(* Each block asks for the accesses of one vcore and forgets them again,   *)
(* then the ports count from 0.  When a port is missing the first block    *)
(* asks a null pointer for an access: the check that follows comes too     *)
(* late.  Workers there are find their vcores gone and throw.              *)
Reset(v) ==
  /\ Request /\ ~VnfRunning(v)
  /\ procedure => AllAttached(v)
  /\ IF AllAttached(v) /\ launched[v] = {}
     THEN /\ mask' = [mask EXCEPT ![v] = [b \in BlocksOf(v) |-> {}]]
          /\ grant' = [grant EXCEPT ![v] = {}]
          /\ nacc' = [p \in Port |-> IF p \in PortsOf(v) THEN Zero ELSE nacc[p]]
          /\ SetFresh(fresh \cup {v})
          /\ UNCHANGED crashed
     ELSE /\ crashed' = TRUE
          /\ UNCHANGED <<nacc, mask, grant, fresh>>
  /\ UNCHANGED <<procedure, portVars, acc, workerVars>>

(* What each vcore of block b asks for: an l2fwd reads and writes both     *)
(* ports, a block of an l2fwd_numa reads its own port only.                *)
Asked(v, b) ==
  {a \in Side \X Slot : v \in Numa /\ a[1] = "rx" => a[2] = b}

Rank(m, l) == Cardinality({k \in m : k < l})

MutGrants(v, b, m) ==
  {[blk |-> b, lcore |-> l, side |-> a[1], slot |-> a[2], aid |-> Rank(m, l)] :
     l \in m, a \in Asked(v, b)}

(* request_rx_access and request_tx_access hand out the next id of the     *)
(* port, vcore by vcore in ascending order of lcore.                       *)
Grants(v, b, m) ==
  {[blk |-> b, lcore |-> l, side |-> a[1], slot |-> a[2],
    aid |-> nacc[slot[v][a[2]]][a[1]] + Rank(m, l)] :
     l \in m, a \in Asked(v, b)}

Requested(v, b, m) ==
  [p \in Port |-> [s \in Side |->
     IF \E i \in Slot : slot[v][i] = p /\ <<s, i>> \in Asked(v, b)
     THEN nacc[p][s] + Cardinality(m)
     ELSE nacc[p][s]]]

Vcores(v, b) == IF mask[v][b] = Garbage THEN {} ELSE mask[v][b]

(* What is assumed of every client: lcores of another block are not asked  *)
(* for.  coremask_is_valid should refuse them and does not, see VnfDeploy. *)
Free(v, b, m) ==
  \A w \in Vnf : \A c \in BlocksOf(w) : <<w, c>> # <<v, b>> => m \cap Vcores(w, c) = {}

(* PUT /vnfs/NAME/coremask/BLOCKID. *)
SetCoremask(v, b, m) ==
  /\ Request /\ ~VnfRunning(v)
  /\ mask[v][b] = {}
  /\ AllAttached(v)
  /\ Free(v, b, m)
  /\ procedure => m # {}
  /\ \A p \in Port, s \in Side : Requested(v, b, m)[p][s] <= MaxAcc
  /\ mask' = [mask EXCEPT ![v][b] = m]
  /\ grant' = [grant EXCEPT ![v] = {g \in @ : g.blk # b} \cup Grants(v, b, m)]
  /\ nacc' = Requested(v, b, m)
  /\ UNCHANGED <<procedure, portVars, acc, workerVars, fresh, crashed>>

-----------------------------------------------------------------------------
(* PUT /vnfs/NAME/deploy.                                                  *)

Usable(p) == p # NoPort /\ (p \in Virt => Patched(p))

(* ssn_vnf::deploy after its checks: config_acc of port 0, then of port 1. *)
(* A DPDK port takes 0 accessors without complaint; a virtual one divides  *)
(* by them.                                                                *)
Fits(p) ==
  \A s \in Side :
    IF nacc[p][s] = 0 THEN p \notin Virt ELSE Divides(nacc[p][s], NQueue)

Fatal(p) ==
  /\ p \in Virt
  /\ nacc[p]["rx"] # 0 => Divides(nacc[p]["rx"], NQueue) /\ nacc[p]["tx"] = 0

(* The ports configured: all, or those before the first that does not fit. *)
Configured(v) ==
  {slot[v][i] : i \in {j \in Slot : \A k \in 0..j : Fits(slot[v][k])}}

(* The port at which configuring stops is left with accessors that have no *)
(* valid queue.                                                            *)
Refused(v) ==
  {slot[v][i] : i \in {j \in Slot : ~Fits(slot[v][j]) /\
                                      \A k \in 0..(j-1) : Fits(slot[v][k])}}

DeployChecks(v) ==
  /\ Request /\ ~VnfRunning(v)
  /\ \A i \in Slot : Usable(slot[v][i])
  /\ procedure => v \in fresh /\ \A b \in BlocksOf(v) : mask[v][b] # {}

(* config_acc of both ports. *)
ConfigAcc(v) ==
  acc' = [p \in Port |-> IF p \in Configured(v) THEN nacc[p]
                         ELSE IF p \in Refused(v) THEN Zero ELSE acc[p]]

(* ssn_vnf_block::deploy returns 0: there are vcores and their lcores are  *)
(* not taken, which they are when the block has its workers already.       *)
Launches(v, b) == Vcores(v, b) # {} /\ b \notin launched[v]

(* The blocks launched: those before the first that is not. *)
Launched(v) == {b \in BlocksOf(v) : \A c \in 0 .. b : Launches(v, c)}

Deploy(v) ==
  /\ DeployChecks(v)
  /\ Refused(v) = {} /\ ConfigAcc(v)
  /\ Launched(v) = BlocksOf(v)
  /\ launched' = [launched EXCEPT ![v] = BlocksOf(v)]
  /\ UNCHANGED <<procedure, portVars, nacc, mask, grant, running, stripped, fresh, crashed>>

(* The workers of a VNF that are told to stop, and joined: those of all    *)
(* its blocks but the ones left.  Nobody polls a VNF that has none left.   *)
Stop(v, left) ==
  /\ launched' = [launched EXCEPT ![v] = left]
  /\ running' = [running EXCEPT ![v] = {}]
  /\ stripped' = IF left = {} THEN stripped \ {v} ELSE stripped

(* A block is not launched: undeploy stops those that run.  The rest, its  *)
(* own launches among them, is left: any that did not set the flag in time.*)
DeployRollsBack(v) ==
  /\ DeployChecks(v)
  /\ Refused(v) = {} /\ ConfigAcc(v)
  /\ Launched(v) # BlocksOf(v)
  /\ \E left \in SUBSET ((launched[v] \cup Launched(v)) \ running[v]) : Stop(v, left)
  /\ UNCHANGED <<procedure, portVars, nacc, mask, grant, fresh, crashed>>

(* An exception, which Crow answers, or a division by zero. *)
DeployFails(v) ==
  /\ DeployChecks(v)
  /\ Refused(v) # {} /\ ConfigAcc(v)
  /\ crashed' = \E p \in Refused(v) : Fatal(p)
  /\ UNCHANGED <<procedure, portVars, nacc, mask, grant, workerVars, fresh>>

(* PUT /vnfs/NAME/undeploy. *)
Undeploy(v) ==
  /\ Request /\ VnfRunning(v)
  /\ Stop(v, {})
  /\ UNCHANGED <<procedure, portVars, accessVars, fresh, crashed>>

-----------------------------------------------------------------------------
(* The workers.                                                            *)

(* running = true, at the top of deploy_impl. *)
WorkersStart(v, b) ==
  /\ ~crashed
  /\ b \in launched[v] \ running[v]
  /\ running' = [running EXCEPT ![v] = @ \cup {b}]
  /\ UNCHANGED <<procedure, portVars, accessVars, launched, stripped, fresh, crashed>>

(* rx_burst or tx_burst of a null port, or of one without rings. *)
WorkersFault(v) ==
  /\ ~crashed
  /\ running[v] # {} /\ \E i \in Slot : ~Usable(slot[v][i])
  /\ crashed' = TRUE
  /\ UNCHANGED <<procedure, portVars, accessVars, workerVars, fresh>>

-----------------------------------------------------------------------------
Next ==
  \/ \E v \in Vnf, i \in Slot, p \in Port : AttachPort(v, i, p)
  \/ \E v \in Vnf, i \in Slot : DettachPort(v, i)
  \/ \E n \in Panel, r, l \in Virt : PppAlloc(n, r, l)
  \/ \E n \in Panel : DelPpp(n)
  \/ \E v \in Vnf : Reset(v)
  \/ \E v \in Vnf, m \in Mask : \E b \in BlocksOf(v) : SetCoremask(v, b, m)
  \/ \E v \in Vnf : Deploy(v)
  \/ \E v \in Vnf : DeployRollsBack(v)
  \/ \E v \in Vnf : DeployFails(v)
  \/ \E v \in Vnf : Undeploy(v)
  \/ \E v \in Vnf : \E b \in BlocksOf(v) : WorkersStart(v, b)
  \/ \E v \in Vnf : WorkersFault(v)

Spec == Init /\ [][Next]_vars

-----------------------------------------------------------------------------
(* Properties.                                                             *)

(* A VNF that has workers. *)
Polled == {v \in Vnf : launched[v] # {}}

(* The queues a vcore of such a VNF touches with grant g. *)
Touches(v, g) ==
  QidsOfAid(g.aid, acc[slot[v][g.slot]][g.side], NQueue)

(* burst() indexes the vector of accessors without a check: with a client  *)
(* that keeps to the procedure every access id a worker holds is one the   *)
(* port was configured for.                                                *)
AidInRange ==
  procedure =>
    \A v \in Polled : \A g \in grant[v] : g.aid < acc[slot[v][g.slot]][g.side]

(* With such a client every receive queue of the ports of a deployed VNF   *)
(* is polled, and by one vcore only: RSS spreads packets over all of them, *)
(* and a queue nobody polls is traffic lost without a trace.               *)
EveryQueueIsPolled ==
  procedure /\ AidInRange =>
    \A v \in Polled, i \in Slot, q \in Queues(NQueue) :
      Cardinality({g \in grant[v] : /\ g.side = "rx" /\ g.slot = i
                                    /\ g.blk \in launched[v]
                                    /\ q \in Touches(v, g)}) = 1

(* No two vcores of a VNF send on the same queue. *)
SendersAreDistinct ==
  procedure /\ AidInRange =>
    \A v \in Polled : \A g, h \in grant[v] :
      g # h /\ g.side = "tx" /\ h.side = "tx" /\ g.slot = h.slot
        => Touches(v, g) \cap Touches(v, h) = {}

(* No reset asks a null port for an access, no deploy divides by zero, no  *)
(* worker finds its vcores or a port gone.                                 *)
NoCrash == procedure => ~crashed

(* With a client that keeps to the procedure, what the workers hold is     *)
(* what their ports were configured for: burst() neither leaves its vector *)
(* of accessors nor transmits where another does, and configuring them     *)
(* does not end the process.                                               *)
AccessIdsAreSound == AidInRange /\ SendersAreDistinct /\ NoCrash

(* rx_burst and tx_burst dereference the VNF's ports and a virtual port's  *)
(* rings.  Whatever the client does, a VNF that has workers has them all,  *)
(* unless it was stripped in the window in which is_running() does not     *)
(* tell of the workers: after the reply to deploy, or after a deploy that  *)
(* failed half-way.  A client that gives every block a coremask and the    *)
(* workers the time to start never meets that window.                      *)
DeployedIsUsable ==
  /\ \A v \in Polled \ stripped, i \in Slot : Usable(slot[v][i]) /\ owner[slot[v][i]] = v
  /\ procedure => stripped = {}
=============================================================================
