----------------------------- MODULE VnfDeploy ------------------------------
(***************************************************************************)
(* Deploying and undeploying VNFs: the REST thread and, at shutdown, the   *)
(* main thread run the handlers and ssn_vnf::deploy / undeploy, while the  *)
(* worker lcores run ssn_vnf_block::deploy_impl.                           *)
(*                                                                         *)
(* A control thread's procedure is split where another thread can          *)
(* intervene between a read and a write: after the is_running() check of   *)
(* a handler, after each launch, after each step of a join.  All ports are *)
(* attached throughout (attaching and detaching is the business of module  *)
(* VnfConfig).                                                             *)
(***************************************************************************)
EXTENDS NativeThread, FiniteSetsExt

CONSTANTS
  Vnf,          \* VNF instances of the catalog
  NBlock,       \* NBlock[v]: number of blocks of v (1: l2fwd, 2: l2fwd_numa)
  NQueue,       \* rx and tx queues of every port (nfvi.nrxq = nfvi.ntxq = 8)
  Garbage,      \* a nonzero value of the coremask the constructor never sets
  Mask,         \* coremasks a client asks for
  Client,       \* when a client sends its next request, see Ready
  Procedure     \* TRUE: it follows the documented procedure, see Allotted

Master == 0     \* the master lcore, where ssn_nfvi::run sleeps

Block == UNION {{v} \X (1..NBlock[v]) : v \in Vnf}

ASSUME DeployAssumption ==
  /\ Vnf # {} /\ IsFiniteSet(Vnf)
  /\ NBlock \in [Vnf -> Nat \ {0}]
  /\ Job = Block
  /\ IsFiniteSet(Lcore)
  /\ NQueue \in Nat \ {0}
  /\ Mask \subseteq SUBSET (Lcore \cup {Master})
  /\ Garbage \notin SUBSET (Lcore \cup {Master})
  /\ Client \in {"any", "polling", "settled"}
  /\ Procedure \in BOOLEAN
  /\ Ctl = {"rest", "main"}

VARIABLES
  running,    \* running[b]: the block's flag, which is_running() returns
  coremask,   \* coremask[b]
  btids,      \* lcores whose element of the block's "tids" is not zero
  vid,        \* vid[l]: the vcore id the worker on l looked up
  cpc, cop,   \* where each control thread is, and in which operation
  cvnf, cblk, \* the VNF it works on and the index of the block
  todo,       \* vcores of the block still to launch or to join
  cmask,      \* the coremask a coremask request carries
  told,       \* told[v]: the last deploy or undeploy reply about v
  scan,       \* VNFs the main thread has still to look at
  up,         \* ssn_nfvi::running
  crashed     \* an exception left a thread: std::terminate

ctlVars == <<cpc, cop, cvnf, cblk, todo, cmask>>
blockVars == <<running, coremask, btids>>
vars == <<threadVars, blockVars, ctlVars, vid, told, scan, up, crashed>>

CtlPc == {"idle", "reset", "mask", "config", "launch", "undeploy", "stop",
          "join", "wait", "erase"}
CtlOp == {"none", "reset", "mask", "deploy", "undeploy"}
Reply == {"none", "up", "down", "failed"}

BlocksOf(v) == {b \in Block : b[1] = v}

(* The elements of vcores: they follow coremask once it has been set. *)
Vcores(b) == IF coremask[b] = Garbage THEN {} ELSE coremask[b]

MutVcoreIdOne(b, l) == 0

(* vcores is filled in ascending order of lcore id (line 272). *)
VcoreId(b, l) == Cardinality({k \in Vcores(b) : k < l})

VnfRunning(v) == \A b \in BlocksOf(v) : running[b]

TypeOK ==
  /\ ThreadTypeOK
  /\ running  \in [Block -> BOOLEAN]
  /\ coremask \in [Block -> (SUBSET (Lcore \cup {Master})) \cup {Garbage}]
  /\ btids    \in [Block -> SUBSET (Lcore \cup {Master})]
  /\ vid      \in [Lcore -> Nat]
  /\ cpc      \in [Ctl -> CtlPc]
  /\ cop      \in [Ctl -> CtlOp]
  /\ cvnf     \in [Ctl -> Vnf]
  /\ cblk     \in [Ctl -> Nat \ {0}]
  /\ todo     \in [Ctl -> SUBSET (Lcore \cup {Master})]
  /\ cmask    \in SUBSET (Lcore \cup {Master})
  /\ told     \in [Vnf -> Reply]
  /\ scan     \in SUBSET Vnf
  /\ up       \in BOOLEAN
  /\ crashed  \in BOOLEAN

Init ==
  /\ ThreadInit
  /\ running  = [b \in Block |-> FALSE]
  /\ coremask \in [Block -> {{}, Garbage}]
  /\ btids    = [b \in Block |-> {}]
  /\ vid      = [l \in Lcore |-> 0]
  /\ cpc      = [c \in Ctl |-> "idle"]
  /\ cop      = [c \in Ctl |-> "none"]
  /\ cvnf     = [c \in Ctl |-> CHOOSE v \in Vnf : TRUE]
  /\ cblk     = [c \in Ctl |-> 1]
  /\ todo     = [c \in Ctl |-> {}]
  /\ cmask    = {}
  /\ told     = [v \in Vnf |-> "none"]
  /\ scan     = Vnf
  /\ up       = TRUE
  /\ crashed  = FALSE

-----------------------------------------------------------------------------
(* The client of the REST API.                                             *)

(* Every thread that was launched has entered its loop or left it. *)
Settled == \A l \in Lcore : wpc[l] \notin {"spawn", "entry"}

(* "any" sends a request as soon as the last one is answered; "polling"    *)
(* waits, after a successful deploy, until the VNF is reported running;    *)
(* "settled" waits longer than a thread takes to start.                    *)
Ready ==
  CASE Client = "any"     -> TRUE
    [] Client = "polling" -> \A v \in Vnf : told[v] = "up" => VnfRunning(v)
    [] Client = "settled" -> Settled

(* The procedure of the developer guide: every block gets lcores of its    *)
(* own, none of them the master's or the timer's, before the VNF is        *)
(* deployed.                                                               *)
Allotted(v) ==
  Procedure => \A b \in BlocksOf(v) : Vcores(b) # {}

Available(b, m) ==
  Procedure => /\ m # {} /\ m \subseteq Worker
               /\ \A o \in Block \ {b} : m \cap Vcores(o) = {}

Request(op, v, pc) ==
  /\ up /\ ~crashed /\ Ready
  /\ cpc["rest"] = "idle"
  /\ cpc'  = [cpc EXCEPT !["rest"] = pc]
  /\ cop'  = [cop EXCEPT !["rest"] = op]
  /\ cvnf' = [cvnf EXCEPT !["rest"] = v]
  /\ UNCHANGED <<threadVars, blockVars, vid, told, scan, up, crashed>>

(* A control thread whose turn it is to take a step of its procedure. *)
At(c, pc) == ~crashed /\ cpc[c] = pc

Goto(c, pc) == cpc' = [cpc EXCEPT ![c] = pc]

Here(c) == <<cvnf[c], cblk[c]>>

(* An operation ends: the REST handler replies, the main thread goes on to *)
(* the next VNF.  What the client learns is kept in told.                  *)
Ends(c, reply) ==
  /\ Goto(c, "idle")
  /\ cop' = [cop EXCEPT ![c] = "none"]
  /\ told' = IF c = "rest" THEN [told EXCEPT ![cvnf[c]] = reply] ELSE told

-----------------------------------------------------------------------------
(* PUT /vnfs/NAME/reset: the check, then ssn_vnf::reset.                   *)

ResetCheck(v) ==
  /\ ~VnfRunning(v)
  /\ Request("reset", v, "reset")
  /\ UNCHANGED <<cblk, todo, cmask>>

(* Each block gets 0x1 for a moment and then 0: no vcores, empty tids. *)
ResetWrite ==
  /\ At("rest", "reset")
  /\ LET mine == BlocksOf(cvnf["rest"]) IN
       /\ coremask' = [b \in Block |-> IF b \in mine THEN {} ELSE coremask[b]]
       /\ btids' = [b \in Block |-> IF b \in mine THEN {} ELSE btids[b]]
  /\ Ends("rest", told[cvnf["rest"]])
  /\ UNCHANGED <<threadVars, running, cvnf, cblk, todo, cmask, vid, scan, up,
                 crashed>>

(* coremask_is_valid: != binds tighter than &, so (0x1<<i) & coremask != 0 *)
(* is (0x1<<i) & 1 for a nonzero mask, and only lcore 0 is looked at.      *)
(* The EAL leaves the master's state WAIT.                                 *)
MasterState == "WAIT"
CoremaskIsValid(m) == m # {} => MasterState = "WAIT"

(* PUT /vnfs/NAME/coremask/BLOCKID: the checks, then set_coremask. *)
MaskCheck(b, m) ==
  /\ ~VnfRunning(b[1])
  /\ coremask[b] = {}
  /\ CoremaskIsValid(m)
  /\ Available(b, m)
  /\ Request("mask", b[1], "mask")
  /\ cblk' = [cblk EXCEPT !["rest"] = b[2]]
  /\ cmask' = m
  /\ UNCHANGED todo

(* tids is resized from zero elements: every new element is 0. *)
MaskWrite ==
  /\ At("rest", "mask")
  /\ coremask' = [coremask EXCEPT ![Here("rest")] = cmask]
  /\ btids' = [btids EXCEPT ![Here("rest")] = {}]
  /\ cmask' = {}
  /\ Ends("rest", told[cvnf["rest"]])
  /\ UNCHANGED <<threadVars, running, cvnf, cblk, todo, vid, scan, up,
                 crashed>>

-----------------------------------------------------------------------------
(* PUT /vnfs/NAME/deploy.                                                  *)

MutDeployCheck(v) ==
  /\ Allotted(v)
  /\ Request("deploy", v, "config")
  /\ UNCHANGED <<cblk, todo, cmask>>

DeployCheck(v) ==
  /\ ~VnfRunning(v)
  /\ Allotted(v)
  /\ Request("deploy", v, "config")
  /\ UNCHANGED <<cblk, todo, cmask>>

(* n_queues_per_accessor throws unless the accessors divide the queues;    *)
(* without accessors it is not called (the ports are DPDK ports).  Each    *)
(* vcore has an rx access to the ports its block polls and a tx            *)
(* access to every port.                                                   *)
Divides(n) == n # 0 => NQueue % n = 0
AccessorsFit(v) ==
  /\ \A b \in BlocksOf(v) : Divides(Cardinality(Vcores(b)))
  /\ Divides(MapThenSumSet(LAMBDA b : Cardinality(Vcores(b)), BlocksOf(v)))

(* The first thing ssn_vnf_block::deploy does on block i. *)
EnterBlock(c, v, i) ==
  /\ cvnf[c] = v
  /\ IF Vcores(<<v, i>>) = {}
     THEN /\ Goto(c, "undeploy")
          /\ cblk' = [cblk EXCEPT ![c] = 1]
          /\ todo' = [todo EXCEPT ![c] = {}]
     ELSE /\ Goto(c, "launch")
          /\ cblk' = [cblk EXCEPT ![c] = i]
          /\ todo' = [todo EXCEPT ![c] = Vcores(<<v, i>>)]

(* ssn_vnf::configre_acc, then block 0. *)
ConfigAcc ==
  /\ At("rest", "config")
  /\ AccessorsFit(cvnf["rest"])
  /\ EnterBlock("rest", cvnf["rest"], 1)
  /\ UNCHANGED <<threadVars, blockVars, cop, cvnf, cmask, vid, told, scan, up,
                 crashed>>

(* The exception passes through deploy to the REST handler. *)
ConfigAccThrows ==
  /\ At("rest", "config")
  /\ ~AccessorsFit(cvnf["rest"])
  /\ Ends("rest", "failed")
  /\ UNCHANGED <<threadVars, blockVars, cvnf, cblk, todo, cmask, vid, scan,
                 up, crashed>>

LaunchVcore ==
  /\ At("rest", "launch")
  /\ todo["rest"] # {}
  /\ LET l == Min(todo["rest"]) IN
       /\ l # Master
       /\ LaunchStarts(l, Here("rest"))
       /\ btids' = [btids EXCEPT ![Here("rest")] = @ \cup {l}]
       /\ todo' = [todo EXCEPT !["rest"] = @ \ {l}]
  /\ UNCHANGED <<running, coremask, cpc, cop, cvnf, cblk, cmask, vid, told,
                 scan, up, crashed>>

(* The exception is caught, the block returns -1 and ssn_vnf::deploy calls *)
(* undeploy on the whole VNF.                                              *)
LaunchVcoreFails ==
  /\ At("rest", "launch")
  /\ todo["rest"] # {}
  /\ LET l == Min(todo["rest"]) IN
       IF l = Master
       THEN UNCHANGED threadVars      \* thrown before anything is recorded
       ELSE LaunchRefused(l, Here("rest"))
  /\ Goto("rest", "undeploy")
  /\ cblk' = [cblk EXCEPT !["rest"] = 1]
  /\ todo' = [todo EXCEPT !["rest"] = {}]
  /\ UNCHANGED <<blockVars, cop, cvnf, cmask, vid, told, scan, up, crashed>>

NextBlock ==
  /\ At("rest", "launch")
  /\ todo["rest"] = {}
  /\ cblk["rest"] < NBlock[cvnf["rest"]]
  /\ EnterBlock("rest", cvnf["rest"], cblk["rest"] + 1)
  /\ UNCHANGED <<threadVars, blockVars, cop, cvnf, cmask, vid, told, scan, up,
                 crashed>>

MutDeployReturns ==
  /\ At("rest", "launch")
  /\ todo["rest"] = {}
  /\ Ends("rest", "up")
  /\ UNCHANGED <<threadVars, blockVars, cvnf, cblk, todo, cmask, vid, scan,
                 up, crashed>>

DeployReturns ==
  /\ At("rest", "launch")
  /\ todo["rest"] = {}
  /\ cblk["rest"] = NBlock[cvnf["rest"]]
  /\ Ends("rest", "up")
  /\ UNCHANGED <<threadVars, blockVars, cvnf, cblk, todo, cmask, vid, scan,
                 up, crashed>>

-----------------------------------------------------------------------------
(* PUT /vnfs/NAME/undeploy and the shutdown loop of ssn_nfvi::run.         *)

UndeployCheck(v) ==
  /\ VnfRunning(v)
  /\ Request("undeploy", v, "undeploy")
  /\ cblk' = [cblk EXCEPT !["rest"] = 1]
  /\ UNCHANGED <<todo, cmask>>

(* ssn_vnf::undeploy: blocks that are not running are skipped. *)
UndeployBlock(c) ==
  /\ At(c, "undeploy")
  /\ cblk[c] <= NBlock[cvnf[c]]
  /\ IF running[Here(c)]
     THEN Goto(c, "stop") /\ UNCHANGED cblk
     ELSE cblk' = [cblk EXCEPT ![c] = @ + 1] /\ UNCHANGED cpc
  /\ UNCHANGED <<threadVars, blockVars, cop, cvnf, todo, cmask, vid, told,
                 scan, up, crashed>>

MutStopBlock(c) ==
  /\ At(c, "stop")
  /\ todo' = [todo EXCEPT ![c] = Vcores(Here(c))]
  /\ Goto(c, "join")
  /\ UNCHANGED <<threadVars, blockVars, cop, cvnf, cblk, cmask, vid,
                 told, scan, up, crashed>>

(* undeploy_impl: running = false. *)
StopBlock(c) ==
  /\ At(c, "stop")
  /\ running' = [running EXCEPT ![Here(c)] = FALSE]
  /\ todo' = [todo EXCEPT ![c] = Vcores(Here(c))]
  /\ Goto(c, "join")
  /\ UNCHANGED <<threadVars, coremask, btids, cop, cvnf, cblk, cmask, vid,
                 told, scan, up, crashed>>

(* All vcores are joined, or the next one has no tid. *)
BlockJoined(c) ==
  /\ At(c, "join")
  /\ todo[c] # {} => Min(todo[c]) \notin btids[Here(c)]
  /\ todo' = [todo EXCEPT ![c] = {}]
  /\ cblk' = [cblk EXCEPT ![c] = @ + 1]
  /\ Goto(c, "undeploy")
  /\ UNCHANGED <<threadVars, blockVars, cop, cvnf, cmask, vid, told, scan, up,
                 crashed>>

JoinVcore(c) ==
  /\ At(c, "join")
  /\ todo[c] # {} /\ Min(todo[c]) \in btids[Here(c)]
  /\ JoinLocks(c)
  /\ Goto(c, "wait")
  /\ UNCHANGED <<blockVars, cop, cvnf, cblk, todo, cmask, vid, told, scan, up,
                 crashed>>

JoinVcoreWaits(c) ==
  /\ At(c, "wait")
  /\ JoinWaits(c, Min(todo[c]))
  /\ Goto(c, "erase")
  /\ UNCHANGED <<blockVars, cop, cvnf, cblk, todo, cmask, vid, told, scan, up,
                 crashed>>

JoinVcoreErases(c) ==
  /\ At(c, "erase")
  /\ JoinErases(c, Min(todo[c]))
  /\ todo' = [todo EXCEPT ![c] = @ \ {Min(@)}]
  /\ Goto(c, "join")
  /\ UNCHANGED <<blockVars, cop, cvnf, cblk, cmask, vid, told, scan, up,
                 crashed>>

(* Crow turns the exception into an error reply; nothing catches it in the *)
(* main thread.                                                            *)
JoinVcoreThrows(c) ==
  /\ At(c, "erase")
  /\ JoinThrows(c, Min(todo[c]))
  /\ todo' = [todo EXCEPT ![c] = {}]
  /\ Ends(c, "failed")
  /\ crashed' = (c = "main")
  /\ UNCHANGED <<blockVars, cvnf, cblk, cmask, vid, scan, up>>

(* Back in the caller: deploy returns -1, the undeploy handler reports     *)
(* success, the main thread takes the next VNF.                            *)
UndeployReturns(c) ==
  /\ At(c, "undeploy")
  /\ cblk[c] > NBlock[cvnf[c]]
  /\ Ends(c, IF cop[c] = "deploy" THEN "failed" ELSE "down")
  /\ cblk' = [cblk EXCEPT ![c] = 1]
  /\ UNCHANGED <<threadVars, blockVars, cvnf, todo, cmask, vid, scan, up,
                 crashed>>

(* ssn_nfvi::stop: no further request is taken, a handler in progress goes *)
(* on.                                                                     *)
Stop ==
  /\ up /\ ~crashed /\ Ready
  /\ Client # "any" => cpc["rest"] = "idle"
  /\ up' = FALSE
  /\ UNCHANGED <<threadVars, blockVars, ctlVars, vid, told, scan, crashed>>

MutShutdownVnf(v) ==
  /\ ~up /\ At("main", "idle")
  /\ v \in scan
  /\ scan' = scan \ {v}
  /\ UNCHANGED <<threadVars, blockVars, ctlVars, vid, told, up, crashed>>

(* if (vnfs[i]->is_running()) vnfs[i]->undeploy(); *)
ShutdownVnf(v) ==
  /\ ~up /\ At("main", "idle")
  /\ v \in scan
  /\ scan' = scan \ {v}
  /\ IF VnfRunning(v)
     THEN /\ Goto("main", "undeploy")
          /\ cop' = [cop EXCEPT !["main"] = "undeploy"]
          /\ cvnf' = [cvnf EXCEPT !["main"] = v]
          /\ cblk' = [cblk EXCEPT !["main"] = 1]
     ELSE UNCHANGED <<cpc, cop, cvnf, cblk>>
  /\ UNCHANGED <<threadVars, blockVars, todo, cmask, vid, told, up, crashed>>

-----------------------------------------------------------------------------
(* The worker lcores: ssn_vnf_block::deploy_impl of the l2fwd blocks.      *)

WorkerSpawns(l) ==
  /\ ~crashed
  /\ ThreadCalls(l)
  /\ UNCHANGED <<blockVars, ctlVars, vid, told, scan, up, crashed>>

(* get_vlcore_id, then running = true. *)
WorkerEnters(l) ==
  /\ ~crashed
  /\ wpc[l] = "entry"
  /\ l \in Vcores(job[l])
  /\ vid' = [vid EXCEPT ![l] = VcoreId(job[l], l)]
  /\ running' = [running EXCEPT ![job[l]] = TRUE]
  /\ wpc' = [wpc EXCEPT ![l] = "head"]
  /\ UNCHANGED <<eal, lstate, tids, snt, job, joiner, coremask, btids, ctlVars,
                 told, scan, up, crashed>>

(* get_vlcore_id throws, and nothing in the EAL loop catches it. *)
WorkerIsLost(l) ==
  /\ ~crashed
  /\ wpc[l] = "entry"
  /\ l \notin Vcores(job[l])
  /\ crashed' = TRUE
  /\ UNCHANGED <<threadVars, blockVars, ctlVars, vid, told, scan, up>>

(* while (running): enter the next round of bursts, or leave the loop. *)
WorkerLoops(l) ==
  /\ ~crashed
  /\ wpc[l] = "head"
  /\ wpc' = [wpc EXCEPT ![l] = IF running[job[l]] THEN "poll" ELSE "ret"]
  /\ UNCHANGED <<eal, lstate, tids, snt, job, joiner, blockVars, ctlVars, vid,
                 told, scan, up, crashed>>

(* rx_burst and tx_burst with the access ids of vcores.at(vcore_id), which *)
(* throws when the vcore is gone.                                          *)
WorkerPolls(l) ==
  /\ ~crashed
  /\ wpc[l] = "poll"
  /\ IF vid[l] < Cardinality(Vcores(job[l]))
     THEN wpc' = [wpc EXCEPT ![l] = "head"] /\ UNCHANGED crashed
     ELSE crashed' = TRUE /\ UNCHANGED wpc
  /\ UNCHANGED <<eal, lstate, tids, snt, job, joiner, blockVars, ctlVars, vid,
                 told, scan, up>>

WorkerReturns(l) ==
  /\ ~crashed
  /\ ThreadReturns(l)
  /\ UNCHANGED <<blockVars, ctlVars, vid, told, scan, up, crashed>>

-----------------------------------------------------------------------------
Requests ==
  \/ \E v \in Vnf : ResetCheck(v) \/ DeployCheck(v) \/ UndeployCheck(v)
  \/ \E b \in Block, m \in Mask : MaskCheck(b, m)

RestStep ==
  ResetWrite \/ MaskWrite \/ ConfigAcc \/ ConfigAccThrows \/ LaunchVcore
    \/ LaunchVcoreFails \/ NextBlock \/ DeployReturns

UndeployStep(c) ==
  UndeployBlock(c) \/ StopBlock(c) \/ BlockJoined(c) \/ JoinVcore(c)
    \/ JoinVcoreWaits(c) \/ JoinVcoreErases(c) \/ JoinVcoreThrows(c)
    \/ UndeployReturns(c)

Shutdown == \E v \in Vnf : ShutdownVnf(v)

WorkerStep(l) ==
  WorkerSpawns(l) \/ WorkerEnters(l) \/ WorkerIsLost(l) \/ WorkerLoops(l)
    \/ WorkerPolls(l) \/ WorkerReturns(l)

Next ==
  \/ Requests
  \/ RestStep
  \/ \E c \in Ctl : UndeployStep(c)
  \/ Stop
  \/ Shutdown
  \/ \E l \in Worker : WorkerStep(l)

Spec == Init /\ [][Next]_vars

(* The REST thread and the main thread run their procedures to the end,    *)
(* and every lcore runs its thread: an lcore is a core of its own.  The    *)
(* client and the operator need not do anything.                           *)
Fairness ==
  /\ WF_vars(RestStep)
  /\ \A c \in Ctl : WF_vars(UndeployStep(c))
  /\ WF_vars(Shutdown)
  /\ \A l \in Worker : WF_vars(WorkerStep(l))

FairSpec == Spec /\ Fairness

-----------------------------------------------------------------------------
(* Properties.                                                             *)

InLoop(l, b) == job[l] = b /\ wpc[l] \in {"head", "poll"}
Inside(v) == {l \in Worker : job[l] \in BlocksOf(v)}

(* Two workers of a block never poll with the same vcore id, so never with *)
(* the same access ids: the queues of a DPDK port are not thread-safe.     *)
QueueExclusive ==
  \A k, l \in Worker :
    k # l /\ wpc[k] = "poll" /\ wpc[l] = "poll" /\ job[k] = job[l]
      => vid[k] # vid[l]

(* While a handler is about to write the coremasks, vcores or accessors of *)
(* a VNF, no worker is inside deploy_impl of its blocks, where they are    *)
(* read without a lock.                                                    *)
NoConfigRace ==
  cpc["rest"] \in {"reset", "mask", "config"} => Inside(cvnf["rest"]) = {}

(* A vcore is launched on an idle lcore. *)
LcoreIsFree ==
  cpc["rest"] = "launch" /\ todo["rest"] # {} => eal[Min(todo["rest"])] = "WAIT"

(* Once things have settled the replies the client got are true: a VNF     *)
(* reported deployed polls on all of its vcores, any other on none.        *)
RepliesAreTrue ==
  up /\ cpc["rest"] = "idle" /\ Settled =>
    \A v \in Vnf :
      IF told[v] = "up"
      THEN \A b \in BlocksOf(v), l \in Worker :
             l \in Vcores(b) <=> InLoop(l, b)
      ELSE Inside(v) = {}

(* A join finds the thread's entry in tids. *)
JoinFindsThread ==
  \A c \in Ctl : cpc[c] = "erase" => tids[Min(todo[c])] > 0

(* No exception leaves a worker or the main thread.                        *)
NoCrash == ~crashed

(* Every request is answered: no handler is stuck in a join for ever. *)
RequestAnswered == cpc["rest"] # "idle" ~> cpc["rest"] = "idle"

(* After stop(), every worker lcore is given back. *)
ShutdownReleases ==
  ~up ~> \A l \in Worker : eal[l] = "WAIT"
=============================================================================
