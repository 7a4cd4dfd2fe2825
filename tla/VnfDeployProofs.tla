-------------------------- MODULE VnfDeployProofs --------------------------
(***************************************************************************)
(* Proofs about deploying VNFs: facts about lcores and sets, types, what   *)
(* the code does for any client, and at last Discipline.                   *)
(***************************************************************************)
EXTENDS VnfDeployInv, TLAPS, FiniteSetTheorems, WellFoundedInduction

(* The smallest element of a non-empty set of lcores is one of them. *)
LEMMA MinIsElement ==
  ASSUME NEW S \in SUBSET Nat, S # {}
  PROVE  Min(S) \in S /\ \A x \in S : Min(S) <= x
<1> DEFINE R == {p \in Nat \X Nat : p[1] < p[2]}
<1>1. IsWellFoundedOn(R, Nat)
  BY NatLessThanWellFounded DEF OpToRel
<1>2. PICK m \in S : \A y \in S : ~ (<<y, m>> \in R)
  BY <1>1, WFMin
<1>3. \A x \in S : m <= x
  <2>1. ASSUME NEW x \in S, ~(m <= x) PROVE <<x, m>> \in R
    BY <2>1
  <2> QED
    BY <2>1, <1>2
<1> QED
  BY <1>3 DEF Min

LEMMA BlockPairs ==
  /\ \A v \in Vnf, i \in Nat \ {0} : <<v, i>> \in Block <=> i <= NBlock[v]
  /\ \A b \in Block : /\ b[1] \in Vnf
                       /\ b[2] \in 1..NBlock[b[1]]
                       /\ b = <<b[1], b[2]>>
<1>1. \A b : b \in Block <=> \E v \in Vnf : b \in {v} \X (1..NBlock[v])
  BY DEF Block
<1>2. \A v \in Vnf : NBlock[v] \in Nat \ {0}
  BY DeployAssumption
<1>3. ASSUME NEW v \in Vnf, NEW i \in Nat \ {0}
      PROVE  <<v, i>> \in Block <=> i <= NBlock[v]
  BY <1>1, <1>2
<1>4. ASSUME NEW b \in Block
      PROVE  b[1] \in Vnf /\ b[2] \in 1..NBlock[b[1]] /\ b = <<b[1], b[2]>>
  BY <1>1
<1> QED
  BY <1>3, <1>4

LEMMA VcoresType ==
  ASSUME TypeOK, NEW b \in Block
  PROVE  /\ Vcores(b) \in SUBSET (Lcore \cup {Master})
         /\ IsFiniteSet(Vcores(b))
  <1>1. Vcores(b) \in SUBSET (Lcore \cup {Master})
    BY DEF TypeOK, Vcores
  <1>2. IsFiniteSet(Lcore \cup {Master})
    BY DeployAssumption, FS_AddElement
  <1> QED
    BY <1>1, <1>2, FS_Subset

LEMMA VcoreIdType ==
  ASSUME TypeOK, NEW b \in Block, NEW l
  PROVE  VcoreId(b, l) \in Nat
  BY VcoresType, FS_Subset, FS_CardinalityType DEF VcoreId

LEMMA TypeInit == Init => TypeInv
<1> SUFFICES ASSUME Init PROVE TypeInv
  OBVIOUS
<1>1. ThreadTypeOK
  BY ThreadAssumption
     DEF Init, ThreadInit, ThreadTypeOK, EalState, LcoreState, WorkerPc
<1>2. coremask \in [Block -> (SUBSET (Lcore \cup {Master})) \cup {Garbage}]
  BY DEF Init
<1>3. cvnf \in [Ctl -> Vnf]
  BY DeployAssumption DEF Init
<1>4. cpc \in [Ctl -> CtlPc] /\ cop \in [Ctl -> CtlOp] /\ told \in [Vnf -> Reply]
  BY DEF Init, CtlPc, CtlOp, Reply
<1>5. running \in [Block -> BOOLEAN] /\ up \in BOOLEAN /\ crashed \in BOOLEAN
  BY DEF Init
<1>6. /\ btids \in [Block -> SUBSET (Lcore \cup {Master})]
      /\ todo \in [Ctl -> SUBSET (Lcore \cup {Master})]
      /\ cmask \in SUBSET (Lcore \cup {Master})
      /\ scan \in SUBSET Vnf
  BY DEF Init
<1>7. vid \in [Lcore -> Nat] /\ cblk \in [Ctl -> Nat \ {0}]
  BY DEF Init
<1>8. TypeOK
  BY <1>1, <1>2, <1>3, <1>4, <1>5, <1>6, <1>7 DEF TypeOK
<1>9. Places
  BY DEF Init, Places
<1>10. Jobs
  BY DEF Init, ThreadInit, Jobs
<1> QED
  BY <1>8, <1>9, <1>10 DEF TypeInv

(* Entries of the thread table are counted in Nat. *)
LEMMA CountUp ==
  ASSUME NEW f \in [Lcore -> Nat], NEW l
  PROVE  [f EXCEPT ![l] = @ + 1] \in [Lcore -> Nat]
<1> DEFINE g == [f EXCEPT ![l] = @ + 1]
<1>1. ASSUME NEW x \in Lcore PROVE g[x] \in Nat
  <2>1. f[x] \in Nat
    OBVIOUS
  <2>2. CASE x = l
    BY <2>1, <2>2
  <2>3. CASE x # l
    BY <2>1, <2>3
  <2> QED
    BY <2>2, <2>3
<1> QED
  BY <1>1

LEMMA CountDown ==
  ASSUME NEW f \in [Lcore -> Nat], NEW l, f[l] > 0
  PROVE  [f EXCEPT ![l] = @ - 1] \in [Lcore -> Nat]
<1> DEFINE g == [f EXCEPT ![l] = @ - 1]
<1>1. ASSUME NEW x \in Lcore PROVE g[x] \in Nat
  <2>1. f[x] \in Nat
    OBVIOUS
  <2>2. CASE x = l
    BY <2>1, <2>2
  <2>3. CASE x # l
    BY <2>1, <2>3
  <2> QED
    BY <2>2, <2>3
<1> QED
  BY <1>1

LEMMA TypeStep == TypeInv /\ [Next]_vars => TypeInv'
<1> SUFFICES ASSUME TypeInv, [Next]_vars PROVE TypeInv'
  OBVIOUS
<1> USE DeployAssumption, ThreadAssumption
<1> USE DEF TypeInv, TypeOK, ThreadTypeOK, Places, Jobs, Here, threadVars, blockVars, ctlVars
<1>1. ASSUME NEW v \in Vnf, ResetCheck(v) PROVE TypeInv'
  BY <1>1, BlockPairs, VcoresType, MinIsElement DEF ResetCheck, Request, CtlPc, CtlOp
<1>2. ASSUME NEW v \in Vnf, DeployCheck(v) PROVE TypeInv'
  BY <1>2, BlockPairs, VcoresType, MinIsElement DEF DeployCheck, Request, CtlPc, CtlOp
<1>3. ASSUME NEW v \in Vnf, UndeployCheck(v) PROVE TypeInv'
  BY <1>3, BlockPairs, VcoresType, MinIsElement DEF UndeployCheck, Request, CtlPc, CtlOp
<1>4. ASSUME NEW b \in Block, NEW m \in Mask, MaskCheck(b, m) PROVE TypeInv'
  BY <1>4, BlockPairs, VcoresType, MinIsElement DEF MaskCheck, Request, CtlPc, CtlOp
<1>5. ASSUME ResetWrite PROVE TypeInv'
  BY <1>5, BlockPairs, VcoresType, MinIsElement DEF ResetWrite, At, Ends, Goto, CtlPc, CtlOp, Reply
<1>6. ASSUME MaskWrite PROVE TypeInv'
  BY <1>6, BlockPairs, VcoresType, MinIsElement DEF MaskWrite, At, Ends, Goto, CtlPc, CtlOp, Reply
<1>7. ASSUME ConfigAcc PROVE TypeInv'
  BY <1>7, BlockPairs, VcoresType, MinIsElement DEF ConfigAcc, At, EnterBlock, Goto, CtlPc
<1>8. ASSUME ConfigAccThrows PROVE TypeInv'
  BY <1>8, BlockPairs, VcoresType, MinIsElement DEF ConfigAccThrows, At, Ends, Goto, CtlPc, CtlOp, Reply
<1>9. ASSUME LaunchVcore PROVE TypeInv'
  <2> DEFINE l == Min(todo["rest"])
  <2>1. l \in todo["rest"] /\ l \in Lcore \cup {Master} /\ Here("rest") \in Block
    BY <1>9, MinIsElement DEF LaunchVcore, At, Master
  <2>2. ThreadTypeOK'
    <3>1. tids' = [tids EXCEPT ![l] = @ + 1] /\ snt' = [snt EXCEPT ![l] = Here("rest")]
      BY <1>9 DEF LaunchVcore, LaunchStarts, RecordLaunch
    <3>2. tids' \in [Lcore -> Nat]
      BY <3>1, CountUp
    <3>3. snt' \in [Lcore -> Job \cup {NoJob}]
      BY <2>1, <3>1
    <3> QED
      BY <1>9, <3>2, <3>3 DEF LaunchVcore, LaunchStarts, EalState, WorkerPc
  <2>3. btids' \in [Block -> SUBSET (Lcore \cup {Master})]
    BY <1>9, <2>1 DEF LaunchVcore
  <2>4. todo' \in [Ctl -> SUBSET (Lcore \cup {Master})]
    BY <1>9 DEF LaunchVcore
  <2>5. TypeOK'
    BY <1>9, <2>2, <2>3, <2>4 DEF LaunchVcore
  <2>6. Places'
    BY <1>9 DEF LaunchVcore, At
  <2>7. Jobs'
    BY <1>9, <2>1 DEF LaunchVcore, LaunchStarts, RecordLaunch
  <2> QED
    BY <2>5, <2>6, <2>7
<1>10. ASSUME LaunchVcoreFails PROVE TypeInv'
  <2> DEFINE l == Min(todo["rest"])
  <2>1. CASE l = Master
    BY <1>10, <2>1 DEF LaunchVcoreFails, At, Goto, CtlPc
  <2>2. CASE l # Master
    <3>1. /\ tids' = [tids EXCEPT ![l] = @ + 1]
          /\ snt' = [snt EXCEPT ![l] = Here("rest")]
          /\ UNCHANGED <<eal, lstate, wpc, job, joiner>>
          /\ Here("rest") \in Block
          /\ eal[l] # "WAIT"
      BY <1>10, <2>2 DEF LaunchVcoreFails, LaunchRefused, RecordLaunch, At
    <3>2. tids' \in [Lcore -> Nat]
      BY <3>1, CountUp
    <3>3. snt' \in [Lcore -> Job \cup {NoJob}]
      BY <3>1
    <3>4. TypeOK'
      BY <1>10, <3>1, <3>2, <3>3 DEF LaunchVcoreFails, Goto, CtlPc
    <3>5. Places' /\ Jobs'
      BY <1>10, <3>1 DEF LaunchVcoreFails, Goto
    <3> QED
      BY <3>4, <3>5
  <2> QED
    BY <2>1, <2>2
<1>11. ASSUME NextBlock PROVE TypeInv'
  <2> DEFINE i == cblk["rest"] + 1
  <2> DEFINE h == <<cvnf["rest"], i>>
  <2>1. i \in Nat \ {0} /\ cvnf["rest"] \in Vnf /\ i <= NBlock[cvnf["rest"]]
    BY <1>11, DeployAssumption DEF NextBlock
  <2>2. h \in Block /\ Vcores(h) \in SUBSET (Lcore \cup {Master})
    BY <2>1, BlockPairs, VcoresType
  <2>3. CASE Vcores(h) = {}
    <3>1. /\ cpc' = [cpc EXCEPT !["rest"] = "undeploy"]
          /\ cblk' = [cblk EXCEPT !["rest"] = 1]
          /\ todo' = [todo EXCEPT !["rest"] = {}]
          /\ UNCHANGED <<threadVars, blockVars, cop, cvnf, cmask, vid, told, scan, up, crashed>>
      BY <1>11, <2>3 DEF NextBlock, EnterBlock, Goto
    <3>2. TypeOK'
      BY <3>1 DEF CtlPc
    <3>3. Places' /\ Jobs'
      BY <3>1
    <3> QED
      BY <3>2, <3>3
  <2>4. CASE Vcores(h) # {}
    <3>1. /\ cpc' = [cpc EXCEPT !["rest"] = "launch"]
          /\ cblk' = [cblk EXCEPT !["rest"] = i]
          /\ todo' = [todo EXCEPT !["rest"] = Vcores(h)]
          /\ UNCHANGED <<threadVars, blockVars, cop, cvnf, cmask, vid, told, scan, up, crashed>>
      BY <1>11, <2>4 DEF NextBlock, EnterBlock, Goto
    <3>2. TypeOK'
      BY <2>1, <2>2, <3>1 DEF CtlPc
    <3>3. \A c \in Ctl : IF c = "rest" THEN Here(c)' = h
                         ELSE Here(c)' = Here(c) /\ cpc'[c] = cpc[c] /\ todo'[c] = todo[c]
      BY <3>1
    <3>4. Places'
      BY <2>2, <3>1, <3>3
    <3>5. Jobs'
      BY <3>1
    <3> QED
      BY <3>2, <3>4, <3>5
  <2> QED
    BY <2>3, <2>4
<1>12. ASSUME DeployReturns PROVE TypeInv'
  BY <1>12, BlockPairs, VcoresType, MinIsElement DEF DeployReturns, At, Ends, Goto, CtlPc, CtlOp, Reply
<1>13. ASSUME NEW c \in Ctl, UndeployBlock(c) PROVE TypeInv'
  BY <1>13, BlockPairs, VcoresType, MinIsElement DEF UndeployBlock, At, Goto, CtlPc
<1>14. ASSUME NEW c \in Ctl, StopBlock(c) PROVE TypeInv'
  BY <1>14, BlockPairs, VcoresType, MinIsElement DEF StopBlock, At, Goto, CtlPc
<1>15. ASSUME NEW c \in Ctl, BlockJoined(c) PROVE TypeInv'
  BY <1>15, BlockPairs, VcoresType, MinIsElement DEF BlockJoined, At, Goto, CtlPc
<1>16. ASSUME NEW c \in Ctl, JoinVcore(c) PROVE TypeInv'
  BY <1>16, BlockPairs, VcoresType, MinIsElement DEF JoinVcore, At, Goto, CtlPc, JoinLocks
<1>17. ASSUME NEW c \in Ctl, JoinVcoreWaits(c) PROVE TypeInv'
  BY <1>17, BlockPairs, VcoresType, MinIsElement DEF JoinVcoreWaits, At, Goto, CtlPc, JoinWaits, EalState
<1>18. ASSUME NEW c \in Ctl, JoinVcoreErases(c) PROVE TypeInv'
  <2>1. ThreadTypeOK'
    <3> DEFINE l == Min(todo[c])
    <3>1. tids[l] > 0 /\ tids' = [tids EXCEPT ![l] = @ - 1]
      BY <1>18 DEF JoinVcoreErases, JoinErases
    <3>2. tids' \in [Lcore -> Nat]
      BY <3>1, CountDown
    <3> QED
      BY <1>18, <3>2 DEF JoinVcoreErases, JoinErases, LcoreState
  <2>2. todo' \in [Ctl -> SUBSET (Lcore \cup {Master})]
    BY <1>18 DEF JoinVcoreErases
  <2>3. TypeOK'
    BY <1>18, <2>1, <2>2 DEF JoinVcoreErases, Goto, CtlPc
  <2>4. Places' /\ Jobs'
    BY <1>18 DEF JoinVcoreErases, JoinErases, At, Goto
  <2> QED
    BY <2>3, <2>4
<1>19. ASSUME NEW c \in Ctl, JoinVcoreThrows(c) PROVE TypeInv'
  BY <1>19, BlockPairs, VcoresType, MinIsElement DEF JoinVcoreThrows, At, Ends, Goto, CtlPc, CtlOp, Reply, JoinThrows
<1>20. ASSUME NEW c \in Ctl, UndeployReturns(c) PROVE TypeInv'
  BY <1>20, BlockPairs, VcoresType, MinIsElement DEF UndeployReturns, At, Ends, Goto, CtlPc, CtlOp, Reply
<1>21. ASSUME Stop PROVE TypeInv'
  BY <1>21, BlockPairs, VcoresType, MinIsElement DEF Stop
<1>22. ASSUME NEW v \in Vnf, ShutdownVnf(v) PROVE TypeInv'
  BY <1>22, BlockPairs, VcoresType, MinIsElement DEF ShutdownVnf, At, Goto, CtlPc, CtlOp
<1>23. ASSUME NEW l \in Worker, WorkerSpawns(l) PROVE TypeInv'
  BY <1>23, BlockPairs, VcoresType, MinIsElement DEF WorkerSpawns, Worker, ThreadCalls, LcoreState, WorkerPc
<1>24. ASSUME NEW l \in Worker, WorkerEnters(l) PROVE TypeInv'
  <2>1. VcoreId(job[l], l) \in Nat
    BY <1>24, VcoreIdType DEF WorkerEnters, Worker
  <2>2. vid' \in [Lcore -> Nat]
    BY <1>24, <2>1 DEF WorkerEnters
  <2>3. running' \in [Block -> BOOLEAN]
    BY <1>24 DEF WorkerEnters
  <2>4. ThreadTypeOK'
    BY <1>24 DEF WorkerEnters, WorkerPc
  <2>5. TypeOK'
    BY <1>24, <2>2, <2>3, <2>4 DEF WorkerEnters
  <2>6. Places' /\ Jobs'
    BY <1>24 DEF WorkerEnters, Worker
  <2> QED
    BY <2>5, <2>6
<1>25. ASSUME NEW l \in Worker, WorkerIsLost(l) PROVE TypeInv'
  BY <1>25, BlockPairs, VcoresType, MinIsElement DEF WorkerIsLost
<1>26. ASSUME NEW l \in Worker, WorkerLoops(l) PROVE TypeInv'
  BY <1>26, BlockPairs, VcoresType, MinIsElement DEF WorkerLoops, Worker, WorkerPc
<1>27. ASSUME NEW l \in Worker, WorkerPolls(l) PROVE TypeInv'
  <2>1. CASE vid[l] < Cardinality(Vcores(job[l]))
    BY <1>27, <2>1 DEF WorkerPolls, Worker, WorkerPc
  <2>2. CASE ~(vid[l] < Cardinality(Vcores(job[l])))
    BY <1>27, <2>2 DEF WorkerPolls
  <2> QED
    BY <2>1, <2>2
<1>28. ASSUME NEW l \in Worker, WorkerReturns(l) PROVE TypeInv'
  BY <1>28, BlockPairs, VcoresType, MinIsElement DEF WorkerReturns, Worker, ThreadReturns, EalState, LcoreState, WorkerPc
<1>29. CASE UNCHANGED vars
  BY <1>29 DEF vars
<1> QED
  BY <1>1, <1>2, <1>3, <1>4, <1>5, <1>6, <1>7, <1>8, <1>9, <1>10, <1>11, <1>12, <1>13, <1>14, <1>15, <1>16, <1>17, <1>18, <1>19, <1>20, <1>21, <1>22, <1>23, <1>24, <1>25, <1>26, <1>27, <1>28, <1>29
     DEF Next, Requests, RestStep, UndeployStep, Shutdown, WorkerStep

(* Every variable keeps its type, whatever the client asks for and         *)
(* whenever it does: the state of the thread layer, of the blocks and of   *)
(* the two control threads.                                                *)
THEOREM TypeCorrect == Spec => []TypeOK
<1>1. TypeInv => TypeOK
  BY DEF TypeInv
<1> QED
  BY <1>1, TypeInit, TypeStep, PTL DEF Spec

-----------------------------------------------------------------------------
(* An lcore has a thread only while the EAL runs it, and a state of its own *)
(* only while it has one.                                                  *)

ThreadInv ==
  \A l \in Lcore :
    /\ wpc[l] # "off" => eal[l] = "RUNNING"
    /\ lstate[l] = "RUNNING_NATIVE" => wpc[l] # "off"

(* The operations of ssn_native_thread.cc, on any lcore and in any order.  *)
LEMMA ThreadOps ==
  ASSUME TypeOK, ThreadInv, NEW c, NEW l, NEW j,
         \/ UNCHANGED <<eal, wpc, lstate>>
         \/ LaunchStarts(l, j) \/ LaunchRefused(l, j) \/ ThreadCalls(l) \/ ThreadReturns(l)
         \/ JoinLocks(c) \/ JoinWaits(c, l) \/ JoinErases(c, l) \/ JoinThrows(c, l)
  PROVE  ThreadInv'
<1> USE DEF TypeOK, ThreadTypeOK
<1>1. CASE UNCHANGED <<eal, wpc, lstate>> \/ LaunchRefused(l, j) \/ JoinLocks(c) \/ JoinThrows(c, l)
  BY <1>1 DEF ThreadInv, LaunchRefused, JoinLocks, JoinThrows
<1>2. CASE LaunchStarts(l, j)
  BY <1>2 DEF ThreadInv, LaunchStarts
<1>3. CASE ThreadCalls(l)
  BY <1>3 DEF ThreadInv, ThreadCalls
<1>4. CASE ThreadReturns(l)
  BY <1>4 DEF ThreadInv, ThreadReturns
<1>5. CASE JoinWaits(c, l)
  BY <1>5 DEF ThreadInv, JoinWaits
<1>6. CASE JoinErases(c, l)
  BY <1>6 DEF ThreadInv, JoinErases
<1> QED
  BY <1>1, <1>2, <1>3, <1>4, <1>5, <1>6

(* A worker goes round its loop, or leaves it. *)
LEMMA LoopSteps ==
  ASSUME TypeOK, ThreadInv, NEW l \in Worker, wpc[l] # "off",
         NEW to \in {"head", "poll", "ret"}, wpc' = [wpc EXCEPT ![l] = to],
         UNCHANGED <<eal, lstate>>
  PROVE  ThreadInv'
BY DEF ThreadInv, TypeOK, ThreadTypeOK

LEMMA ThreadStep == TypeOK /\ ThreadInv /\ [Next]_vars => ThreadInv'
<1> SUFFICES ASSUME TypeOK, ThreadInv, [Next]_vars PROVE ThreadInv'
  OBVIOUS
<1>1. CASE Requests \/ Stop \/ Shutdown \/ UNCHANGED vars
  <2>1. UNCHANGED <<eal, wpc, lstate>>
    BY <1>1 DEF Requests, ResetCheck, DeployCheck, UndeployCheck, MaskCheck, Request, Stop, Shutdown,
                ShutdownVnf, vars, threadVars
  <2> QED
    BY <2>1, ThreadOps
<1>2. CASE ResetWrite \/ MaskWrite \/ ConfigAcc \/ ConfigAccThrows \/ NextBlock \/ DeployReturns
  <2>1. UNCHANGED <<eal, wpc, lstate>>
    BY <1>2 DEF ResetWrite, MaskWrite, ConfigAcc, ConfigAccThrows, NextBlock, DeployReturns, threadVars
  <2> QED
    BY <2>1, ThreadOps
<1>3. CASE LaunchVcore
  BY <1>3, ThreadOps DEF LaunchVcore
<1>4. CASE LaunchVcoreFails
  BY <1>4, ThreadOps DEF LaunchVcoreFails, threadVars
<1>5. ASSUME NEW c \in Ctl, UndeployStep(c) PROVE ThreadInv'
  <2>1. CASE UndeployBlock(c) \/ StopBlock(c) \/ BlockJoined(c) \/ UndeployReturns(c)
    <3>1. UNCHANGED <<eal, wpc, lstate>>
      BY <2>1 DEF UndeployBlock, StopBlock, BlockJoined, UndeployReturns, threadVars
    <3> QED
      BY <3>1, ThreadOps
  <2>2. CASE JoinVcore(c) \/ JoinVcoreWaits(c) \/ JoinVcoreErases(c) \/ JoinVcoreThrows(c)
    BY <2>2, ThreadOps DEF JoinVcore, JoinVcoreWaits, JoinVcoreErases, JoinVcoreThrows
  <2> QED
    BY <1>5, <2>1, <2>2 DEF UndeployStep
<1>6. ASSUME NEW l \in Worker, WorkerStep(l) PROVE ThreadInv'
  <2>1. CASE WorkerSpawns(l) \/ WorkerReturns(l)
    BY <2>1, ThreadOps DEF WorkerSpawns, WorkerReturns
  <2>2. CASE WorkerEnters(l)
    BY <2>2, LoopSteps DEF WorkerEnters
  <2>3. CASE WorkerIsLost(l)
    <3>1. UNCHANGED <<eal, wpc, lstate>>
      BY <2>3 DEF WorkerIsLost, threadVars
    <3> QED
      BY <3>1, ThreadOps
  <2>4. CASE WorkerLoops(l)
    BY <2>4, LoopSteps DEF WorkerLoops
  <2>5. CASE WorkerPolls(l)
    <3>1. CASE UNCHANGED wpc
      BY <2>5, <3>1, ThreadOps DEF WorkerPolls
    <3>2. CASE wpc' = [wpc EXCEPT ![l] = "head"]
      BY <2>5, <3>2, LoopSteps DEF WorkerPolls
    <3> QED
      BY <2>5, <3>1, <3>2 DEF WorkerPolls
  <2> QED
    BY <1>6, <2>1, <2>2, <2>3, <2>4, <2>5 DEF WorkerStep
<1> QED
  BY <1>1, <1>2, <1>3, <1>4, <1>5, <1>6 DEF Next, RestStep

(* Whatever the client does, an lcore whose state says that it runs a      *)
(* native thread is one the EAL runs: joining never takes a state back too *)
(* late or too early.                                                      *)
THEOREM NativeStateStaysReal == Spec => []NativeStateIsReal
<1>1. Init => ThreadInv
  BY DEF Init, ThreadInit, ThreadInv
<1>2. ThreadInv => NativeStateIsReal
  BY DEF ThreadInv, NativeStateIsReal
<1> QED
  BY <1>1, <1>2, ThreadStep, TypeCorrect, PTL DEF Spec

-----------------------------------------------------------------------------
(***************************************************************************)
(* Proof that Discipline is an invariant, for any number of VNFs, blocks,  *)
(* lcores and queues, and that the safety properties of VnfDeploy follow.  *)
(* The client follows the documented procedure and waits until the threads *)
(* it started have entered their loops; without either the properties      *)
(* fail (see the runs that expect a violation).                            *)
(*                                                                         *)
(* A step touches the blocks of one VNF and keeps the others in the state  *)
(* they are in: Keeps is that frame, and the lemmas of the second part     *)
(* reduce a step to what it does to its own VNF.                           *)
(***************************************************************************)

Keeps(b) ==
  /\ Vcores(b)' = Vcores(b)
  /\ Down(b) => Down(b)'
  /\ Started(b) => Started(b)'
  /\ Polling(b) => Polling(b)'
  /\ \A c \in Ctl : todo'[c] = todo[c] =>
       /\ Launching(c, b) => Launching(c, b)'
       /\ Stopping(c, b) => Stopping(c, b)'

LEMMA TypeFacts ==
  ASSUME TypeInv
  PROVE  /\ eal \in [Lcore -> EalState] /\ wpc \in [Lcore -> WorkerPc]
         /\ tids \in [Lcore -> Nat]
         /\ snt \in [Lcore -> Block \cup {NoJob}]
         /\ job \in [Lcore -> Block \cup {NoJob}]
         /\ vid \in [Lcore -> Nat] /\ running \in [Block -> BOOLEAN]
         /\ coremask \in [Block -> (SUBSET (Lcore \cup {Master})) \cup {Garbage}]
         /\ btids \in [Block -> SUBSET (Lcore \cup {Master})]
         /\ cpc \in [Ctl -> CtlPc] /\ cop \in [Ctl -> CtlOp]
         /\ cvnf \in [Ctl -> Vnf] /\ cblk \in [Ctl -> Nat \ {0}]
         /\ todo \in [Ctl -> SUBSET (Lcore \cup {Master})]
         /\ told \in [Vnf -> Reply]
         /\ Ctl = {"rest", "main"} /\ NoJob \notin Block
         /\ Worker \subseteq Lcore /\ Lcore \subseteq Nat \ {0}
         /\ \A b \in Block : b[1] \in Vnf /\ b[2] \in Nat \ {0} /\ b = <<b[1], b[2]>>
  BY DeployAssumption, ThreadAssumption, BlockPairs
     DEF TypeInv, TypeOK, ThreadTypeOK, Worker

LEMMA InBlocksOf ==
  /\ \A v : BlocksOf(v) \subseteq Block
  /\ \A b \in Block : \A v : b \in BlocksOf(v) <=> b[1] = v
  /\ \A v \in Vnf : <<v, 1>> \in BlocksOf(v)
  /\ \A b \in Block : b[2] <= NBlock[b[1]] /\ NBlock[b[1]] \in Nat
  BY BlockPairs, DeployAssumption DEF BlocksOf

(* The lcores of a block are workers. *)
LEMMA VcoresAreWorkers ==
  ASSUME Disjoint
  PROVE  \A b \in Block : Vcores(b) \subseteq Worker /\ Vcores(b) \subseteq Lcore
  BY DEF Disjoint, Worker

(* A thread that is on a worker lcore belongs to one block, which is not   *)
(* down.                                                                   *)
LEMMA OnOneBlock ==
  ASSUME Disjoint, NEW l \in Worker, Owned(l), eal[l] # "WAIT"
  PROVE  /\ snt[l] \in Block /\ l \in Vcores(snt[l]) /\ l \in btids[snt[l]]
         /\ ~Down(snt[l]) /\ tids[l] > 0
         /\ \A o \in Block : l \in Vcores(o) => o = snt[l]
<1>1. snt[l] \in Block /\ l \in Vcores(snt[l]) /\ l \in btids[snt[l]] /\ tids[l] > 0
  BY DEF Owned
<1>2. \A o \in Block : l \in Vcores(o) => o = snt[l]
  BY <1>1 DEF Disjoint
<1> QED
  BY <1>1, <1>2 DEF Down

(* Between requests, once every thread has started, a VNF nobody works on  *)
(* is polled on all of its lcores or on none, and is_running() tells.      *)
LEMMA IsRunningTells ==
  ASSUME TypeInv, Discipline, NEW v \in Vnf, ~AtWork(v), Settled
  PROVE  /\ VnfRunning(v) => \A b \in BlocksOf(v) : Polling(b)
         /\ ~VnfRunning(v) => \A b \in BlocksOf(v) : Down(b)
         /\ ~VnfRunning(v) /\ up => told[v] # "up"
<1>0. /\ Disjoint /\ AtRest(v) /\ \A l \in Worker : Owned(l)
      /\ <<v, 1>> \in BlocksOf(v) /\ BlocksOf(v) \subseteq Block
  BY InBlocksOf DEF Discipline
<1>1. CASE \A b \in BlocksOf(v) : Started(b)
  <2>1. ASSUME NEW b \in BlocksOf(v) PROVE Polling(b)
    <3>1. Vcores(b) \subseteq Lcore
      BY <1>0, VcoresAreWorkers
    <3> QED
      BY <1>1, <3>1 DEF Started, Live, Settled, Polling
  <2> QED
    BY <1>1, <2>1 DEF VnfRunning, Polling
<1>2. CASE \A b \in BlocksOf(v) : Down(b)
  <2>1. ~Started(<<v, 1>>)
    <3>1. Vcores(<<v, 1>>) \subseteq Worker
      BY <1>0, VcoresAreWorkers
    <3> QED
      BY <1>0, <1>2, <3>1 DEF Started, Live, Down, Owned
  <2> QED
    BY <1>0, <1>2, <2>1 DEF VnfRunning, Down, AtRest
<1> QED
  BY <1>0, <1>1, <1>2 DEF AtRest

LEMMA VcoresAreNat ==
  ASSUME TypeInv, NEW b \in Block
  PROVE  IsFiniteSet(Vcores(b)) /\ Vcores(b) \subseteq Nat
<1>1. TypeOK
  BY DEF TypeInv
<1>2. Lcore \cup {Master} \subseteq Nat
  BY ThreadAssumption DEF Master
<1>3. IsFiniteSet(Vcores(b)) /\ Vcores(b) \in SUBSET (Lcore \cup {Master})
  BY <1>1, VcoresType
<1> QED
  BY <1>2, <1>3

(* Vcore ids number the lcores of a block from 0, in ascending order. *)
LEMMA VcoreIdBelow ==
  ASSUME TypeInv, NEW b \in Block, NEW l \in Vcores(b)
  PROVE  VcoreId(b, l) < Cardinality(Vcores(b))
<1> DEFINE V == Vcores(b)
<1> DEFINE T == {k \in V : k < l}
<1>1. IsFiniteSet(V) /\ V \subseteq Nat
  BY VcoresAreNat
<1>2. T \subseteq V /\ T # V
  BY <1>1
<1>3. IsFiniteSet(T) /\ Cardinality(T) <= Cardinality(V) /\ Cardinality(T) # Cardinality(V)
  BY <1>1, <1>2, FS_Subset
<1>4. Cardinality(T) \in Nat /\ Cardinality(V) \in Nat
  BY <1>1, <1>3, FS_CardinalityType
<1> QED
  BY <1>3, <1>4 DEF VcoreId

LEMMA VcoreIdDiffers ==
  ASSUME TypeInv, NEW b \in Block, NEW k \in Vcores(b), NEW l \in Vcores(b), k # l
  PROVE  VcoreId(b, k) # VcoreId(b, l)
<1>1. Vcores(b) \subseteq Nat /\ IsFiniteSet(Vcores(b))
  BY VcoresAreNat
<1>2. ASSUME NEW x \in Vcores(b), NEW y \in Vcores(b), x < y
      PROVE  VcoreId(b, x) # VcoreId(b, y)
  <2> DEFINE S == {j \in Vcores(b) : j < x}
  <2> DEFINE T == {j \in Vcores(b) : j < y}
  <2>1. S \subseteq T /\ x \in T /\ x \notin S
    BY <1>1, <1>2
  <2>2. IsFiniteSet(T)
    BY <1>1, FS_Subset
  <2>3. Cardinality(S) # Cardinality(T)
    BY <2>1, <2>2, FS_Subset
  <2> QED
    BY <2>3 DEF VcoreId
<1> QED
  BY <1>1, <1>2

-----------------------------------------------------------------------------
(* A block keeps its state in a step that changes neither its flag, nor    *)
(* its coremask, nor the threads on its lcores.                            *)
LEMMA BlockKept ==
  ASSUME NEW b \in Block,
         coremask'[b] = coremask[b], running'[b] = running[b],
         btids[b] \subseteq btids'[b],
         \A l \in Vcores(b) : eal'[l] = eal[l] /\ wpc'[l] = wpc[l]
  PROVE  Keeps(b)
<1>1. Vcores(b)' = Vcores(b)
  BY DEF Vcores
<1>2. (Down(b) => Down(b)') /\ (Polling(b) => Polling(b)')
  BY <1>1 DEF Down, Polling
<1>3. \A l \in Vcores(b) : Live(l, b) => Live(l, b)'
  BY DEF Live
<1>4. Started(b) => Started(b)'
  BY <1>1, <1>3 DEF Started
<1>5. ASSUME NEW c \in Ctl, todo'[c] = todo[c], Launching(c, b)
      PROVE  Launching(c, b)'
  BY <1>1, <1>3, <1>5 DEF Launching
<1>6. ASSUME NEW c \in Ctl, todo'[c] = todo[c], Stopping(c, b)
      PROVE  Stopping(c, b)'
  BY <1>1, <1>6 DEF Stopping
<1> QED
  BY <1>1, <1>2, <1>4, <1>5, <1>6 DEF Keeps

LEMMA ProgressKept ==
  ASSUME NEW c \in Ctl, NEW b \in Block, Progress(c, b), Keeps(b),
         cpc'[c] = cpc[c], cblk'[c] = cblk[c], todo'[c] = todo[c],
         cvnf'[c] = cvnf[c], told'[cvnf[c]] = told[cvnf[c]]
  PROVE  Progress(c, b)'
  BY DEF Progress, Keeps

LEMMA RestKept ==
  ASSUME NEW w \in Vnf, AtRest(w), AtWork(w) => AtWork(w)',
         told'[w] = told[w], up' => up,
         ~AtWork(w) => \A b \in BlocksOf(w) : Keeps(b)
  PROVE  AtRest(w)'
<1> SUFFICES ASSUME ~AtWork(w) PROVE AtRest(w)'
  BY DEF AtRest
<1>1. \A b \in BlocksOf(w) : (Started(b) => Started(b)') /\ (Down(b) => Down(b)')
  BY DEF Keeps
<1> QED
  BY <1>1, InBlocksOf DEF AtRest, BlocksOf

(* A step that touches no thread and no block. *)
LEMMA QuietStep ==
  ASSUME Discipline,
         UNCHANGED <<eal, wpc, tids, snt, job, vid, running, coremask, btids>>
  PROVE  /\ \A l \in Worker : Owned(l)' /\ Numbered(l)'
         /\ \A b \in Block : Keeps(b)
         /\ cpc'["rest"] # "mask" => Disjoint'
         /\ Settled' <=> Settled
<1>1. \A b \in Block : Vcores(b)' = Vcores(b)
  BY DEF Vcores
<1>2. ASSUME NEW l \in Worker PROVE Owned(l)' /\ Numbered(l)'
  BY <1>1 DEF Discipline, Owned, Numbered, VcoreId, Vcores
<1>3. cpc'["rest"] # "mask" => Disjoint'
  BY <1>1 DEF Discipline, Disjoint
<1>4. Settled' <=> Settled
  BY DEF Settled
<1> QED
  BY <1>2, <1>3, <1>4, BlockKept

-----------------------------------------------------------------------------
(* Discipline is kept by the four kinds of step: a control thread begins   *)
(* with a VNF, goes on with it, or is done with it, or a worker moves.     *)
LEMMA RequestBegins ==
  ASSUME Client = "settled", TypeInv, Discipline, NEW v \in Vnf, NEW op, NEW pc,
         Request(op, v, pc), todo' = todo,
         pc \in {"reset", "mask", "config", "undeploy"}, op # "none",
         pc = "undeploy" => op = "undeploy",
         Disjoint', \A b \in BlocksOf(v) : Progress("rest", b)'
  PROVE  Discipline'
<1>1. /\ up /\ Settled /\ cpc["rest"] = "idle" /\ cpc["main"] = "idle"
      /\ cpc' = [cpc EXCEPT !["rest"] = pc] /\ cop' = [cop EXCEPT !["rest"] = op]
      /\ cvnf' = [cvnf EXCEPT !["rest"] = v]
      /\ UNCHANGED <<threadVars, blockVars, vid, told, up, crashed>>
  BY DEF Request, Ready, Discipline, OneAtATime
<1>2. /\ \A l \in Worker : Owned(l)' /\ Numbered(l)'
      /\ \A b \in Block : Keeps(b)
  BY <1>1, QuietStep DEF threadVars, blockVars
<1>3. OneAtATime'
  BY <1>1, TypeFacts DEF Discipline, OneAtATime
<1>4. \A k \in Ctl : cpc'[k] # "idle" => \A b \in BlocksOf(cvnf'[k]) : Progress(k, b)'
  BY <1>1, TypeFacts DEF BlocksOf
<1>5. \A k \in Ctl : Joining(k)'
  BY <1>1, TypeFacts DEF Joining
<1>6. ASSUME NEW w \in Vnf PROVE AtRest(w)'
  <2>1. ~AtWork(w) /\ AtRest(w)
    BY <1>1, TypeFacts DEF AtWork, Discipline
  <2> QED
    BY <1>1, <1>2, <2>1, RestKept, InBlocksOf
<1> QED
  BY <1>1, <1>2, <1>3, <1>4, <1>5, <1>6 DEF Discipline, BlocksOf

LEMMA ControlGoesOn ==
  ASSUME TypeInv, Discipline, NEW c \in Ctl, NEW pc, cpc[c] # "idle",
         cpc' = [cpc EXCEPT ![c] = pc], pc # "idle",
         pc \in {"undeploy", "stop", "join", "wait", "erase"} => cop[c] = "undeploy",
         pc \in {"reset", "mask", "config", "launch"} => c = "rest",
         UNCHANGED <<cop, cvnf, told, up, crashed>>,
         ~up => (Settled => Settled'),
         Disjoint', \A l \in Worker : Owned(l)' /\ Numbered(l)',
         \A b \in BlocksOf(cvnf[c]) : Progress(c, b)', Joining(c)',
         \A b \in Block : b[1] # cvnf[c] => Keeps(b)
  PROVE  Discipline'
<1>1. OneAtATime /\ \A k \in Ctl : k # c => cpc[k] = "idle"
  BY TypeFacts DEF Discipline, OneAtATime
<1>2. OneAtATime'
  BY <1>1, TypeFacts DEF OneAtATime
<1>3. ASSUME NEW k \in Ctl, k # c PROVE cpc'[k] = "idle" /\ Joining(k)'
  BY <1>1, <1>3, TypeFacts DEF Joining
<1>4. ASSUME NEW w \in Vnf PROVE AtRest(w)'
  <2>1. AtWork(cvnf[c])' /\ AtWork(cvnf[c])
    BY TypeFacts DEF AtWork
  <2>2. CASE w = cvnf[c]
    BY <2>1, <2>2 DEF AtRest
  <2>3. CASE w # cvnf[c]
    <3>1. AtRest(w) /\ ~AtWork(w)
      BY <1>1, <2>3 DEF Discipline, AtWork
    <3>2. \A b \in BlocksOf(w) : Keeps(b)
      BY <2>3, InBlocksOf
    <3> QED
      BY <3>1, <3>2, RestKept
  <2> QED
    BY <2>2, <2>3
<1> QED
  BY <1>2, <1>3, <1>4 DEF Discipline, BlocksOf

LEMMA ControlIsDone ==
  ASSUME TypeInv, Discipline, NEW c \in Ctl, cpc[c] # "idle",
         cpc' = [cpc EXCEPT ![c] = "idle"], cop' = [cop EXCEPT ![c] = "none"],
         UNCHANGED <<cvnf, up, crashed>>,
         \A w \in Vnf : w # cvnf[c] => told'[w] = told[w],
         ~up => (Settled => Settled'),
         Disjoint', \A l \in Worker : Owned(l)' /\ Numbered(l)',
         \A b \in Block : b[1] # cvnf[c] => Keeps(b),
         \/ (\A b \in BlocksOf(cvnf[c]) : Started(b)') /\ (up => told'[cvnf[c]] = "up")
         \/ (\A b \in BlocksOf(cvnf[c]) : Down(b)') /\ (up => told'[cvnf[c]] # "up")
  PROVE  Discipline'
<1>1. OneAtATime /\ \A k \in Ctl : k # c => cpc[k] = "idle"
  BY TypeFacts DEF Discipline, OneAtATime
<1>2. OneAtATime'
  BY <1>1, TypeFacts DEF OneAtATime
<1>3. ASSUME NEW k \in Ctl PROVE cpc'[k] = "idle" /\ Joining(k)'
  BY <1>1, <1>3, TypeFacts DEF Joining
<1>4. ASSUME NEW w \in Vnf PROVE AtRest(w)'
  <2>1. CASE w = cvnf[c]
    BY <2>1 DEF AtRest, BlocksOf
  <2>2. CASE w # cvnf[c]
    <3>1. AtRest(w) /\ ~AtWork(w)
      BY <1>1, <2>2 DEF Discipline, AtWork
    <3>2. \A b \in BlocksOf(w) : Keeps(b)
      BY <2>2, InBlocksOf
    <3> QED
      BY <2>2, <3>1, <3>2, RestKept
  <2> QED
    BY <2>1, <2>2
<1> QED
  BY <1>2, <1>3, <1>4 DEF Discipline

LEMMA WorkerMoves ==
  ASSUME TypeInv, Discipline,
         UNCHANGED <<coremask, ctlVars, told, up, crashed>>,
         Settled => Settled',
         \A l \in Worker : Owned(l)' /\ Numbered(l)',
         \A l \in Lcore : eal'[l] # eal[l] => eal[l] # "WAIT" /\ eal'[l] # "WAIT",
         \A l \in Lcore : tids'[l] = tids[l],
         \A b \in Block : Keeps(b)
  PROVE  Discipline'
<1>1. Disjoint'
  BY DEF Discipline, Disjoint, Vcores, ctlVars, Here
<1>2. OneAtATime'
  BY DEF Discipline, OneAtATime, ctlVars
<1>3. ASSUME NEW c \in Ctl, cpc'[c] # "idle", NEW b \in BlocksOf(cvnf'[c])
      PROVE  Progress(c, b)'
  BY <1>3, ProgressKept, InBlocksOf DEF Discipline, ctlVars
<1>4. ASSUME NEW c \in Ctl PROVE Joining(c)'
  <2>1. CASE cpc[c] \in {"join", "wait", "erase"}
    <3>1. todo[c] \subseteq Lcore
      <4>1. Here(c) \in Block /\ Here(c) \in BlocksOf(cvnf[c]) /\ Here(c)[2] = cblk[c]
        BY <2>1, InBlocksOf, TypeFacts DEF TypeInv, Places, Here
      <4>2. Stopping(c, Here(c)) /\ Disjoint
        BY <2>1, <4>1 DEF Discipline, Progress
      <4> QED
        BY <4>1, <4>2, VcoresAreWorkers DEF Stopping
    <3> QED
      BY <2>1, <3>1 DEF Discipline, Joining, ctlVars
  <2>2. CASE cpc[c] \notin {"join", "wait", "erase"}
    BY <2>2 DEF Joining, ctlVars
  <2> QED
    BY <2>1, <2>2
<1>5. ASSUME NEW w \in Vnf PROVE AtRest(w)'
  BY RestKept, InBlocksOf DEF Discipline, AtWork, ctlVars
<1> QED
  BY <1>1, <1>2, <1>3, <1>4, <1>5 DEF Discipline

-----------------------------------------------------------------------------
(* The requests. *)
LEMMA RequestSteps ==
  ASSUME Client = "settled", Procedure = TRUE, TypeInv, Discipline, Requests
  PROVE  Discipline'
<1>0. ASSUME NEW op, NEW v \in Vnf, NEW pc, Request(op, v, pc)
      PROVE  /\ up /\ Settled /\ ~AtWork(v)
             /\ cpc'["rest"] = pc /\ cvnf'["rest"] = v /\ told' = told
             /\ \A b \in Block : Keeps(b)
             /\ pc # "mask" => Disjoint'
  <2>1. /\ up /\ Settled /\ cpc["rest"] = "idle" /\ cpc["main"] = "idle"
        /\ cpc' = [cpc EXCEPT !["rest"] = pc] /\ cvnf' = [cvnf EXCEPT !["rest"] = v]
        /\ UNCHANGED <<eal, wpc, tids, snt, job, vid, running, coremask, btids, told>>
    BY <1>0 DEF Request, Ready, Discipline, OneAtATime, threadVars, blockVars
  <2> QED
    BY <2>1, QuietStep, TypeFacts DEF AtWork
<1>1. ASSUME NEW v \in Vnf, ResetCheck(v) PROVE Discipline'
  <2>1. Request("reset", v, "reset") /\ ~VnfRunning(v) /\ todo' = todo
    BY <1>1 DEF ResetCheck
  <2>s. /\ up /\ Settled /\ ~AtWork(v)
        /\ cpc'["rest"] = "reset" /\ cvnf'["rest"] = v /\ told' = told
        /\ \A d \in Block : Keeps(d)
    BY <1>0, <2>1
  <2>2. ASSUME NEW b \in BlocksOf(v) PROVE Progress("rest", b)'
    <3>1. Down(b) /\ told[v] # "up" /\ b \in Block
      BY <2>1, <2>s, IsRunningTells, InBlocksOf
    <3> QED
      BY <2>1, <2>s, <3>1 DEF Progress, Keeps
  <2>3. Disjoint'
    BY <1>0, <2>1
  <2> QED
    BY <2>1, <2>2, <2>3, RequestBegins
<1>2. ASSUME NEW v \in Vnf, DeployCheck(v) PROVE Discipline'
  <2>1. /\ Request("deploy", v, "config") /\ ~VnfRunning(v) /\ todo' = todo
        /\ \A b \in BlocksOf(v) : Vcores(b) # {}
    BY <1>2 DEF DeployCheck, Allotted
  <2>s. /\ up /\ Settled /\ ~AtWork(v)
        /\ cpc'["rest"] = "config" /\ cvnf'["rest"] = v /\ told' = told
        /\ \A d \in Block : Keeps(d)
    BY <1>0, <2>1
  <2>2. ASSUME NEW b \in BlocksOf(v) PROVE Progress("rest", b)'
    <3>1. Down(b) /\ b \in Block /\ Vcores(b) # {}
      BY <2>1, <2>s, IsRunningTells, InBlocksOf
    <3> QED
      BY <2>1, <2>s, <3>1 DEF Progress, Keeps
  <2>3. Disjoint'
    <3>1. Request("deploy", v, "config")
      BY <2>1
    <3> QED
      BY <1>0, <3>1
  <2> QED
    BY <2>1, <2>2, <2>3, RequestBegins
<1>3. ASSUME NEW v \in Vnf, UndeployCheck(v) PROVE Discipline'
  <2>1. /\ Request("undeploy", v, "undeploy") /\ VnfRunning(v) /\ todo' = todo
        /\ cblk'["rest"] = 1
    BY <1>3, TypeFacts DEF UndeployCheck
  <2>s. /\ up /\ Settled /\ ~AtWork(v)
        /\ cpc'["rest"] = "undeploy" /\ cvnf'["rest"] = v /\ told' = told
        /\ \A d \in Block : Keeps(d)
    BY <1>0, <2>1
  <2>2. ASSUME NEW b \in BlocksOf(v) PROVE Progress("rest", b)'
    <3>1. Polling(b) /\ b \in Block /\ ~(b[2] < 1)
      BY <2>1, <2>s, IsRunningTells, InBlocksOf, TypeFacts
    <3> QED
      BY <2>1, <2>s, <3>1 DEF Progress, Keeps
  <2>3. Disjoint'
    BY <1>0, <2>1
  <2> QED
    BY <2>1, <2>2, <2>3, RequestBegins
<1>4. ASSUME NEW b \in Block, NEW m \in Mask, MaskCheck(b, m) PROVE Discipline'
  <2>1. /\ Request("mask", b[1], "mask") /\ ~VnfRunning(b[1]) /\ todo' = todo
        /\ b[1] \in Vnf /\ Here("rest")' = b /\ cmask' = m
    BY <1>4, TypeFacts DEF MaskCheck, Request, Here
  <2>s. /\ up /\ Settled /\ ~AtWork(b[1])
        /\ cpc'["rest"] = "mask" /\ cvnf'["rest"] = b[1] /\ told' = told
        /\ \A d \in Block : Keeps(d)
    BY <1>0, <2>1
  <2>2. ASSUME NEW d \in BlocksOf(b[1]) PROVE Progress("rest", d)'
    <3>1. Down(d) /\ told[b[1]] # "up" /\ d \in Block
      BY <2>1, <2>s, IsRunningTells, InBlocksOf
    <3> QED
      BY <2>1, <2>s, <3>1 DEF Progress, Keeps
  <2>3. Disjoint'
    <3>1. m # {} /\ m \subseteq Worker /\ \A o \in Block \ {b} : m \cap Vcores(o) = {}
      BY <1>4 DEF MaskCheck, Available
    <3> QED
      BY <1>0, <2>1, <3>1 DEF Keeps, Disjoint, Discipline
  <2> QED
    BY <2>1, <2>2, <2>3, RequestBegins
<1> QED
  BY <1>1, <1>2, <1>3, <1>4 DEF Requests

-----------------------------------------------------------------------------
(* The handlers that write: reset and coremask. *)
LEMMA WriteSteps ==
  ASSUME TypeInv, Discipline, ResetWrite \/ MaskWrite
  PROVE  Discipline'
<1> DEFINE v == cvnf["rest"]
<1> DEFINE h == Here("rest")
(* The workers that are there belong to other VNFs. *)
<1>0. ASSUME cpc["rest"] \in {"reset", "mask"}
      PROVE  /\ "rest" \in Ctl /\ v \in Vnf /\ up
             /\ \A b \in Block : b[1] = v => Down(b)
             /\ \A l \in Worker : eal[l] # "WAIT" => snt[l] \in Block /\ snt[l][1] # v
             /\ told[v] # "up"
  <2>1. "rest" \in Ctl /\ v \in Vnf /\ up
    BY <1>0, TypeFacts DEF Discipline, OneAtATime
  <2>2. \A b \in BlocksOf(v) : Progress("rest", b)
    BY <1>0, <2>1 DEF Discipline
  <2>3. \A b \in BlocksOf(v) : Down(b) /\ told[v] # "up"
    BY <1>0, <2>2 DEF Progress
  <2>4. ASSUME NEW l \in Worker, eal[l] # "WAIT"
        PROVE  snt[l] \in Block /\ snt[l][1] # v
    <3>1. snt[l] \in Block /\ ~Down(snt[l])
      BY <2>4, OnOneBlock DEF Discipline
    <3> QED
      BY <2>3, <3>1, InBlocksOf
  <2>5. told[v] # "up"
    <3>1. <<v, 1>> \in BlocksOf(v)
      BY <2>1, InBlocksOf
    <3> QED
      BY <2>3, <3>1
  <2>6. \A b \in Block : b[1] = v => Down(b)
    BY <2>3, InBlocksOf
  <2> QED
    BY <2>1, <2>4, <2>5, <2>6
(* A write that leaves the other VNFs alone does not disturb a worker. *)
<1>1. ASSUME cpc["rest"] \in {"reset", "mask"},
             UNCHANGED <<eal, wpc, tids, snt, job, vid, running>>,
             \A b \in Block : b[1] # v => coremask'[b] = coremask[b] /\ btids'[b] = btids[b]
      PROVE  /\ \A l \in Worker : Owned(l)' /\ Numbered(l)'
             /\ \A b \in Block : b[1] # v => Keeps(b)
  <2>1. \A b \in Block : b[1] # v => Keeps(b)
    BY <1>1, BlockKept
  <2>2. ASSUME NEW l \in Worker PROVE Owned(l)' /\ Numbered(l)'
    <3>1. Owned(l) /\ Numbered(l)
      BY DEF Discipline
    <3>2. CASE eal[l] = "WAIT"
      BY <1>1, <3>1, <3>2 DEF Owned, Numbered
    <3>3. CASE eal[l] # "WAIT"
      <4>1. snt[l] \in Block /\ snt[l][1] # v
        BY <1>0, <1>1, <3>3
      <4>2. Vcores(snt[l])' = Vcores(snt[l]) /\ btids'[snt[l]] = btids[snt[l]]
        BY <1>1, <4>1 DEF Vcores
      <4>3. Owned(l)'
        BY <1>1, <3>1, <4>1, <4>2 DEF Owned, Vcores
      <4>4. Numbered(l)'
        BY <1>1, <3>1, <4>1, <4>2 DEF Owned, Numbered, VcoreId, Vcores
      <4> QED
        BY <4>3, <4>4
    <3> QED
      BY <3>2, <3>3
  <2> QED
    BY <2>1, <2>2
<1>2. CASE ResetWrite
  <2>1. /\ cpc["rest"] = "reset"
        /\ \A b \in Block : IF b[1] = v THEN coremask'[b] = {} /\ btids'[b] = {}
                            ELSE coremask'[b] = coremask[b] /\ btids'[b] = btids[b]
        /\ UNCHANGED <<eal, wpc, tids, snt, job, vid, running, cvnf, up, crashed>>
        /\ cpc' = [cpc EXCEPT !["rest"] = "idle"] /\ cop' = [cop EXCEPT !["rest"] = "none"]
        /\ told' = told
    BY <1>2, InBlocksOf, TypeFacts DEF ResetWrite, At, Ends, Goto, threadVars
  <2>2. \A b \in Block : Vcores(b)' = IF b[1] = v THEN {} ELSE Vcores(b)
    BY <2>1, DeployAssumption DEF Vcores
  <2>3. Disjoint'
    <3>1. \A b \in Block : Vcores(b)' \subseteq Worker
      BY <2>2 DEF Discipline, Disjoint
    <3>2. \A b, o \in Block : b # o => Vcores(b)' \cap Vcores(o)' = {}
      BY <2>2 DEF Discipline, Disjoint
    <3>3. cpc'["rest"] = "idle"
      BY <2>1, TypeFacts
    <3> QED
      BY <3>1, <3>2, <3>3 DEF Disjoint
  <2>4. \A b \in BlocksOf(v) : Down(b)'
    BY <1>0, <2>1, <2>2, InBlocksOf DEF Down
  <2>5. /\ \A l \in Worker : Owned(l)' /\ Numbered(l)'
        /\ \A b \in Block : b[1] # v => Keeps(b)
    BY <1>1, <2>1
  <2> QED
    BY <1>0, <2>1, <2>3, <2>4, <2>5, ControlIsDone
<1>3. CASE MaskWrite
  <2>1. /\ cpc["rest"] = "mask" /\ h \in Block /\ h[1] = v
        /\ coremask' = [coremask EXCEPT ![h] = cmask]
        /\ btids' = [btids EXCEPT ![h] = {}]
        /\ UNCHANGED <<eal, wpc, tids, snt, job, vid, running, cvnf, up, crashed>>
        /\ cpc' = [cpc EXCEPT !["rest"] = "idle"] /\ cop' = [cop EXCEPT !["rest"] = "none"]
        /\ told' = told
    BY <1>3, TypeFacts DEF MaskWrite, At, Ends, Goto, threadVars, TypeInv, Places, Here
  <2>2. cmask \subseteq Worker /\ \A o \in Block \ {h} : cmask \cap Vcores(o) = {}
    BY <2>1 DEF Discipline, Disjoint
  <2>3. \A b \in Block : Vcores(b)' = IF b = h THEN cmask ELSE Vcores(b)
    <3>1. cmask # Garbage
      BY DeployAssumption DEF TypeInv, TypeOK
    <3> QED
      BY <2>1, <3>1, TypeFacts DEF Vcores
  <2>4. Disjoint'
    <3>1. \A b \in Block : Vcores(b)' \subseteq Worker
      BY <2>2, <2>3 DEF Discipline, Disjoint
    <3>2. ASSUME NEW b \in Block, NEW o \in Block, b # o
          PROVE  Vcores(b)' \cap Vcores(o)' = {}
      <4>1. Vcores(b) \cap Vcores(o) = {}
        BY <3>2 DEF Discipline, Disjoint
      <4> QED
        BY <2>2, <2>3, <3>2, <4>1
    <3>3. cpc'["rest"] = "idle"
      BY <2>1, TypeFacts
    <3> QED
      BY <3>1, <3>2, <3>3 DEF Disjoint
  <2>5. \A b \in BlocksOf(v) : Down(b)'
    <3> SUFFICES ASSUME NEW b \in BlocksOf(v) PROVE Down(b)'
      OBVIOUS
    <3>1. b \in Block /\ Down(b)
      BY <1>0, <2>1, InBlocksOf
    <3>2. CASE b # h
      BY <2>1, <2>3, <3>1, <3>2 DEF Down
    <3>3. CASE b = h
      <4>1. ASSUME NEW l \in cmask PROVE eal[l] = "WAIT"
        <5>1. l \in Worker
          BY <2>2, <4>1
        <5>2. eal[l] # "WAIT" => snt[l] \in Block /\ l \in Vcores(snt[l]) /\ snt[l] # h
          BY <1>0, <2>1, <5>1, OnOneBlock DEF Discipline
        <5> QED
          BY <2>2, <4>1, <5>2
      <4> QED
        BY <2>1, <2>3, <3>1, <3>3, <4>1 DEF Down
    <3> QED
      BY <3>2, <3>3
  <2>6. /\ \A l \in Worker : Owned(l)' /\ Numbered(l)'
        /\ \A b \in Block : b[1] # v => Keeps(b)
    BY <1>1, <2>1
  <2> QED
    BY <1>0, <2>1, <2>4, <2>5, <2>6, ControlIsDone
<1> QED
  BY <1>2, <1>3

-----------------------------------------------------------------------------
(* The deploy handler. *)
LEMMA DeploySteps ==
  ASSUME TypeInv, Discipline,
         ConfigAcc \/ ConfigAccThrows \/ LaunchVcore \/ LaunchVcoreFails
           \/ NextBlock \/ DeployReturns
  PROVE  Discipline'
<1> DEFINE v == cvnf["rest"]
<1> DEFINE n == cblk["rest"]
<1> DEFINE h == Here("rest")
<1> DEFINE Quiet == UNCHANGED <<eal, wpc, tids, snt, job, vid, running, coremask, btids>>
<1> DEFINE Same == UNCHANGED <<cop, cvnf, told, up, crashed>>
<1>0. cpc["rest"] \in {"config", "launch"} =>
        /\ "rest" \in Ctl /\ v \in Vnf /\ up /\ n \in Nat \ {0}
        /\ \A b \in BlocksOf(v) : b \in Block /\ b[2] \in Nat \ {0} /\ Progress("rest", b)
        /\ \A i \in 1..NBlock[v] : <<v, i>> \in BlocksOf(v)
        /\ NBlock[v] \in Nat \ {0}
  BY InBlocksOf, TypeFacts, BlockPairs, DeployAssumption DEF Discipline, OneAtATime, BlocksOf
(* The vcores of block i are about to be launched. *)
<1>1. ASSUME NEW i \in 1..NBlock[v], cpc["rest"] \in {"config", "launch"}, Quiet, Same,
             Vcores(<<v, i>>) # {}, EnterBlock("rest", v, i),
             \A b \in BlocksOf(v) : /\ b[2] < i => Started(b)
                                    /\ b[2] >= i => Down(b) /\ Vcores(b) # {}
      PROVE  Discipline'
  <2>1. /\ cpc' = [cpc EXCEPT !["rest"] = "launch"]
        /\ cpc'["rest"] = "launch" /\ cblk'["rest"] = i /\ todo'["rest"] = Vcores(<<v, i>>)
    BY <1>1, TypeFacts DEF EnterBlock, Goto
  <2>2. /\ \A l \in Worker : Owned(l)' /\ Numbered(l)'
        /\ \A b \in Block : Keeps(b)
        /\ Disjoint'
    BY <1>1, <2>1, QuietStep
  <2>3. ASSUME NEW b \in BlocksOf(v) PROVE Progress("rest", b)'
    <3>1. b \in Block /\ b[2] \in Nat \ {0}
      BY <1>0, <1>1
    <3>2. b[2] < i => Started(b)'
      BY <1>1, <2>2, <3>1 DEF Keeps
    <3>3. b[2] > i => Down(b)' /\ Vcores(b)' # {}
      BY <1>1, <2>2, <3>1 DEF Keeps
    <3>4. b[2] = i => Launching("rest", b)'
      <4> SUFFICES ASSUME b[2] = i PROVE Launching("rest", b)'
        OBVIOUS
      <4>1. b = <<v, i>>
        BY <3>1, InBlocksOf, TypeFacts
      <4>2. Down(b) /\ Vcores(b) # {} /\ Vcores(b)' = Vcores(b)
        BY <1>1, <2>2, <3>1 DEF Keeps
      <4> QED
        BY <1>1, <2>1, <4>1, <4>2 DEF Launching, Down
    <3> QED
      BY <2>1, <3>2, <3>3, <3>4 DEF Progress
  <2>4. Joining("rest")'
    BY <2>1 DEF Joining
  <2> QED
    BY <1>0, <1>1, <2>1, <2>2, <2>3, <2>4, ControlGoesOn
<1>2. CASE ConfigAcc
  <2>1. cpc["rest"] = "config" /\ Quiet /\ Same /\ EnterBlock("rest", v, 1)
    BY <1>2 DEF ConfigAcc, At, threadVars, blockVars
  <2>2. \A b \in BlocksOf(v) : Down(b) /\ Vcores(b) # {}
    BY <1>0, <2>1 DEF Progress
  <2>3. 1 \in 1..NBlock[v] /\ Vcores(<<v, 1>>) # {}
    BY <1>0, <2>1, <2>2
  <2>4. \A b \in BlocksOf(v) : ~(b[2] < 1)
    BY <1>0, <2>1
  <2> QED
    BY <1>1, <2>1, <2>2, <2>3, <2>4
<1>3. CASE ConfigAccThrows
  <2>1. /\ cpc["rest"] = "config" /\ Quiet /\ UNCHANGED <<cvnf, up, crashed>>
        /\ cpc' = [cpc EXCEPT !["rest"] = "idle"] /\ cop' = [cop EXCEPT !["rest"] = "none"]
        /\ told' = [told EXCEPT ![v] = "failed"] /\ cpc'["rest"] = "idle"
    BY <1>3, TypeFacts DEF ConfigAccThrows, At, Ends, Goto, threadVars, blockVars
  <2>2. /\ \A l \in Worker : Owned(l)' /\ Numbered(l)'
        /\ \A b \in Block : Keeps(b)
        /\ Disjoint'
    BY <2>1, QuietStep
  <2>3. \A b \in BlocksOf(v) : Down(b)'
    BY <1>0, <2>1, <2>2 DEF Progress, Keeps
  <2>4. told'[v] # "up" /\ \A w \in Vnf : w # v => told'[w] = told[w]
    BY <1>0, <2>1, TypeFacts
  <2> QED
    BY <1>0, <2>1, <2>2, <2>3, <2>4, ControlIsDone
<1>4. CASE NextBlock
  <2>1. /\ cpc["rest"] = "launch" /\ Quiet /\ Same /\ EnterBlock("rest", v, n + 1)
        /\ todo["rest"] = {} /\ n < NBlock[v]
    BY <1>4 DEF NextBlock, At, threadVars, blockVars
  <2>2. n + 1 \in 1..NBlock[v]
    BY <1>0, <2>1
  <2>3. ASSUME NEW b \in BlocksOf(v)
        PROVE  /\ b[2] < n + 1 => Started(b)
               /\ b[2] >= n + 1 => Down(b) /\ Vcores(b) # {}
    <3>1. b[2] \in Nat /\ n \in Nat /\ Progress("rest", b)
      BY <1>0, <2>1
    <3>2. b[2] < n + 1 => b[2] < n \/ b[2] = n
      BY <3>1
    <3>3. b[2] >= n + 1 => b[2] > n
      BY <3>1
    <3>4. Launching("rest", b) => Started(b)
      BY <2>1 DEF Launching, Started
    <3> QED
      BY <2>1, <3>1, <3>2, <3>3, <3>4 DEF Progress
  <2>4. Vcores(<<v, n + 1>>) # {}
    <3>1. <<v, n + 1>> \in BlocksOf(v) /\ n + 1 >= n + 1
      BY <1>0, <2>1, <2>2
    <3> QED
      BY <2>3, <3>1
  <2> QED
    BY <1>1, <2>1, <2>2, <2>3, <2>4
<1>5. CASE DeployReturns
  <2>1. /\ cpc["rest"] = "launch" /\ Quiet /\ UNCHANGED <<cvnf, up, crashed>>
        /\ todo["rest"] = {} /\ n = NBlock[v]
        /\ cpc' = [cpc EXCEPT !["rest"] = "idle"] /\ cop' = [cop EXCEPT !["rest"] = "none"]
        /\ told' = [told EXCEPT ![v] = "up"] /\ cpc'["rest"] = "idle"
    BY <1>5, TypeFacts DEF DeployReturns, At, Ends, Goto, threadVars, blockVars
  <2>2. /\ \A l \in Worker : Owned(l)' /\ Numbered(l)'
        /\ \A b \in Block : Keeps(b)
        /\ Disjoint'
    BY <2>1, QuietStep
  <2>3. ASSUME NEW b \in BlocksOf(v) PROVE Started(b)'
    <3>1. b \in Block /\ b[1] = v /\ b[2] \in Nat /\ b[2] <= n /\ n \in Nat /\ Progress("rest", b)
      BY <1>0, <2>1, InBlocksOf
    <3>2. b[2] < n \/ b[2] = n
      BY <3>1
    <3>3. Started(b)
      BY <2>1, <3>1, <3>2 DEF Progress, Launching, Started
    <3> QED
      BY <2>2, <3>1, <3>3 DEF Keeps
  <2>4. told'[v] = "up" /\ \A w \in Vnf : w # v => told'[w] = told[w]
    BY <1>0, <2>1, TypeFacts
  <2> QED
    BY <1>0, <2>1, <2>2, <2>3, <2>4, ControlIsDone
<1>6. CASE LaunchVcore \/ LaunchVcoreFails
  <2> DEFINE l == Min(todo["rest"])
  <2>1. cpc["rest"] = "launch" /\ todo["rest"] # {} /\ h \in Block /\ h \in BlocksOf(v) /\ h[2] = n
    BY <1>6, InBlocksOf, TypeFacts
       DEF LaunchVcore, LaunchVcoreFails, At, TypeInv, Places, Here
  <2>2. Launching("rest", h)
    BY <1>0, <2>1 DEF Progress
  <2>3. Vcores(h) \subseteq Worker /\ Vcores(h) \subseteq Nat \ {0}
    BY <2>1, VcoresAreWorkers, TypeFacts DEF Discipline
  <2>4. l \in todo["rest"] /\ l \in Vcores(h) /\ l \in Worker /\ l \in Lcore /\ l # Master
    BY <2>1, <2>2, <2>3, MinIsElement, TypeFacts DEF Launching, Master
  <2>5. eal[l] = "WAIT" /\ wpc[l] = "off" /\ job[l] = NoJob
    BY <2>2, <2>4 DEF Launching, Discipline, Owned
  <2>6. LaunchVcore
    BY <1>6, <2>4, <2>5 DEF LaunchVcoreFails, LaunchRefused
  <2>7. /\ \A k \in Lcore :
             IF k = l THEN /\ eal'[k] = "RUNNING" /\ wpc'[k] = "spawn" /\ snt'[k] = h
                           /\ tids'[k] > 0
             ELSE /\ eal'[k] = eal[k] /\ wpc'[k] = wpc[k] /\ snt'[k] = snt[k]
                  /\ tids'[k] = tids[k]
        /\ UNCHANGED <<job, vid, running, coremask, cpc, cblk>> /\ Same
        /\ \A b \in Block : btids[b] \subseteq btids'[b] /\ (b = h => l \in btids'[b])
        /\ todo'["rest"] = todo["rest"] \ {l}
    BY <2>1, <2>4, <2>6, TypeFacts DEF LaunchVcore, LaunchStarts, RecordLaunch
  <2>8. \A b \in Block : Vcores(b)' = Vcores(b)
    BY <2>7 DEF Vcores
  <2>9. Disjoint'
    BY <2>1, <2>7, <2>8 DEF Discipline, Disjoint
  <2>10. ASSUME NEW b \in Block, b # h PROVE Keeps(b)
    <3>1. l \notin Vcores(b) /\ Vcores(b) \subseteq Lcore
      BY <2>1, <2>4, <2>10, VcoresAreWorkers DEF Discipline, Disjoint
    <3> QED
      BY <2>7, <3>1, BlockKept
  <2>11. ASSUME NEW k \in Worker PROVE Owned(k)' /\ Numbered(k)'
    <3>1. Owned(k) /\ Numbered(k) /\ k \in Lcore
      BY TypeFacts DEF Discipline
    <3>2. CASE k = l
      <4>1. Owned(k)'
        BY <2>1, <2>4, <2>5, <2>7, <2>8, <3>1, <3>2 DEF Owned
      <4>2. Numbered(k)'
        BY <2>7, <3>1, <3>2 DEF Numbered
      <4> QED
        BY <4>1, <4>2
    <3>3. CASE k # l
      <4>1. Owned(k)'
        BY <2>7, <2>8, <3>1, <3>3 DEF Owned
      <4>2. Numbered(k)'
        BY <2>7, <3>1, <3>3 DEF Numbered, VcoreId, Vcores
      <4> QED
        BY <4>1, <4>2
    <3> QED
      BY <3>2, <3>3
  <2>12. ASSUME NEW b \in BlocksOf(v) PROVE Progress("rest", b)'
    <3>1. b \in Block /\ b[2] \in Nat /\ n \in Nat /\ Progress("rest", b) /\ (b[2] = n => b = h)
      BY <1>0, <2>1, TypeFacts, InBlocksOf DEF Here
    <3>2. CASE b = h
      <4>1. \A k \in Vcores(b) : k # l => (Live(k, b) => Live(k, b)')
        BY <2>3, <2>7, <3>2, TypeFacts DEF Live
      <4>2. \A k \in Vcores(b) : k = l => Live(k, b)'
        BY <2>4, <2>7 DEF Live
      <4>3. \A k \in todo["rest"] \ {l} : eal'[k] = "WAIT"
        BY <2>2, <2>3, <2>7, TypeFacts DEF Launching
      <4>4. Launching("rest", b)'
        BY <2>2, <2>4, <2>7, <2>8, <3>1, <3>2, <4>1, <4>2, <4>3 DEF Launching
      <4> QED
        BY <2>1, <2>7, <3>1, <3>2, <4>4 DEF Progress
    <3>3. CASE b # h
      BY <2>1, <2>7, <2>10, <3>1, <3>3 DEF Progress, Keeps
    <3> QED
      BY <3>2, <3>3
  <2>13. Joining("rest")'
    BY <2>1, <2>7 DEF Joining
  <2>14. cpc' = [cpc EXCEPT !["rest"] = "launch"]
    BY <2>1, <2>7, TypeFacts
  <2>15. \A b \in Block : b[1] # v => Keeps(b)
    BY <2>10 DEF Here
  <2> QED
    BY <1>0, <2>1, <2>7, <2>9, <2>11, <2>12, <2>13, <2>14, <2>15, ControlGoesOn
<1> QED
  BY <1>2, <1>3, <1>4, <1>5, <1>6

-----------------------------------------------------------------------------
(* Undeploying, in the handler and at shutdown. *)
LEMMA UndeploySteps ==
  ASSUME TypeInv, Discipline, NEW c \in Ctl, UndeployStep(c)
  PROVE  Discipline'
<1> DEFINE v == cvnf[c]
<1> DEFINE n == cblk[c]
<1> DEFINE h == Here(c)
<1> DEFINE m == Min(todo[c])
<1> DEFINE Quiet == UNCHANGED <<eal, wpc, tids, snt, job, vid, running, coremask, btids>>
<1> DEFINE Same == UNCHANGED <<cop, cvnf, told, up, crashed>>
<1>0. cpc[c] \in {"undeploy", "stop", "join", "wait", "erase"} =>
        /\ v \in Vnf /\ n \in Nat \ {0} /\ cop[c] = "undeploy" /\ h[2] = n /\ h[1] = v
        /\ \A b \in BlocksOf(v) : /\ b \in Block /\ b[2] \in Nat \ {0} /\ b[2] <= NBlock[v]
                                  /\ Progress(c, b) /\ (b[2] = n => b = h)
        /\ n <= NBlock[v] => h \in BlocksOf(v)
        /\ NBlock[v] \in Nat \ {0}
  BY InBlocksOf, TypeFacts, BlockPairs, DeployAssumption
     DEF Discipline, OneAtATime, BlocksOf, Here
(* The block that is being stopped, and the vcore that is next. *)
<1>1. ASSUME cpc[c] \in {"join", "wait", "erase"}
      PROVE  /\ h \in Block /\ h \in BlocksOf(v) /\ Stopping(c, h)
             /\ todo[c] \subseteq Worker
             /\ todo[c] # {} => m \in todo[c] /\ m \in Lcore
  <2>1. h \in Block /\ h \in BlocksOf(v)
    <3>1. Here(c) \in Block
      BY <1>1 DEF TypeInv, Places
    <3> QED
      BY <1>0, <1>1, <3>1, InBlocksOf
  <2>2. Stopping(c, h)
    BY <1>0, <1>1, <2>1 DEF Progress
  <2>3. todo[c] \subseteq Worker
    BY <2>1, <2>2, VcoresAreWorkers DEF Stopping, Discipline
  <2> QED
    BY <2>1, <2>2, <2>3, MinIsElement, TypeFacts
<1>2. CASE UndeployBlock(c)
  <2>1. cpc[c] = "undeploy" /\ n <= NBlock[v] /\ Quiet /\ Same /\ todo' = todo
    BY <1>2 DEF UndeployBlock, At, threadVars, blockVars
  <2>2. h \in BlocksOf(v) /\ Polling(h)
    BY <1>0, <2>1 DEF Progress
  <2>3. cpc' = [cpc EXCEPT ![c] = "stop"] /\ cpc'[c] = "stop" /\ cblk' = cblk
    BY <1>2, <2>2, TypeFacts DEF UndeployBlock, Goto, Polling
  <2>4. /\ \A l \in Worker : Owned(l)' /\ Numbered(l)'
        /\ \A b \in Block : Keeps(b)
        /\ Disjoint'
    BY <2>1, <2>3, QuietStep, TypeFacts DEF Discipline, OneAtATime
  <2>5. ASSUME NEW b \in BlocksOf(v) PROVE Progress(c, b)'
    BY <1>0, <2>1, <2>3, <2>4 DEF Progress, Keeps
  <2>6. Joining(c)'
    BY <2>3 DEF Joining
  <2>7. Settled => Settled'
    BY <2>1 DEF Settled
  <2> QED
    BY <1>0, <2>1, <2>3, <2>4, <2>5, <2>6, <2>7, ControlGoesOn
<1>3. CASE StopBlock(c)
  <2>1. /\ cpc[c] = "stop" /\ h \in Block /\ h \in BlocksOf(v)
        /\ cpc' = [cpc EXCEPT ![c] = "join"] /\ cpc'[c] = "join"
        /\ todo'[c] = Vcores(h) /\ running'[h] = FALSE
        /\ \A b \in Block : b # h => running'[b] = running[b]
        /\ UNCHANGED <<eal, wpc, tids, snt, job, vid, coremask, btids, cblk>> /\ Same
    <3>1. cpc[c] = "stop" /\ h \in Block
      BY <1>3 DEF StopBlock, At, TypeInv, Places
    <3>2. h \in BlocksOf(v)
      BY <1>0, <3>1, InBlocksOf
    <3> QED
      BY <1>3, <3>1, <3>2, TypeFacts DEF StopBlock, Goto, threadVars
  <2>2. Polling(h) /\ Vcores(h) \subseteq Worker
    BY <1>0, <2>1, VcoresAreWorkers DEF Progress, Discipline
  <2>3. \A l \in Vcores(h) : eal[l] # "WAIT" /\ l \in btids[h]
    <3> SUFFICES ASSUME NEW l \in Vcores(h) PROVE eal[l] # "WAIT" /\ l \in btids[h]
      OBVIOUS
    <3>1. l \in Worker /\ wpc[l] # "off"
      BY <2>2 DEF Polling
    <3>2. eal[l] # "WAIT" /\ Owned(l)
      BY <3>1 DEF Discipline, Owned
    <3> QED
      BY <2>1, <3>1, <3>2, OnOneBlock DEF Discipline
  <2>4. \A b \in Block : Vcores(b)' = Vcores(b)
    BY <2>1 DEF Vcores
  <2>5. Disjoint'
    BY <2>1, <2>4, TypeFacts DEF Discipline, Disjoint, OneAtATime
  <2>6. ASSUME NEW l \in Worker PROVE Owned(l)' /\ Numbered(l)'
    BY <2>1, <2>4 DEF Discipline, Owned, Numbered, VcoreId, Vcores
  <2>7. ASSUME NEW b \in Block, b # h PROVE Keeps(b)
    BY <2>1, <2>7, BlockKept
  <2>8. ASSUME NEW b \in BlocksOf(v) PROVE Progress(c, b)'
    <3>1. CASE b = h
      <4>1. Stopping(c, b)'
        BY <2>1, <2>2, <2>3, <2>4, <3>1 DEF Stopping, Polling
      <4> QED
        BY <1>0, <2>1, <3>1, <4>1 DEF Progress
    <3>2. CASE b # h
      BY <1>0, <2>1, <2>7, <3>2 DEF Progress, Keeps
    <3> QED
      BY <3>1, <3>2
  <2>9. Joining(c)'
    BY <2>1, <2>3 DEF Joining
  <2>10. (Settled => Settled') /\ \A b \in Block : b[1] # v => Keeps(b)
    BY <1>0, <2>1, <2>7 DEF Settled
  <2> QED
    BY <1>0, <2>1, <2>5, <2>6, <2>8, <2>9, <2>10, ControlGoesOn
<1>4. CASE BlockJoined(c)
  <2>1. /\ cpc[c] = "join" /\ Quiet /\ Same
        /\ todo[c] # {} => m \notin btids[h]
        /\ cpc' = [cpc EXCEPT ![c] = "undeploy"] /\ cpc'[c] = "undeploy"
        /\ cblk'[c] = n + 1
    BY <1>4, TypeFacts DEF BlockJoined, At, Goto, threadVars, blockVars
  <2>2. todo[c] = {}
    BY <1>1, <2>1 DEF Stopping
  <2>3. Down(h)
    BY <1>1, <2>1, <2>2 DEF Stopping, Down
  <2>4. /\ \A l \in Worker : Owned(l)' /\ Numbered(l)'
        /\ \A b \in Block : Keeps(b)
        /\ Disjoint'
    BY <2>1, QuietStep, TypeFacts DEF Discipline, OneAtATime
  <2>5. ASSUME NEW b \in BlocksOf(v) PROVE Progress(c, b)'
    <3>1. b \in Block /\ b[2] \in Nat /\ n \in Nat /\ Progress(c, b) /\ (b[2] = n => b = h)
      BY <1>0, <2>1
    <3>2. b[2] < n + 1 => b[2] < n \/ b[2] = n
      BY <3>1
    <3>3. b[2] >= n + 1 => b[2] > n
      BY <3>1
    <3>4. b[2] < n + 1 => Down(b)'
      BY <2>1, <2>3, <2>4, <3>1, <3>2 DEF Progress, Keeps
    <3>5. b[2] >= n + 1 => Polling(b)'
      BY <2>1, <2>4, <3>1, <3>3 DEF Progress, Keeps
    <3> QED
      BY <2>1, <3>1, <3>4, <3>5 DEF Progress
  <2>6. Joining(c)' /\ (Settled => Settled')
    BY <2>1 DEF Joining, Settled
  <2> QED
    BY <1>0, <2>1, <2>4, <2>5, <2>6, ControlGoesOn
<1>5. CASE JoinVcore(c)
  <2>1. /\ cpc[c] = "join" /\ Quiet /\ Same /\ todo' = todo /\ cblk' = cblk
        /\ cpc' = [cpc EXCEPT ![c] = "wait"] /\ cpc'[c] = "wait"
    BY <1>5, TypeFacts DEF JoinVcore, JoinLocks, At, Goto, blockVars
  <2>2. /\ \A l \in Worker : Owned(l)' /\ Numbered(l)'
        /\ \A b \in Block : Keeps(b)
        /\ Disjoint'
    BY <2>1, QuietStep, TypeFacts DEF Discipline, OneAtATime
  <2>3. ASSUME NEW b \in BlocksOf(v) PROVE Progress(c, b)'
    BY <1>0, <2>1, <2>2 DEF Progress, Keeps
  <2>4. Joining(c)' /\ (Settled => Settled')
    BY <2>1 DEF Discipline, Joining, Settled
  <2> QED
    BY <1>0, <2>1, <2>2, <2>3, <2>4, ControlGoesOn
<1>6. CASE JoinVcoreWaits(c)
  <2>1. /\ cpc[c] = "wait" /\ Same /\ todo' = todo /\ cblk' = cblk
        /\ UNCHANGED <<wpc, tids, snt, job, vid, running, coremask, btids>>
        /\ eal[m] # "RUNNING" /\ eal' = [eal EXCEPT ![m] = "WAIT"]
        /\ cpc' = [cpc EXCEPT ![c] = "erase"] /\ cpc'[c] = "erase"
        /\ todo[c] # {}
    BY <1>6, TypeFacts DEF JoinVcoreWaits, JoinWaits, At, Goto, blockVars, TypeInv, Places
  <2>2. /\ m \in todo[c] /\ m \in Worker /\ m \in Lcore /\ eal[m] # "WAIT" /\ wpc[m] = "off"
        /\ tids[m] > 0
    <3>1. m \in todo[c] /\ m \in Worker /\ m \in Lcore
      BY <1>1, <2>1
    <3>2. eal[m] # "WAIT" /\ Owned(m)
      BY <2>1, <3>1 DEF Discipline, Joining
    <3> QED
      BY <2>1, <3>1, <3>2 DEF Owned
  <2>3. \A l \in Lcore : eal'[l] = IF l = m THEN "WAIT" ELSE eal[l]
    BY <2>1, TypeFacts
  <2>4. \A b \in Block : Vcores(b)' = Vcores(b)
    BY <2>1 DEF Vcores
  <2>5. Disjoint'
    BY <2>1, <2>4, TypeFacts DEF Discipline, Disjoint, OneAtATime
  <2>6. ASSUME NEW l \in Worker PROVE Owned(l)' /\ Numbered(l)'
    <3>1. l \in Lcore /\ Owned(l) /\ Numbered(l)
      BY TypeFacts DEF Discipline
    <3>2. Owned(l)'
      BY <2>1, <2>2, <2>3, <2>4, <3>1 DEF Owned
    <3>3. Numbered(l)'
      BY <2>1, <3>1 DEF Numbered, VcoreId, Vcores
    <3> QED
      BY <3>2, <3>3
  <2>7. ASSUME NEW b \in Block PROVE Keeps(b)
    <3>1. Vcores(b) \subseteq Lcore
      BY VcoresAreWorkers DEF Discipline
    <3>2. (Down(b) => Down(b)') /\ (Polling(b) => Polling(b)') /\ (Started(b) => Started(b)')
      BY <2>1, <2>3, <2>4, <3>1 DEF Down, Polling, Started, Live
    <3>3. ASSUME NEW k \in Ctl, Launching(k, b) PROVE Launching(k, b)'
      BY <2>1, <2>3, <2>4, <3>1, <3>3 DEF Launching, Live
    <3>4. ASSUME NEW k \in Ctl, Stopping(k, b) PROVE Stopping(k, b)'
      BY <2>1, <2>3, <2>4, <3>1, <3>4 DEF Stopping
    <3> QED
      BY <2>4, <3>2, <3>3, <3>4 DEF Keeps
  <2>8. ASSUME NEW b \in BlocksOf(v) PROVE Progress(c, b)'
    BY <1>0, <2>1, <2>7 DEF Progress, Keeps
  <2>9. Joining(c)'
    <3>1. todo[c] \subseteq Lcore /\ \A l \in todo[c] : eal[l] # "WAIT"
      BY <1>1, <2>1, TypeFacts DEF Discipline, Joining
    <3> QED
      BY <2>1, <2>2, <2>3, <3>1 DEF Joining
  <2>10. Settled => Settled'
    BY <2>1 DEF Settled
  <2> QED
    BY <1>0, <2>1, <2>5, <2>6, <2>7, <2>8, <2>9, <2>10, ControlGoesOn
<1>7. CASE JoinVcoreErases(c) \/ JoinVcoreThrows(c)
  <2>1. cpc[c] = "erase" /\ todo[c] # {}
    BY <1>7 DEF JoinVcoreErases, JoinVcoreThrows, At, TypeInv, Places
  <2>2. m \in todo[c] /\ m \in Lcore /\ eal[m] = "WAIT" /\ tids[m] > 0
    BY <1>1, <2>1 DEF Discipline, Joining
  <2>3. JoinVcoreErases(c)
    BY <1>7, <2>2 DEF JoinVcoreThrows, JoinThrows
  <2>4. /\ Same /\ cblk' = cblk
        /\ UNCHANGED <<eal, wpc, snt, job, vid, running, coremask, btids>>
        /\ \A l \in Lcore : l # m => tids'[l] = tids[l]
        /\ todo'[c] = todo[c] \ {m}
        /\ cpc' = [cpc EXCEPT ![c] = "join"] /\ cpc'[c] = "join"
    BY <2>3, TypeFacts DEF JoinVcoreErases, JoinErases, At, Goto, blockVars
  <2>5. \A b \in Block : Vcores(b)' = Vcores(b)
    BY <2>4 DEF Vcores
  <2>6. Disjoint'
    BY <2>1, <2>4, <2>5, TypeFacts DEF Discipline, Disjoint, OneAtATime
  <2>7. ASSUME NEW l \in Worker PROVE Owned(l)' /\ Numbered(l)'
    <3>1. l \in Lcore /\ Owned(l) /\ Numbered(l)
      BY TypeFacts DEF Discipline
    <3>2. Owned(l)'
      BY <2>2, <2>4, <2>5, <3>1 DEF Owned
    <3>3. Numbered(l)'
      BY <2>4, <3>1 DEF Numbered, VcoreId, Vcores
    <3> QED
      BY <3>2, <3>3
  <2>8. \A b \in Block : Keeps(b)
    BY <2>4, BlockKept
  <2>9. ASSUME NEW b \in BlocksOf(v) PROVE Progress(c, b)'
    <3>1. CASE b = h
      <4>1. Stopping(c, b)'
        BY <1>1, <2>1, <2>2, <2>4, <2>5, <3>1 DEF Stopping
      <4> QED
        BY <1>0, <2>1, <2>4, <3>1, <4>1 DEF Progress
    <3>2. CASE b # h
      BY <1>0, <2>1, <2>4, <2>8, <3>2 DEF Progress, Keeps
    <3> QED
      BY <3>1, <3>2
  <2>10. Joining(c)' /\ (Settled => Settled')
    BY <2>1, <2>4 DEF Discipline, Joining, Settled
  <2> QED
    BY <1>0, <2>1, <2>4, <2>6, <2>7, <2>8, <2>9, <2>10, ControlGoesOn
<1>8. CASE UndeployReturns(c)
  <2>1. cpc[c] = "undeploy" /\ n > NBlock[v]
    BY <1>8 DEF UndeployReturns, At
  <2>2. /\ Quiet /\ UNCHANGED <<cvnf, up, crashed>>
        /\ cpc' = [cpc EXCEPT ![c] = "idle"] /\ cop' = [cop EXCEPT ![c] = "none"]
        /\ cpc'["rest"] # "mask"
        /\ told' = IF c = "rest" THEN [told EXCEPT ![v] = "down"] ELSE told
    BY <1>0, <1>8, <2>1, TypeFacts
       DEF UndeployReturns, At, Ends, Goto, threadVars, blockVars, Discipline, OneAtATime
  <2>3. /\ \A l \in Worker : Owned(l)' /\ Numbered(l)'
        /\ \A b \in Block : Keeps(b)
        /\ Disjoint'
    BY <2>2, QuietStep
  <2>4. ASSUME NEW b \in BlocksOf(v) PROVE Down(b)'
    <3>1. b \in Block /\ b[2] < n /\ Progress(c, b)
      BY <1>0, <2>1
    <3> QED
      BY <2>1, <2>3, <3>1 DEF Progress, Keeps
  <2>5. /\ up => told'[v] # "up"
        /\ \A w \in Vnf : w # v => told'[w] = told[w]
    <3>1. c = "rest" => told'[v] = "down"
      BY <1>0, <2>1, <2>2, TypeFacts
    <3>2. up => c = "rest"
      BY <2>1, TypeFacts DEF Discipline, OneAtATime
    <3> QED
      BY <1>0, <2>2, <3>1, <3>2, TypeFacts
  <2>6. Settled => Settled'
    BY <2>2 DEF Settled
  <2> QED
    BY <2>1, <2>2, <2>3, <2>4, <2>5, <2>6, ControlIsDone
<1> QED
  BY <1>2, <1>3, <1>4, <1>5, <1>6, <1>7, <1>8 DEF UndeployStep

-----------------------------------------------------------------------------
(* stop() and the shutdown loop of the main thread. *)
LEMMA ShutdownSteps ==
  ASSUME Client = "settled", TypeInv, Discipline, Stop \/ Shutdown
  PROVE  Discipline'
<1>1. CASE Stop
  <2>1. /\ up /\ ~up' /\ Settled /\ cpc["rest"] = "idle"
        /\ UNCHANGED <<eal, wpc, tids, snt, job, vid, running, coremask, btids>>
        /\ UNCHANGED <<cpc, cop, cvnf, cblk, todo, told, crashed>>
    BY <1>1 DEF Stop, Ready, threadVars, blockVars, ctlVars
  <2>2. /\ \A l \in Worker : Owned(l)' /\ Numbered(l)'
        /\ \A b \in Block : Keeps(b)
        /\ Disjoint' /\ Settled'
    BY <2>1, QuietStep
  <2>3. OneAtATime'
    BY <2>1, <2>2 DEF Discipline, OneAtATime
  <2>4. \A c \in Ctl : cpc'[c] = "idle"
    BY <2>1, TypeFacts DEF Discipline, OneAtATime
  <2>5. \A c \in Ctl : Joining(c)'
    BY <2>4 DEF Joining
  <2>6. ASSUME NEW w \in Vnf PROVE AtRest(w)'
    BY <2>1, <2>2, RestKept, InBlocksOf DEF Discipline, AtWork
  <2> QED
    BY <2>1, <2>2, <2>3, <2>4, <2>5, <2>6 DEF Discipline
<1>2. ASSUME NEW v \in Vnf, ShutdownVnf(v) PROVE Discipline'
  <2>1. /\ ~up /\ Settled /\ cpc["rest"] = "idle" /\ cpc["main"] = "idle"
        /\ \A w \in Vnf : ~AtWork(w)
        /\ UNCHANGED <<eal, wpc, tids, snt, job, vid, running, coremask, btids>>
        /\ UNCHANGED <<todo, told, up, crashed>>
    BY <1>2, TypeFacts DEF ShutdownVnf, At, threadVars, blockVars, Discipline, OneAtATime, AtWork
  <2>2. cpc'["rest"] = "idle" /\ cop'["rest"] = cop["rest"]
    BY <1>2, <2>1, TypeFacts DEF ShutdownVnf, Goto
  <2>3. /\ \A l \in Worker : Owned(l)' /\ Numbered(l)'
        /\ \A b \in Block : Keeps(b)
        /\ Disjoint' /\ Settled'
    BY <2>1, <2>2, QuietStep
  <2>4. \A w \in Vnf : AtRest(w)'
    BY <2>1, <2>3, RestKept, InBlocksOf DEF Discipline
  <2>5. CASE VnfRunning(v)
    <3>1. /\ cpc'["main"] = "undeploy" /\ cop'["main"] = "undeploy"
          /\ cvnf'["main"] = v /\ cblk'["main"] = 1
      BY <1>2, <2>5, TypeFacts DEF ShutdownVnf, Goto
    <3>2. OneAtATime'
      BY <2>1, <2>2, <2>3, <3>1, TypeFacts DEF Discipline, OneAtATime
    <3>3. ASSUME NEW b \in BlocksOf(v) PROVE Progress("main", b)'
      <4>1. b \in Block /\ Polling(b) /\ ~(b[2] < 1)
        BY <2>1, <2>5, IsRunningTells, InBlocksOf, TypeFacts
      <4> QED
        BY <2>3, <3>1, <4>1 DEF Progress, Keeps
    <3>4. \A c \in Ctl : Joining(c)'
      BY <2>2, <3>1, TypeFacts DEF Joining
    <3>5. \A c \in Ctl : cpc'[c] # "idle" => \A b \in BlocksOf(cvnf'[c]) : Progress(c, b)'
      BY <2>2, <3>1, <3>3, TypeFacts
    <3> QED
      BY <2>1, <2>3, <2>4, <3>2, <3>4, <3>5 DEF Discipline, BlocksOf
  <2>6. CASE ~VnfRunning(v)
    <3>1. UNCHANGED <<cpc, cop, cvnf, cblk>>
      BY <1>2, <2>6 DEF ShutdownVnf
    <3>2. OneAtATime'
      BY <2>1, <2>3, <3>1 DEF Discipline, OneAtATime
    <3>3. \A c \in Ctl : cpc'[c] = "idle"
      BY <2>1, <3>1, TypeFacts
    <3>4. \A c \in Ctl : Joining(c)'
      BY <3>3 DEF Joining
    <3> QED
      BY <2>1, <2>3, <2>4, <3>2, <3>3, <3>4 DEF Discipline
  <2> QED
    BY <2>5, <2>6
<1> QED
  BY <1>1, <1>2 DEF Shutdown

(* The workers.  A worker in its loop has its vcore, because the handlers  *)
(* that write coremasks run only while the VNF has no worker.              *)
LEMMA WorkerSteps ==
  ASSUME TypeInv, Discipline, NEW l \in Worker, WorkerStep(l)
  PROVE  Discipline'
<1> DEFINE h == snt[l]
<1> DEFINE Same == UNCHANGED <<tids, snt, coremask, btids, ctlVars, told, up, crashed>>
<1>0. l \in Lcore /\ Owned(l) /\ Numbered(l) /\ Disjoint /\ ~crashed
  BY TypeFacts DEF Discipline
<1>1. wpc[l] # "off" =>
        /\ eal[l] = "RUNNING" /\ h \in Block /\ l \in Vcores(h) /\ ~Down(h)
        /\ \A o \in Block : l \in Vcores(o) => o = h
        /\ wpc[l] # "spawn" => job[l] = h
        /\ wpc[l] = "spawn" => job[l] = NoJob
  BY <1>0, OnOneBlock DEF Owned
(* A block whose lcores and flag are left alone keeps its state. *)
<1>2. ASSUME Same, wpc[l] # "off",
             \A k \in Lcore : k # l => eal'[k] = eal[k] /\ wpc'[k] = wpc[k],
             NEW b \in Block, b # h, running'[b] = running[b]
      PROVE  Keeps(b)
  <2>1. l \notin Vcores(b) /\ Vcores(b) \subseteq Lcore
    BY <1>0, <1>1, <1>2, VcoresAreWorkers
  <2> QED
    BY <1>2, <2>1, BlockKept
<1>3. CASE WorkerSpawns(l)
  <2>1. /\ wpc[l] = "spawn" /\ Same /\ UNCHANGED <<eal, running, vid>>
        /\ \A k \in Lcore : wpc'[k] = (IF k = l THEN "entry" ELSE wpc[k])
        /\ \A k \in Lcore : job'[k] = (IF k = l THEN h ELSE job[k])
    BY <1>3, TypeFacts DEF WorkerSpawns, ThreadCalls, blockVars
  <2>2. \A b \in Block : Vcores(b)' = Vcores(b)
    BY <2>1 DEF Vcores
  <2>3. ASSUME NEW k \in Worker PROVE Owned(k)' /\ Numbered(k)'
    <3>1. k \in Lcore /\ Owned(k) /\ Numbered(k)
      BY TypeFacts DEF Discipline
    <3>2. Owned(k)'
      BY <2>1, <2>2, <3>1 DEF Owned
    <3>3. Numbered(k)'
      BY <2>1, <3>1 DEF Numbered, VcoreId, Vcores
    <3> QED
      BY <3>2, <3>3
  <2>4. ASSUME NEW b \in Block, b = h PROVE Keeps(b)
    BY <1>0, <1>1, <2>1, <2>2, <2>4, VcoresAreWorkers
       DEF Keeps, Down, Started, Live, Polling, Launching, Stopping
  <2>5. \A b \in Block : Keeps(b)
    BY <1>2, <2>1, <2>4
  <2>6. Settled => Settled'
    BY <1>0, <2>1 DEF Settled
  <2> QED
    BY <2>1, <2>3, <2>5, <2>6, WorkerMoves
<1>4. CASE WorkerEnters(l)
  <2>1. /\ wpc[l] = "entry" /\ Same /\ UNCHANGED <<eal, job>>
        /\ \A k \in Lcore : wpc'[k] = (IF k = l THEN "head" ELSE wpc[k])
        /\ \A k \in Lcore : vid'[k] = (IF k = l THEN VcoreId(h, l) ELSE vid[k])
        /\ running'[h] /\ \A b \in Block : b # h => running'[b] = running[b]
    BY <1>1, <1>4, TypeFacts DEF WorkerEnters
  <2>2. \A b \in Block : Vcores(b)' = Vcores(b)
    BY <2>1 DEF Vcores
  <2>3. ASSUME NEW k \in Worker PROVE Owned(k)' /\ Numbered(k)'
    <3>1. k \in Lcore /\ Owned(k) /\ Numbered(k)
      BY TypeFacts DEF Discipline
    <3>2. Owned(k)'
      BY <2>1, <2>2, <3>1 DEF Owned
    <3>3. Numbered(k)'
      <4> SUFFICES ASSUME wpc'[k] \in {"head", "poll"} PROVE vid'[k] = VcoreId(job[k], k)
        BY <2>1 DEF Numbered, VcoreId, Vcores
      <4>1. CASE k = l
        <5>1. job[l] = h /\ vid'[l] = VcoreId(h, l)
          BY <1>0, <1>1, <2>1
        <5> QED
          BY <4>1, <5>1
      <4>2. CASE k # l
        BY <2>1, <3>1, <4>2 DEF Numbered
      <4> QED
        BY <4>1, <4>2
    <3> QED
      BY <3>2, <3>3
  <2>4. ASSUME NEW b \in Block, b = h PROVE Keeps(b)
    <3>1. ~Down(b) /\ ~Polling(b) /\ \A c \in Ctl : ~Stopping(c, b)
      BY <1>1, <2>1, <2>4 DEF Polling, Stopping
    <3>2. \A k \in Vcores(b) : Live(k, b) => Live(k, b)'
      BY <1>0, <2>1, <2>4, VcoresAreWorkers DEF Live
    <3>3. Started(b) => Started(b)'
      BY <2>2, <3>2 DEF Started
    <3>4. ASSUME NEW c \in Ctl, todo'[c] = todo[c], Launching(c, b) PROVE Launching(c, b)'
      BY <2>1, <2>2, <3>2, <3>4 DEF Launching
    <3> QED
      BY <2>2, <3>1, <3>3, <3>4 DEF Keeps
  <2>5. \A b \in Block : Keeps(b)
    BY <1>2, <2>1, <2>4
  <2>6. Settled => Settled'
    BY <2>1 DEF Settled
  <2> QED
    BY <2>1, <2>3, <2>5, <2>6, WorkerMoves
<1>5. CASE WorkerIsLost(l)
  BY <1>1, <1>5 DEF WorkerIsLost
<1>6. CASE WorkerLoops(l) \/ WorkerPolls(l)
  <2>1. WorkerPolls(l) => vid[l] < Cardinality(Vcores(h)) /\ job[l] = h
    <3>1. WorkerPolls(l) => vid[l] = VcoreId(h, l) /\ job[l] = h
      BY <1>0, <1>1 DEF WorkerPolls, Numbered
    <3> QED
      BY <1>1, <3>1, VcoreIdBelow DEF WorkerPolls
  <2>2. /\ wpc[l] \in {"head", "poll"} /\ Same /\ UNCHANGED <<eal, job, vid, running>>
        /\ \A k \in Lcore : k # l => wpc'[k] = wpc[k]
        /\ wpc'[l] \in {"head", "poll", "ret"}
        /\ wpc'[l] = "ret" => ~running[h]
    BY <1>0, <1>1, <1>6, <2>1, TypeFacts DEF WorkerLoops, WorkerPolls, blockVars
  <2>3. \A b \in Block : Vcores(b)' = Vcores(b)
    BY <2>2 DEF Vcores
  <2>4. ASSUME NEW k \in Worker PROVE Owned(k)' /\ Numbered(k)'
    <3>1. k \in Lcore /\ Owned(k) /\ Numbered(k)
      BY TypeFacts DEF Discipline
    <3>2. Owned(k)'
      BY <2>2, <2>3, <3>1 DEF Owned
    <3>3. Numbered(k)'
      BY <2>2, <3>1 DEF Numbered, VcoreId, Vcores
    <3> QED
      BY <3>2, <3>3
  <2>5. ASSUME NEW b \in Block, b = h PROVE Keeps(b)
    <3>1. \A k \in Vcores(b) : Live(k, b) => Live(k, b)'
      BY <1>0, <2>2, <2>5, VcoresAreWorkers DEF Live
    <3>2. Started(b) => Started(b)'
      BY <2>3, <3>1 DEF Started
    <3>3. Polling(b) => Polling(b)'
      BY <1>0, <2>2, <2>3, <2>5, VcoresAreWorkers DEF Polling
    <3>4. ASSUME NEW c \in Ctl, todo'[c] = todo[c], Launching(c, b) PROVE Launching(c, b)'
      BY <2>2, <2>3, <3>1, <3>4 DEF Launching
    <3>5. ASSUME NEW c \in Ctl, todo'[c] = todo[c], Stopping(c, b) PROVE Stopping(c, b)'
      BY <1>0, <2>2, <2>3, <3>5, VcoresAreWorkers DEF Stopping
    <3>6. ~Down(b)
      BY <1>1, <2>2, <2>5
    <3> QED
      BY <2>3, <3>2, <3>3, <3>4, <3>5, <3>6 DEF Keeps
  <2>6. \A b \in Block : Keeps(b)
    BY <1>2, <2>2, <2>5
  <2>7. Settled => Settled'
    BY <2>2 DEF Settled
  <2> QED
    BY <2>2, <2>4, <2>6, <2>7, WorkerMoves
<1>7. CASE WorkerReturns(l)
  <2>1. /\ wpc[l] = "ret" /\ Same /\ UNCHANGED <<running, vid>>
        /\ \A k \in Lcore : wpc'[k] = (IF k = l THEN "off" ELSE wpc[k])
        /\ \A k \in Lcore : eal'[k] = (IF k = l THEN "FINISHED" ELSE eal[k])
        /\ \A k \in Lcore : job'[k] = (IF k = l THEN NoJob ELSE job[k])
    BY <1>7, TypeFacts DEF WorkerReturns, ThreadReturns, blockVars
  <2>2. \A b \in Block : Vcores(b)' = Vcores(b)
    BY <2>1 DEF Vcores
  <2>3. ASSUME NEW k \in Worker PROVE Owned(k)' /\ Numbered(k)'
    <3>1. k \in Lcore /\ Owned(k) /\ Numbered(k)
      BY TypeFacts DEF Discipline
    <3>2. Owned(k)'
      BY <1>1, <2>1, <2>2, <3>1 DEF Owned
    <3>3. Numbered(k)'
      BY <2>1, <3>1 DEF Numbered, VcoreId, Vcores
    <3> QED
      BY <3>2, <3>3
  <2>4. ASSUME NEW b \in Block, b = h PROVE Keeps(b)
    <3>1. ~Down(b) /\ ~Started(b) /\ ~Polling(b)
      BY <1>1, <2>1, <2>4 DEF Started, Live, Polling
    <3>2. \A c \in Ctl : ~Launching(c, b)
      BY <1>1, <2>1, <2>4 DEF Launching, Live
    <3>3. ASSUME NEW c \in Ctl, todo'[c] = todo[c], Stopping(c, b) PROVE Stopping(c, b)'
      BY <1>0, <1>1, <2>1, <2>2, <2>4, <3>3, VcoresAreWorkers DEF Stopping
    <3> QED
      BY <2>2, <3>1, <3>2, <3>3 DEF Keeps
  <2>5. \A b \in Block : Keeps(b)
    BY <1>2, <2>1, <2>4
  <2>6. Settled => Settled'
    BY <2>1 DEF Settled
  <2>7. \A k \in Lcore : eal'[k] # eal[k] => eal[k] # "WAIT" /\ eal'[k] # "WAIT"
    BY <1>1, <2>1
  <2> QED
    BY <2>1, <2>3, <2>5, <2>6, <2>7, WorkerMoves
<1> QED
  BY <1>3, <1>4, <1>5, <1>6, <1>7 DEF WorkerStep

-----------------------------------------------------------------------------
LEMMA DisciplineInit == Init => Discipline
<1> SUFFICES ASSUME Init PROVE Discipline
  OBVIOUS
<1>0. TypeInv
  BY TypeInit
<1>1. /\ \A b \in Block : Vcores(b) = {} /\ ~running[b]
      /\ \A c \in Ctl : cpc[c] = "idle" /\ cop[c] = "none"
      /\ \A v \in Vnf : told[v] = "none"
      /\ \A l \in Lcore : wpc[l] = "off" /\ job[l] = NoJob
      /\ \A l \in Worker : eal[l] = "WAIT"
      /\ up /\ ~crashed
  BY <1>0, TypeFacts DEF Init, ThreadInit, Vcores, Worker
<1>2. Disjoint
  BY <1>0, <1>1, TypeFacts DEF Disjoint
<1>3. \A l \in Worker : Owned(l) /\ Numbered(l)
  BY <1>0, <1>1, TypeFacts DEF Owned, Numbered
<1>4. OneAtATime
  BY <1>0, <1>1, TypeFacts DEF OneAtATime
<1>5. \A c \in Ctl : Joining(c)
  BY <1>1 DEF Joining
<1>6. \A v \in Vnf : AtRest(v)
  BY <1>1, InBlocksOf DEF AtRest, Down
<1> QED
  BY <1>1, <1>2, <1>3, <1>4, <1>5, <1>6 DEF Discipline

LEMMA DisciplineStep ==
  ASSUME Client = "settled", Procedure = TRUE, TypeInv, Discipline, [Next]_vars
  PROVE  Discipline'
<1>1. CASE Requests
  BY <1>1, RequestSteps
<1>2. CASE RestStep
  BY <1>2, WriteSteps, DeploySteps DEF RestStep
<1>3. CASE \E c \in Ctl : UndeployStep(c)
  BY <1>3, UndeploySteps
<1>4. CASE Stop \/ Shutdown
  BY <1>4, ShutdownSteps
<1>5. CASE \E l \in Worker : WorkerStep(l)
  BY <1>5, WorkerSteps
<1>6. CASE UNCHANGED vars
  BY <1>6 DEF vars, threadVars, blockVars, ctlVars, Discipline, Disjoint, Owned, Numbered,
              OneAtATime, Settled, AtRest, AtWork, Progress, Joining, VcoreId, Vcores, Here,
              Down, Started, Live, Launching, Polling, Stopping, BlocksOf
<1> QED
  BY <1>1, <1>2, <1>3, <1>4, <1>5, <1>6 DEF Next

(* The assumption about the client, and what then always holds. *)
Disciplined == Client = "settled" /\ Procedure = TRUE

LEMMA DisciplineInvariant ==
  ASSUME Disciplined
  PROVE  Spec => [](TypeInv /\ Discipline)
<1>1. Init => TypeInv /\ Discipline
  BY TypeInit, DisciplineInit
<1>2. TypeInv /\ Discipline /\ [Next]_vars => (TypeInv /\ Discipline)'
  BY TypeStep, DisciplineStep DEF Disciplined
<1> QED
  BY <1>1, <1>2, PTL DEF Spec

(* No handler writes coremasks, vcores or accessors of a VNF while a       *)
(* worker is inside deploy_impl of one of its blocks.                      *)
THEOREM ConfigurationIsExclusive ==
  ASSUME Disciplined
  PROVE  Spec => []NoConfigRace
<1>1. TypeInv /\ Discipline => NoConfigRace
  <2> SUFFICES ASSUME TypeInv, Discipline, cpc["rest"] \in {"reset", "mask", "config"},
                      NEW l \in Worker, job[l] \in BlocksOf(cvnf["rest"])
               PROVE  FALSE
    BY DEF NoConfigRace, Inside
  <2>1. Owned(l) /\ "rest" \in Ctl /\ job[l] \in Block /\ job[l] # NoJob
    BY InBlocksOf, TypeFacts DEF Discipline
  <2>2. eal[l] # "WAIT" /\ snt[l] = job[l]
    BY <2>1 DEF Owned
  <2>3. Down(job[l])
    BY <2>1 DEF Discipline, Progress
  <2> QED
    BY <2>2, <2>3, OnOneBlock DEF Discipline
<1> QED
  BY <1>1, DisciplineInvariant, PTL

(* The launch of a vcore always finds the lcore idle. *)
THEOREM LaunchFindsIdleLcore ==
  ASSUME Disciplined
  PROVE  Spec => []LcoreIsFree
<1>1. TypeInv /\ Discipline => LcoreIsFree
  <2> SUFFICES ASSUME TypeInv, Discipline, cpc["rest"] = "launch", todo["rest"] # {}
               PROVE  eal[Min(todo["rest"])] = "WAIT"
    BY DEF LcoreIsFree
  <2> DEFINE h == Here("rest")
  <2>1. "rest" \in Ctl /\ h \in BlocksOf(cvnf["rest"]) /\ h \in Block /\ h[2] = cblk["rest"]
    BY InBlocksOf, TypeFacts DEF TypeInv, Places, Here
  <2>2. Launching("rest", h)
    BY <2>1 DEF Discipline, Progress
  <2>3. todo["rest"] \subseteq Nat
    BY <2>1, <2>2, VcoresAreNat DEF Launching
  <2> QED
    BY <2>2, <2>3, MinIsElement DEF Launching
<1> QED
  BY <1>1, DisciplineInvariant, PTL

(* Two workers of a block use different vcores, so different access ids.   *)
THEOREM QueuesAreExclusive ==
  ASSUME Disciplined
  PROVE  Spec => []QueueExclusive
<1>1. TypeInv /\ Discipline => QueueExclusive
  <2> SUFFICES ASSUME TypeInv, Discipline, NEW k \in Worker, NEW l \in Worker, k # l,
                      wpc[k] = "poll", wpc[l] = "poll", job[k] = job[l]
               PROVE  vid[k] # vid[l]
    BY DEF QueueExclusive
  <2>1. /\ Owned(k) /\ Owned(l)
        /\ vid[k] = VcoreId(job[k], k) /\ vid[l] = VcoreId(job[k], l)
    BY DEF Discipline, Numbered
  <2>2. job[k] \in Block /\ k \in Vcores(job[k]) /\ l \in Vcores(job[k])
    BY <2>1 DEF Owned
  <2> QED
    BY <2>1, <2>2, VcoreIdDiffers
<1> QED
  BY <1>1, DisciplineInvariant, PTL

(* No exception leaves a worker or the main thread. *)
THEOREM NothingTerminates ==
  ASSUME Disciplined
  PROVE  Spec => []NoCrash
<1>1. Discipline => NoCrash
  BY DEF Discipline, NoCrash
<1> QED
  BY <1>1, DisciplineInvariant, PTL

(* A join that has awaited its lcore finds the entry to erase. *)
THEOREM JoinsSucceed ==
  ASSUME Disciplined
  PROVE  Spec => []JoinFindsThread
<1>1. TypeInv /\ Discipline => JoinFindsThread
  <2> SUFFICES ASSUME TypeInv, Discipline, NEW c \in Ctl, cpc[c] = "erase"
               PROVE  tids[Min(todo[c])] > 0
    BY DEF JoinFindsThread
  <2> DEFINE h == Here(c)
  <2>1. h \in BlocksOf(cvnf[c]) /\ h \in Block /\ h[2] = cblk[c] /\ todo[c] # {}
    BY InBlocksOf, TypeFacts DEF TypeInv, Places, Here
  <2>2. Stopping(c, h)
    BY <2>1 DEF Discipline, Progress
  <2>3. Min(todo[c]) \in todo[c]
    BY <2>1, <2>2, VcoresAreNat, MinIsElement DEF Stopping
  <2> QED
    BY <2>3 DEF Discipline, Joining
<1> QED
  BY <1>1, DisciplineInvariant, PTL

(* What the client was last told of a VNF is so, once threads have had the *)
(* time to start.                                                          *)
THEOREM RepliesHold ==
  ASSUME Disciplined
  PROVE  Spec => []RepliesAreTrue
<1>1. TypeInv /\ Discipline => RepliesAreTrue
  <2> SUFFICES ASSUME TypeInv, Discipline, up, cpc["rest"] = "idle", Settled, NEW v \in Vnf
               PROVE  IF told[v] = "up"
                      THEN \A b \in BlocksOf(v), l \in Worker :
                             l \in Vcores(b) <=> InLoop(l, b)
                      ELSE Inside(v) = {}
    BY DEF RepliesAreTrue
  <2>0. /\ AtRest(v) /\ Disjoint /\ ~AtWork(v) /\ <<v, 1>> \in BlocksOf(v)
        /\ \A l \in Worker : Owned(l) /\ l \in Lcore
    BY InBlocksOf, TypeFacts DEF Discipline, OneAtATime, AtWork
  (* A worker that runs something is one of the block it runs. *)
  <2>1. ASSUME NEW l \in Worker, job[l] # NoJob
        PROVE  job[l] = snt[l] /\ eal[l] # "WAIT" /\ l \in Vcores(job[l]) /\ ~Down(job[l])
    <3>1. job[l] = snt[l] /\ eal[l] # "WAIT"
      BY <2>0, <2>1 DEF Owned
    <3> QED
      BY <2>0, <3>1, OnOneBlock
  <2>2. CASE told[v] = "up"
    <3> SUFFICES ASSUME NEW b \in BlocksOf(v), NEW l \in Worker
                 PROVE  l \in Vcores(b) <=> InLoop(l, b)
      BY <2>2
    <3>1. b \in Block /\ Started(b) /\ Vcores(b) \subseteq Lcore /\ b # NoJob
      BY <2>0, <2>2, InBlocksOf, VcoresAreWorkers, TypeFacts DEF AtRest
    <3>2. ASSUME l \in Vcores(b) PROVE InLoop(l, b)
      <4>1. wpc[l] \in {"head", "poll"}
        BY <2>0, <3>1, <3>2 DEF Started, Live, Settled
      <4>2. job[l] = snt[l] /\ eal[l] # "WAIT"
        BY <2>0, <4>1 DEF Owned
      <4>3. snt[l] = b
        BY <2>0, <3>1, <3>2, <4>2, OnOneBlock
      <4> QED
        BY <4>1, <4>2, <4>3 DEF InLoop
    <3>3. InLoop(l, b) => l \in Vcores(b)
      BY <2>1, <3>1 DEF InLoop
    <3> QED
      BY <3>2, <3>3
  <2>3. CASE told[v] # "up"
    <3>1. \A b \in BlocksOf(v) : Down(b) /\ b # NoJob
      BY <2>0, <2>3, InBlocksOf, TypeFacts DEF AtRest
    <3> QED
      BY <2>1, <2>3, <3>1 DEF Inside
  <2> QED
    BY <2>2, <2>3
<1> QED
  BY <1>1, DisciplineInvariant, PTL
=============================================================================
