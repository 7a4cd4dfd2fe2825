-------------------------- MODULE VnfConfigProofs ---------------------------
(***************************************************************************)
(* Proofs about VnfConfig, for any VNFs, ports, panels, lcores and queues. *)
(* What a VNF with workers owns is right whatever the client does, unless  *)
(* it was stripped (Attached); that it is not stripped, and what its       *)
(* workers hold, is right when the client keeps to the procedure (Careful):*)
(* it resets a VNF after it has changed a port, gives every block a        *)
(* coremask before it deploys, and lets workers start before it goes on.   *)
(***************************************************************************)
EXTENDS VnfConfig, MaAccessProofs, FiniteSetTheorems

(* A port is attached in one place, and knows to whom. *)
Owners ==
  \A v \in Vnf :
    /\ \A i \in Slot : slot[v][i] # NoPort => owner[slot[v][i]] = v
    /\ slot[v][0] = slot[v][1] => slot[v][0] = NoPort

Complete(v) == \A i \in Slot : Usable(slot[v][i]) /\ owner[slot[v][i]] = v

Attached == TypeOK /\ Owners /\ \A v \in Polled \ stripped : Complete(v)

(* The accesses v holds to its port i. *)
Held(v, s, i) == {g \in grant[v] : g.side = s /\ g.slot = i}

(* Their ids number the accesses "count" has of the port, one by one. *)
Dealt(v, count) ==
  \A s \in Side, i \in Slot :
    /\ \A g \in Held(v, s, i) : g.aid < count[slot[v][i]][s]
    /\ \A a \in Accessors(count[slot[v][i]][s]) : \E g \in Held(v, s, i) : g.aid = a
    /\ \A g, h \in Held(v, s, i) : g.aid = h.aid => g = h

(* Between reset and deploy the ports of a VNF count its own accesses. *)
Books(v) ==
  /\ AllAttached(v)
  /\ Dealt(v, nacc)
  /\ \A b \in BlocksOf(v) : mask[v][b] # Garbage
  /\ \A b \in BlocksOf(v) :
       IF mask[v][b] = {}
       THEN \A g \in grant[v] : g.blk # b
       ELSE \A a \in Asked(v, b) : nacc[slot[v][a[2]]][a[1]] > 0

(* From deploy on the devices are configured for them. *)
Ready(v) ==
  /\ Dealt(v, acc)
  /\ \A s \in Side, i \in Slot :
       LET n == acc[slot[v][i]][s] IN n > 0 /\ Divides(n, NQueue)

(* A careful client's VNF has all its workers or none, and with it what    *)
(* is_running() says once the workers had their time is the truth.         *)
Careful ==
  /\ ~crashed /\ stripped = {}
  /\ \A v \in Vnf : launched[v] \in {{}, BlocksOf(v)}
  /\ \A v \in fresh : Books(v)
  /\ \A v \in Polled : Ready(v)

Kept == Attached /\ (procedure => Careful)

-----------------------------------------------------------------------------
(* What holds for any client.                                              *)

LEMMA AttachedInit ==
  ASSUME Init
  PROVE  Attached /\ Careful
<1>1. TypeOK
  <2>1. \A v \in Vnf : mask[v] \in [BlocksOf(v) -> (SUBSET Lcore) \cup {Garbage}]
    BY DEF Init
  <2>2. \A v \in Vnf : running[v] \subseteq launched[v] /\ launched[v] \subseteq BlocksOf(v)
    BY DEF Init
  <2>3. procedure \in BOOLEAN
    BY ConfigAssumption DEF Init
  <2> QED
    BY <2>1, <2>2, <2>3 DEF Init, TypeOK, Zero
<1>2. Owners
  BY DEF Init, Owners, Slot
<1>3. Polled = {}
  BY DEF Init, Polled
<1> QED
  BY <1>1, <1>2, <1>3 DEF Init, Attached, Careful

LEMMA RankBounds ==
  ASSUME NEW m \in SUBSET Lcore, NEW l \in m
  PROVE  /\ IsFiniteSet(m) /\ Cardinality(m) \in Nat \ {0}
         /\ Rank(m, l) \in Nat /\ Rank(m, l) < Cardinality(m)
<1> DEFINE T == {k \in m : k < l}
<1>1. IsFiniteSet(m) /\ m \subseteq Nat
  BY ConfigAssumption, FS_Subset
<1>2. T \in SUBSET m /\ T # m
  BY <1>1
<1>3. IsFiniteSet(T) /\ Cardinality(T) <= Cardinality(m) /\ Cardinality(T) # Cardinality(m)
  BY <1>1, <1>2, FS_Subset
<1>4. Cardinality(T) \in Nat /\ Cardinality(m) \in Nat
  BY <1>1, <1>3, FS_CardinalityType
<1> QED
  BY <1>1, <1>3, <1>4 DEF Rank

LEMMA CardNat ==
  ASSUME NEW m \in SUBSET Lcore
  PROVE  IsFiniteSet(m) /\ Cardinality(m) \in Nat
BY ConfigAssumption, FS_Subset, FS_CardinalityType

LEMMA SlotsType ==
  ASSUME TypeOK, NEW v \in Vnf, AllAttached(v), NEW i \in Slot
  PROVE  slot[v][i] \in Port /\ slot[v][i] # NoPort
BY DEF TypeOK, AllAttached, PortsOf

LEMMA GrantsType ==
  ASSUME TypeOK, NEW v \in Vnf, AllAttached(v), NEW b \in BlocksOf(v),
         NEW m \in SUBSET Lcore
  PROVE  Grants(v, b, m) \subseteq Grant /\ Requested(v, b, m) \in [Port -> [Side -> Nat]]
<1>1. ASSUME NEW l \in m, NEW a \in Asked(v, b)
      PROVE  [blk |-> b, lcore |-> l, side |-> a[1], slot |-> a[2],
              aid |-> nacc[slot[v][a[2]]][a[1]] + Rank(m, l)] \in Grant
  <2>1. a[1] \in Side /\ a[2] \in Slot
    BY DEF Asked
  <2>2. nacc[slot[v][a[2]]][a[1]] \in Nat
    BY <2>1, SlotsType DEF TypeOK
  <2>3. nacc[slot[v][a[2]]][a[1]] + Rank(m, l) \in Nat
    BY <2>2, RankBounds
  <2> QED
    BY <2>1, <2>3 DEF Grant, BlocksOf
<1>2. ASSUME NEW p \in Port, NEW s \in Side
      PROVE  nacc[p][s] \in Nat /\ nacc[p][s] + Cardinality(m) \in Nat
  BY CardNat DEF TypeOK
<1> QED
  BY <1>1, <1>2 DEF Grants, Requested

(* What stopping leaves of a VNF's workers. *)
LEMMA StopType ==
  ASSUME TypeOK, NEW v \in Vnf, NEW left \in SUBSET BlocksOf(v), Stop(v, left)
  PROVE  /\ \A w \in Vnf : running'[w] \subseteq launched'[w] /\ launched'[w] \subseteq BlocksOf(w)
         /\ launched' \in [Vnf -> SUBSET {0, 1}] /\ running' \in [Vnf -> SUBSET {0, 1}]
         /\ stripped' \subseteq Vnf
         /\ launched'[v] = left
         /\ \A w \in Vnf \ {v} : launched'[w] = launched[w]
<1>1. left \in SUBSET {0, 1}
  BY DEF BlocksOf
<1>2. \A w \in Vnf : /\ launched'[w] = IF w = v THEN left ELSE launched[w]
                     /\ running'[w] = IF w = v THEN {} ELSE running[w]
  BY DEF Stop, TypeOK
<1>3. launched' \in [Vnf -> SUBSET {0, 1}] /\ running' \in [Vnf -> SUBSET {0, 1}]
  BY <1>1 DEF Stop, TypeOK
<1> QED
  BY <1>2, <1>3 DEF Stop, TypeOK

(* What a failing block leaves was launched. *)
LEMMA LeftType ==
  ASSUME TypeOK, NEW v \in Vnf, DeployRollsBack(v)
  PROVE  \E left \in SUBSET BlocksOf(v) : Stop(v, left)
<1>1. launched[v] \subseteq BlocksOf(v) /\ Launched(v) \subseteq BlocksOf(v)
  BY DEF TypeOK, Launched
<1> QED
  BY <1>1 DEF DeployRollsBack

LEMMA TypeStep ==
  ASSUME TypeOK, [Next]_vars
  PROVE  TypeOK'
<1>1. ASSUME NEW v \in Vnf, NEW i \in Slot, NEW p \in Port, AttachPort(v, i, p)
      PROVE  TypeOK'
  BY <1>1 DEF SetFresh, TypeOK, AttachPort, accessVars, workerVars
<1>2. ASSUME NEW v \in Vnf, NEW i \in Slot, DettachPort(v, i)
      PROVE  TypeOK'
  BY <1>2 DEF SetFresh, TypeOK, DettachPort, accessVars, Strip
<1>3. ASSUME NEW n \in Panel, NEW r \in Virt, NEW l \in Virt, PppAlloc(n, r, l)
      PROVE  TypeOK'
  BY <1>3 DEF TypeOK, PppAlloc, Zero, workerVars
<1>4. ASSUME NEW n \in Panel, DelPpp(n)
      PROVE  TypeOK'
  <2>1. OwnersOf(n) \subseteq Vnf
    BY ConfigAssumption DEF TypeOK, OwnersOf
  <2> QED
    BY <1>4, <2>1 DEF TypeOK, DelPpp, Zero, Strip
<1>5. ASSUME NEW v \in Vnf, Reset(v)
      PROVE  TypeOK'
  <2>1. DOMAIN mask' = Vnf /\ \A w \in Vnf :
          mask'[w] \in [BlocksOf(w) -> (SUBSET Lcore) \cup {Garbage}]
    <3>1. \/ mask' = mask
          \/ mask' = [mask EXCEPT ![v] = [b \in BlocksOf(v) |-> {}]]
      BY <1>5 DEF Reset
    <3>2. [b \in BlocksOf(v) |-> {}] \in [BlocksOf(v) -> (SUBSET Lcore) \cup {Garbage}]
      OBVIOUS
    <3> QED
      BY <3>1, <3>2 DEF TypeOK
  <2>2. nacc' \in [Port -> [Side -> Nat]]
    <3>1. \/ nacc' = nacc
          \/ nacc' = [p \in Port |-> IF p \in PortsOf(v) THEN Zero ELSE nacc[p]]
      BY <1>5 DEF Reset
    <3>2. Zero \in [Side -> Nat]
      BY DEF Zero
    <3> QED
      BY <3>1, <3>2 DEF TypeOK
  <2>3. /\ grant' \in [Vnf -> SUBSET Grant]
        /\ \A w \in Vnf : \A g \in grant'[w] : g.blk \in BlocksOf(w)
    <3>1. \/ grant' = grant
          \/ grant' = [grant EXCEPT ![v] = {}]
      BY <1>5 DEF Reset
    <3> QED
      BY <3>1 DEF TypeOK
  <2>4. fresh' \subseteq Vnf /\ crashed' \in BOOLEAN
    <3>1. fresh \cup {v} \subseteq Vnf /\ fresh \subseteq Vnf /\ crashed \in BOOLEAN
      BY DEF TypeOK
    <3>2. SetFresh(fresh \cup {v}) => fresh' \subseteq Vnf
      BY <3>1 DEF SetFresh
    <3> QED
      BY <1>5, <3>1, <3>2 DEF Reset
  <2>5. UNCHANGED <<procedure, portVars, acc, workerVars>>
    BY <1>5 DEF Reset
  <2> QED
    BY <2>1, <2>2, <2>3, <2>4, <2>5 DEF TypeOK, portVars, workerVars
<1>6. ASSUME NEW v \in Vnf, NEW m \in Mask, NEW b \in BlocksOf(v), SetCoremask(v, b, m)
      PROVE  TypeOK'
  <2>0. AllAttached(v) /\ m \in SUBSET Lcore
    BY <1>6, ConfigAssumption DEF SetCoremask
  <2>1. nacc' \in [Port -> [Side -> Nat]]
    BY <1>6, <2>0, GrantsType DEF SetCoremask
  <2>2. /\ grant' \in [Vnf -> SUBSET Grant]
        /\ \A w \in Vnf : \A g \in grant'[w] : g.blk \in BlocksOf(w)
    <3>1. Grants(v, b, m) \subseteq Grant
      BY <2>0, GrantsType
    <3>2. {g \in grant[v] : g.blk # b} \cup Grants(v, b, m) \in SUBSET Grant
      BY <3>1 DEF TypeOK
    <3>3. grant' = [grant EXCEPT ![v] = {g \in grant[v] : g.blk # b} \cup Grants(v, b, m)]
      BY <1>6 DEF SetCoremask
    <3>4. \A g \in Grants(v, b, m) : g.blk = b
      BY DEF Grants
    <3> QED
      BY <3>2, <3>3, <3>4 DEF TypeOK
  <2>3. DOMAIN mask' = Vnf
    BY <1>6 DEF TypeOK, SetCoremask
  <2>4. \A w \in Vnf : mask'[w] \in [BlocksOf(w) -> (SUBSET Lcore) \cup {Garbage}]
    BY <1>6, <2>0 DEF TypeOK, SetCoremask
  <2> QED
    BY <1>6, <2>1, <2>2, <2>3, <2>4 DEF TypeOK, SetCoremask, portVars, workerVars
<1>7. ASSUME NEW v \in Vnf, ConfigAcc(v)
      PROVE  acc' \in [Port -> [Side -> Nat]]
  BY <1>7 DEF TypeOK, ConfigAcc, Zero
<1>8. ASSUME NEW v \in Vnf, Deploy(v)
      PROVE  TypeOK'
  <2>1. /\ launched' \in [Vnf -> SUBSET {0, 1}]
        /\ \A w \in Vnf : running[w] \subseteq launched'[w] /\ launched'[w] \subseteq BlocksOf(w)
    BY <1>8 DEF Deploy, TypeOK, BlocksOf
  <2> QED
    BY <1>7, <1>8, <2>1 DEF TypeOK, Deploy, portVars
<1>9. ASSUME NEW v \in Vnf, DeployRollsBack(v)
      PROVE  TypeOK'
  BY <1>7, <1>9, LeftType, StopType DEF TypeOK, DeployRollsBack, portVars
<1>10. ASSUME NEW v \in Vnf, DeployFails(v)
       PROVE  TypeOK'
  BY <1>7, <1>10 DEF TypeOK, DeployFails, portVars, workerVars
<1>11. ASSUME NEW v \in Vnf, Undeploy(v)
       PROVE  TypeOK'
  BY <1>11, StopType DEF TypeOK, Undeploy, portVars, accessVars
<1>12. ASSUME NEW v \in Vnf, NEW b \in BlocksOf(v), WorkersStart(v, b)
       PROVE  TypeOK'
  <2>1. b \in {0, 1}
    BY DEF BlocksOf
  <2>2. /\ running' \in [Vnf -> SUBSET {0, 1}]
        /\ \A w \in Vnf : running'[w] \subseteq launched[w]
    BY <1>12, <2>1 DEF WorkersStart, TypeOK
  <2> QED
    BY <1>12, <2>2 DEF TypeOK, WorkersStart, portVars, accessVars
<1>13. ASSUME NEW v \in Vnf, WorkersFault(v)
       PROVE  TypeOK'
  BY <1>13 DEF TypeOK, WorkersFault, portVars, accessVars, workerVars
<1>14. CASE UNCHANGED vars
  BY <1>14 DEF TypeOK, vars, portVars, accessVars, workerVars
<1> QED
  BY <1>1, <1>2, <1>3, <1>4, <1>5, <1>6, <1>8, <1>9, <1>10, <1>11, <1>12, <1>13, <1>14 DEF Next

LEMMA OwnersStep ==
  ASSUME TypeOK, Owners, [Next]_vars
  PROVE  Owners'
<1>1. ASSUME NEW v \in Vnf, NEW i \in Slot, NEW p \in Port, AttachPort(v, i, p)
      PROVE  Owners'
  <2>1. \A w \in Vnf, k \in Slot : slot[w][k] # p
    BY <1>1, ConfigAssumption DEF AttachPort, Owners
  <2> QED
    BY <1>1, <2>1 DEF AttachPort, Owners, TypeOK, Slot
<1>2. ASSUME NEW v \in Vnf, NEW i \in Slot, DettachPort(v, i)
      PROVE  Owners'
  <2>1. owner[slot[v][i]] = v /\ slot[v][i] \in Port
    BY <1>2 DEF DettachPort, Owners, TypeOK
  <2>2. \A w \in Vnf, k \in Slot : <<w, k>> # <<v, i>> => slot[w][k] # slot[v][i]
    BY <1>2, <2>1 DEF DettachPort, Owners, Slot
  <2> QED
    BY <1>2, <2>1, <2>2 DEF DettachPort, Owners, TypeOK, Slot
<1>3. CASE UNCHANGED <<slot, owner>>
  BY <1>3 DEF Owners
<1> QED
  BY <1>1, <1>2, <1>3
  DEF Next, vars, portVars, PppAlloc, DelPpp, Reset, SetCoremask, Deploy, DeployRollsBack,
      DeployFails, Undeploy, WorkersStart, WorkersFault

(* A VNF that keeps its slots, their owners and their panels. *)
LEMMA CompleteKept ==
  ASSUME NEW v \in Vnf, Complete(v),
         \A i \in Slot : /\ slot'[v][i] = slot[v][i]
                         /\ owner'[slot[v][i]] = owner[slot[v][i]]
                         /\ Patched(slot[v][i]) => Patched(slot[v][i])'
  PROVE  Complete(v)'
BY DEF Complete, Usable

(* Detaching and del_ppp take something from a port that is in use when    *)
(* is_running() of its owner says no, which is what strips a VNF.          *)
LEMMA CompleteStep ==
  ASSUME Attached, [Next]_vars
  PROVE  \A v \in (Polled \ stripped)' : Complete(v)'
<1> USE DEF Attached
<1> DEFINE Goal == \A v \in (Polled \ stripped)' : Complete(v)'
<1>0. \A v \in Polled \ stripped : v \in Vnf /\ Complete(v)
  BY DEF Polled
<1>1. ASSUME NEW v \in Vnf, NEW i \in Slot, NEW p \in Port, AttachPort(v, i, p)
      PROVE  Goal
  <2>1. (Polled \ stripped)' = Polled \ stripped
    BY <1>1 DEF AttachPort, workerVars, Polled
  <2>2. \A w \in Polled \ stripped, k \in Slot :
          slot'[w][k] = slot[w][k] /\ owner'[slot[w][k]] = owner[slot[w][k]]
    BY <1>0, <1>1, ConfigAssumption DEF AttachPort, TypeOK, Complete, Usable
  <2>3. \A q \in Port : Patched(q) => Patched(q)'
    BY <1>1 DEF AttachPort, Patched
  <2>4. \A w \in Polled \ stripped, k \in Slot : slot[w][k] \in Port
    BY <1>0 DEF Complete, Usable, TypeOK
  <2> QED
    BY <1>0, <2>1, <2>2, <2>3, <2>4, CompleteKept
<1>2. ASSUME NEW v \in Vnf, NEW i \in Slot, DettachPort(v, i)
      PROVE  Goal
  <2>1. (Polled \ stripped)' \subseteq (Polled \ stripped) \ {v}
    BY <1>2 DEF DettachPort, Strip, Polled
  <2>2. \A w \in (Polled \ stripped) \ {v}, k \in Slot :
          slot'[w][k] = slot[w][k] /\ owner'[slot[w][k]] = owner[slot[w][k]]
    <3> SUFFICES ASSUME NEW w \in (Polled \ stripped) \ {v}, NEW k \in Slot
                 PROVE  slot'[w][k] = slot[w][k] /\ owner'[slot[w][k]] = owner[slot[w][k]]
      OBVIOUS
    <3>1. owner[slot[w][k]] = w /\ owner[slot[v][i]] = v /\ w \in Vnf
      BY <1>0, <1>2 DEF Complete, Owners, DettachPort
    <3> QED
      BY <1>2, <3>1 DEF DettachPort, TypeOK
  <2>3. \A q \in Port : Patched(q) => Patched(q)'
    BY <1>2 DEF DettachPort, Patched
  <2>4. \A w \in Polled \ stripped, k \in Slot : slot[w][k] \in Port
    BY <1>0 DEF Complete, Usable, TypeOK
  <2> QED
    BY <1>0, <2>1, <2>2, <2>3, <2>4, CompleteKept
<1>3. ASSUME NEW n \in Panel, NEW r \in Virt, NEW l \in Virt, PppAlloc(n, r, l)
      PROVE  Goal
  <2>1. \A p \in Port : Patched(p) => Patched(p)'
    BY <1>3 DEF PppAlloc, Patched, TypeOK
  <2>2. UNCHANGED <<slot, owner>> /\ (Polled \ stripped)' = Polled \ stripped
    BY <1>3 DEF PppAlloc, workerVars, Polled
  <2>3. \A w \in Polled \ stripped, k \in Slot : slot[w][k] \in Port
    BY <1>0 DEF Complete, Usable, TypeOK
  <2> QED
    BY <1>0, <2>1, <2>2, <2>3, CompleteKept
<1>4. ASSUME NEW n \in Panel, DelPpp(n)
      PROVE  Goal
  <2>1. UNCHANGED <<slot, owner>> /\ (Polled \ stripped)' \subseteq Polled \ stripped
    BY <1>4 DEF DelPpp, Strip, Polled
  <2>2. ASSUME NEW w \in (Polled \ stripped)', NEW k \in Slot
        PROVE  slot[w][k] \notin panel[n]
    <3> SUFFICES ASSUME slot[w][k] \in panel[n]
                 PROVE  FALSE
      OBVIOUS
    <3>1. w \in Vnf /\ owner[slot[w][k]] = w /\ launched[w] # {} /\ w \notin stripped'
      BY <1>0, <1>4, <2>1 DEF Complete, DelPpp, Polled
    <3>2. w \in OwnersOf(n)
      BY <3>1, ConfigAssumption DEF OwnersOf
    <3> QED
      BY <1>4, <3>1, <3>2 DEF DelPpp, Deletable, Strip
  <2>3. \A w \in (Polled \ stripped)', k \in Slot : Patched(slot[w][k]) => Patched(slot[w][k])'
    <3> SUFFICES ASSUME NEW w \in (Polled \ stripped)', NEW k \in Slot,
                        NEW j \in Panel, slot[w][k] \in panel[j]
                 PROVE  slot[w][k] \in panel'[j] /\ slot'[w][k] = slot[w][k]
      BY DEF Patched
    <3>1. j # n
      BY <2>2
    <3> QED
      BY <1>4, <2>1, <3>1 DEF DelPpp, TypeOK
  <2> QED
    BY <1>0, <2>1, <2>3, CompleteKept
<1>5. ASSUME NEW v \in Vnf, UNCHANGED <<slot, owner, panel>>, DeployChecks(v),
             (Polled \ stripped)' \subseteq (Polled \ stripped) \cup {v}
      PROVE  Goal
  <2>1. Complete(v)
    BY <1>5 DEF DeployChecks, Usable, Owners, Complete
  <2>2. \A w \in Vnf : Complete(w) => Complete(w)'
    BY <1>5 DEF Complete, Usable, Patched
  <2> QED
    BY <1>0, <1>5, <2>1, <2>2
<1>6. ASSUME NEW v \in Vnf, Deploy(v)
      PROVE  Goal
  <2>1. (Polled \ stripped)' \subseteq (Polled \ stripped) \cup {v}
    BY <1>6 DEF Deploy, Polled, TypeOK
  <2> QED
    BY <1>5, <1>6, <2>1 DEF Deploy, portVars
<1>7. ASSUME NEW v \in Vnf, DeployRollsBack(v)
      PROVE  Goal
  <2>1. PICK left \in SUBSET BlocksOf(v) : Stop(v, left)
    BY <1>7, LeftType
  <2>2. \A w \in Vnf \ {v} : launched'[w] = launched[w]
    BY <2>1, StopType
  <2>3. (Polled \ stripped)' \subseteq (Polled \ stripped) \cup {v}
    BY <2>1, <2>2 DEF Stop, Polled
  <2> QED
    BY <1>5, <1>7, <2>3 DEF DeployRollsBack, portVars
<1>8. ASSUME UNCHANGED <<slot, owner, panel>>, (Polled \ stripped)' \subseteq Polled \ stripped
      PROVE  Goal
  BY <1>0, <1>8 DEF Complete, Usable, Patched
<1>9. ASSUME NEW v \in Vnf, Undeploy(v)
      PROVE  Goal
  <2>1. Stop(v, {}) /\ UNCHANGED <<slot, owner, panel>>
    BY <1>9 DEF Undeploy, portVars
  <2>2. launched'[v] = {} /\ \A w \in Vnf \ {v} : launched'[w] = launched[w]
    BY <2>1, StopType
  <2>3. (Polled \ stripped)' \subseteq Polled \ stripped
    BY <2>1, <2>2 DEF Stop, Polled
  <2> QED
    BY <1>8, <2>1, <2>3
<1>10. ASSUME UNCHANGED <<slot, owner, panel, launched, stripped>>
       PROVE  Goal
  BY <1>8, <1>10 DEF Polled
<1> QED
  BY <1>1, <1>2, <1>3, <1>4, <1>6, <1>7, <1>9, <1>10
  DEF Next, vars, portVars, workerVars, Reset, SetCoremask, DeployFails, WorkersStart, WorkersFault

(* Slots, owners, counts, panels, coremasks, access ids and what is known  *)
(* of the workers keep their types, whatever requests the client sends.    *)
THEOREM ConfigTypeCorrect == Spec => []TypeOK
<1>1. Init => TypeOK
  BY AttachedInit DEF Attached
<1> QED
  BY <1>1, TypeStep, PTL DEF Spec

LEMMA AttachedStep ==
  ASSUME Attached, [Next]_vars
  PROVE  Attached'
BY TypeStep, OwnersStep, CompleteStep DEF Attached

-----------------------------------------------------------------------------
(* What holds for a client that keeps to the procedure.                    *)

(* Two slots never hold the same port. *)
LEMMA PortsDiffer ==
  ASSUME Owners, NEW v \in Vnf, NEW w \in Vnf, NEW i \in Slot, NEW k \in Slot,
         slot[v][i] # NoPort, <<v, i>> # <<w, k>>
  PROVE  slot[v][i] # slot[w][k]
BY DEF Owners, Slot

(* The lcores of a coremask are ranked from 0 without a gap. *)
LEMMA RankCounts ==
  ASSUME NEW m \in SUBSET Lcore
  PROVE  /\ \A k, l \in m : Rank(m, k) = Rank(m, l) => k = l
         /\ \A r \in Accessors(Cardinality(m)) : \E l \in m : Rank(m, l) = r
<1>1. m \subseteq Nat /\ IsFiniteSet(m) /\ Cardinality(m) \in Nat
  BY ConfigAssumption, CardNat
<1>2. ASSUME NEW x \in m, NEW y \in m, x < y
      PROVE  Rank(m, x) # Rank(m, y)
  <2> DEFINE S == {j \in m : j < x}
  <2> DEFINE T == {j \in m : j < y}
  <2>0. x \in Nat /\ y \in Nat /\ ~(x < x) /\ \A j \in m : j \in Nat
    BY <1>1
  <2>1. S \subseteq T /\ x \in T /\ x \notin S
    <3>1. \A j \in m : j < x => j < y
      BY <1>2, <2>0
    <3> QED
      BY <1>2, <2>0, <3>1
  <2>2. IsFiniteSet(T)
    BY <1>1, FS_Subset
  <2>3. Cardinality(S) # Cardinality(T)
    BY <2>1, <2>2, FS_Subset
  <2> QED
    BY <2>3 DEF Rank
<1>3. \A k, l \in m : Rank(m, k) = Rank(m, l) => k = l
  BY <1>1, <1>2
<1> DEFINE N == 0 .. Cardinality(m) - 1
<1> DEFINE f == [l \in m |-> Rank(m, l)]
<1>4. f \in [m -> N]
  BY <1>1, RankBounds
<1>5. f \in Injection(m, N)
  BY <1>3, <1>4 DEF Injection, IsInjective
<1>6. IsFiniteSet(N) /\ Cardinality(N) = Cardinality(m)
  <2>1. 0 \in Int /\ Cardinality(m) - 1 \in Int
    BY <1>1
  <2>2. /\ IsFiniteSet(N)
        /\ Cardinality(N) = IF 0 > Cardinality(m) - 1 THEN 0 ELSE (Cardinality(m) - 1) - 0 + 1
    BY <2>1, FS_Interval
  <2> QED
    BY <1>1, <2>2
<1>7. f \in Surjection(m, N)
  BY <1>5, <1>6, FS_Injection
<1>8. \A r \in N : \E l \in m : Rank(m, l) = r
  BY <1>7 DEF Surjection
<1> QED
  BY <1>3, <1>8 DEF Accessors

(* A step that touches neither the accesses of v nor what is counted at    *)
(* its ports.                                                              *)
LEMMA BooksKept ==
  ASSUME NEW v \in Vnf, Books(v),
         slot'[v] = slot[v], mask'[v] = mask[v], grant'[v] = grant[v],
         \A i \in Slot : nacc'[slot[v][i]] = nacc[slot[v][i]]
  PROVE  Books(v)'
<1>1. AllAttached(v)'
  BY DEF Books, AllAttached, PortsOf
<1>2. Dealt(v, nacc)'
  BY DEF Books, Dealt, Held
<1>3. \A b \in BlocksOf(v) : \A a \in Asked(v, b) : a[2] \in Slot
  BY DEF Asked
<1> QED
  BY <1>1, <1>2, <1>3 DEF Books, BlocksOf, Asked

LEMMA ReadyKept ==
  ASSUME NEW v \in Vnf, Ready(v),
         slot'[v] = slot[v], grant'[v] = grant[v],
         \A i \in Slot : acc'[slot[v][i]] = acc[slot[v][i]]
  PROVE  Ready(v)'
<1>1. Dealt(v, acc)'
  BY DEF Ready, Dealt, Held
<1> QED
  BY <1>1 DEF Ready

LEMMA ResetOpensBooks ==
  ASSUME Attached, NEW v \in Vnf, AllAttached(v), launched[v] = {}, Reset(v)
  PROVE  Books(v)'
<1>1. grant'[v] = {} /\ mask'[v] = [b \in BlocksOf(v) |-> {}] /\ slot' = slot
  BY DEF Reset, portVars, Attached, TypeOK
<1>2. \A i \in Slot : nacc'[slot[v][i]] = Zero
  BY SlotsType DEF Reset, Attached, PortsOf
<1>3. Dealt(v, nacc)'
  BY <1>1, <1>2 DEF Dealt, Held, Zero, Accessors
<1>4. Garbage # {}
  BY ConfigAssumption
<1> QED
  BY <1>1, <1>3, <1>4 DEF Books, AllAttached, PortsOf, BlocksOf

(* A coremask continues the numbering where the blocks before left it. *)
LEMMA CoremaskKeepsBooks ==
  ASSUME Attached, NEW v \in Vnf, NEW b \in BlocksOf(v), NEW m \in Mask,
         m # {}, SetCoremask(v, b, m), Books(v)
  PROVE  Books(v)'
<1> DEFINE c == Cardinality(m)
<1> DEFINE Rec(l, s, i) ==
      [blk |-> b, lcore |-> l, side |-> s, slot |-> i,
       aid |-> nacc[slot[v][i]][s] + Rank(m, l)]
<1>1. /\ m \in SUBSET Lcore /\ mask[v][b] = {} /\ AllAttached(v)
      /\ c \in Nat \ {0}
  <2>1. m \in SUBSET Lcore /\ mask[v][b] = {} /\ AllAttached(v)
    BY ConfigAssumption DEF SetCoremask
  <2>2. PICK l \in m : TRUE
    OBVIOUS
  <2> QED
    BY <2>1, <2>2, RankBounds
<1>2. /\ slot' = slot
      /\ grant'[v] = {g \in grant[v] : g.blk # b} \cup Grants(v, b, m)
      /\ {g \in grant[v] : g.blk # b} = grant[v]
      /\ nacc' = Requested(v, b, m)
      /\ mask'[v] = [mask[v] EXCEPT ![b] = m]
      /\ mask[v] \in [BlocksOf(v) -> (SUBSET Lcore) \cup {Garbage}]
  <2>1. \A g \in grant[v] : g.blk # b
    BY <1>1 DEF Books
  <2> QED
    BY <2>1 DEF SetCoremask, Attached, TypeOK, portVars
<1>3. ASSUME NEW s \in Side, NEW i \in Slot
      PROVE  /\ nacc[slot[v][i]][s] \in Nat
             /\ <<s, i>> \in Asked(v, b) => nacc'[slot[v][i]][s] = nacc[slot[v][i]][s] + c
             /\ <<s, i>> \notin Asked(v, b) => nacc'[slot[v][i]][s] = nacc[slot[v][i]][s]
  <2>1. slot[v][i] \in Port /\ slot[v][i] # NoPort
    BY <1>1, SlotsType DEF Attached
  <2>2. \A k \in Slot : slot[v][k] = slot[v][i] => k = i
    BY <2>1, PortsDiffer DEF Attached
  <2>3. (\E k \in Slot : slot[v][k] = slot[v][i] /\ <<s, k>> \in Asked(v, b))
          <=> <<s, i>> \in Asked(v, b)
    BY <2>2
  <2>4. nacc'[slot[v][i]][s] = IF <<s, i>> \in Asked(v, b)
                               THEN nacc[slot[v][i]][s] + c
                               ELSE nacc[slot[v][i]][s]
    BY <1>2, <2>1, <2>3 DEF Requested
  <2>5. nacc[slot[v][i]][s] \in Nat
    BY <2>1 DEF Attached, TypeOK
  <2> QED
    BY <2>4, <2>5
<1>4. ASSUME NEW s \in Side, NEW i \in Slot
      PROVE  Held(v, s, i)' = IF <<s, i>> \in Asked(v, b)
                              THEN Held(v, s, i) \cup {Rec(l, s, i) : l \in m}
                              ELSE Held(v, s, i)
  <2>1. {g \in Grants(v, b, m) : g.side = s /\ g.slot = i}
          = IF <<s, i>> \in Asked(v, b) THEN {Rec(l, s, i) : l \in m} ELSE {}
    <3>1. \A a \in Asked(v, b) : a = <<a[1], a[2]>>
      BY DEF Asked
    <3>2. ASSUME NEW g \in Grants(v, b, m), g.side = s, g.slot = i
          PROVE  <<s, i>> \in Asked(v, b) /\ g \in {Rec(l, s, i) : l \in m}
      <4>1. PICK l \in m, a \in Asked(v, b) : g = Rec(l, a[1], a[2])
        BY DEF Grants
      <4>2. a[1] = s /\ a[2] = i
        BY <3>2, <4>1
      <4> QED
        BY <3>1, <4>1, <4>2
    <3>3. ASSUME NEW l \in m, <<s, i>> \in Asked(v, b)
          PROVE  /\ Rec(l, s, i) \in Grants(v, b, m)
                 /\ Rec(l, s, i).side = s /\ Rec(l, s, i).slot = i
      <4>1. \A k \in m, a \in Asked(v, b) : Rec(k, a[1], a[2]) \in Grants(v, b, m)
        <5>1. Grants(v, b, m) = {Rec(k, a[1], a[2]) : k \in m, a \in Asked(v, b)}
          BY DEF Grants
        <5> HIDE DEF Rec
        <5> QED
          BY <5>1
      <4>2. Rec(l, <<s, i>>[1], <<s, i>>[2]) \in Grants(v, b, m)
        BY <3>3, <4>1
      <4> QED
        BY <4>2
    <3> QED
      BY <3>2, <3>3
  <2> QED
    BY <1>2, <2>1 DEF Held
<1>5. Dealt(v, nacc)'
  <2> SUFFICES ASSUME NEW s \in Side, NEW i \in Slot
               PROVE  /\ \A g \in Held(v, s, i)' : g.aid < nacc'[slot[v][i]][s]
                      /\ \A a \in Accessors(nacc'[slot[v][i]][s]) :
                           \E g \in Held(v, s, i)' : g.aid = a
                      /\ \A g, h \in Held(v, s, i)' : g.aid = h.aid => g = h
    BY <1>2 DEF Dealt
  <2> DEFINE n == nacc[slot[v][i]][s]
  <2> DEFINE H == Held(v, s, i)
  <2> DEFINE R == {Rec(l, s, i) : l \in m}
  <2>1. /\ \A g \in H : g.aid < n /\ g.aid \in Nat
        /\ \A a \in Accessors(n) : \E g \in H : g.aid = a
        /\ \A g, h \in H : g.aid = h.aid => g = h
    <3>1. \A g \in H : g.aid \in Nat
      BY DEF Held, Attached, TypeOK, Grant
    <3>2. Dealt(v, nacc)
      BY DEF Books
    <3> QED
      BY <3>1, <3>2 DEF Dealt
  <2>2. n \in Nat
    BY <1>3
  <2>3. CASE <<s, i>> \notin Asked(v, b)
    BY <1>3, <1>4, <2>1, <2>3
  <2>4. CASE <<s, i>> \in Asked(v, b)
    <3>1. nacc'[slot[v][i]][s] = n + c /\ Held(v, s, i)' = H \cup R
      BY <1>3, <1>4, <2>4
    <3>2. \A l \in m : /\ Rank(m, l) \in Nat /\ Rank(m, l) < c
                       /\ Rec(l, s, i).aid = n + Rank(m, l)
      BY <1>1, RankBounds
    <3>3. \A g \in H \cup R : g.aid < n + c
      BY <1>1, <2>1, <2>2, <3>2
    <3>4. ASSUME NEW a \in Accessors(n + c)
          PROVE  \E g \in H \cup R : g.aid = a
      <4>1. a \in Int /\ 0 <= a /\ a < n + c
        BY <1>1, <2>2 DEF Accessors
      <4>2. CASE a < n
        BY <2>1, <2>2, <4>1, <4>2 DEF Accessors
      <4>3. CASE n <= a
        <5>1. a - n \in Accessors(c)
          BY <1>1, <2>2, <4>1, <4>3 DEF Accessors
        <5>2. PICK l \in m : Rank(m, l) = a - n
          BY <1>1, <5>1, RankCounts
        <5>3. Rec(l, s, i).aid = a /\ Rec(l, s, i) \in R
          BY <2>2, <3>2, <4>1, <5>2
        <5> QED
          BY <5>3
      <4> QED
        BY <2>2, <4>1, <4>2, <4>3
    <3>5. ASSUME NEW g \in H \cup R, NEW h \in H \cup R, g.aid = h.aid
          PROVE  g = h
      <4>1. \A x \in R : x.aid \in Nat /\ x.aid >= n
        BY <2>2, <3>2
      <4>2. g \in H <=> h \in H
        BY <2>1, <2>2, <3>5, <4>1
      <4>3. CASE g \in H /\ h \in H
        BY <2>1, <3>5, <4>3
      <4>4. CASE g \in R /\ h \in R
        <5>1. PICK k \in m, l \in m : g = Rec(k, s, i) /\ h = Rec(l, s, i)
          BY <4>4
        <5>2. Rank(m, k) = Rank(m, l)
          BY <2>2, <3>2, <3>5, <5>1
        <5>3. k = l
          BY <1>1, <5>2, RankCounts
        <5> QED
          BY <5>1, <5>3
      <4> QED
        BY <4>2, <4>3, <4>4
    <3> QED
      BY <3>1, <3>3, <3>4, <3>5
  <2> QED
    BY <2>3, <2>4
<1>6. ASSUME NEW d \in BlocksOf(v)
      PROVE  IF mask'[v][d] = {}
             THEN \A g \in grant'[v] : g.blk # d
             ELSE \A a \in Asked(v, d) : nacc'[slot[v][a[2]]][a[1]] > 0
  <2>1. \A a \in Asked(v, d) : a \in Side \X Slot
    BY DEF Asked
  <2>2. CASE d = b
    <3>1. mask'[v][d] # {}
      BY <1>2, <2>2
    <3>2. ASSUME NEW a \in Asked(v, d) PROVE nacc'[slot[v][a[2]]][a[1]] > 0
      <4>1. a[1] \in Side /\ a[2] \in Slot /\ <<a[1], a[2]>> \in Asked(v, b)
        BY <2>1, <2>2
      <4> QED
        BY <1>1, <1>3, <4>1
    <3> QED
      BY <3>1, <3>2
  <2>3. CASE d # b
    <3>1. mask'[v][d] = mask[v][d]
      BY <1>2, <2>3
    <3>2. \A g \in Grants(v, b, m) : g.blk # d
      BY <2>3 DEF Grants
    <3>3. ASSUME NEW a \in Asked(v, d), nacc[slot[v][a[2]]][a[1]] > 0
          PROVE  nacc'[slot[v][a[2]]][a[1]] > 0
      <4>1. PICK s \in Side, i \in Slot : s = a[1] /\ i = a[2]
        BY <2>1
      <4>2. nacc[slot[v][i]][s] > 0 /\ nacc[slot[v][i]][s] \in Nat
        BY <1>3, <3>3, <4>1
      <4>3. \/ nacc'[slot[v][i]][s] = nacc[slot[v][i]][s] + c
            \/ nacc'[slot[v][i]][s] = nacc[slot[v][i]][s]
        BY <1>3
      <4> QED
        BY <1>1, <4>1, <4>2, <4>3
    <3> QED
      BY <1>2, <3>1, <3>2, <3>3 DEF Books
  <2> QED
    BY <2>2, <2>3
<1>7. \A d \in BlocksOf(v) : mask'[v][d] # Garbage
  BY <1>1, <1>2, ConfigAssumption DEF Books
<1> QED
  BY <1>1, <1>2, <1>5, <1>6, <1>7 DEF Books, AllAttached, PortsOf

(* Every access of a port is asked for by some block. *)
LEMMA SomeBlockAsks ==
  ASSUME NEW v \in Vnf, NEW s \in Side, NEW i \in Slot
  PROVE  \E b \in BlocksOf(v) : <<s, i>> \in Asked(v, b)
<1>1. 0 \in BlocksOf(v) /\ (v \in Numa => 1 \in BlocksOf(v))
  BY DEF BlocksOf
<1>2. <<s, i>> \in Side \X Slot /\ <<s, i>>[1] = s /\ <<s, i>>[2] = i /\ i \in {0, 1}
  BY DEF Slot
<1>3. <<s, i>> \in Asked(v, 0) \/ (v \in Numa /\ <<s, i>> \in Asked(v, 1))
  BY <1>2 DEF Asked
<1> QED
  BY <1>1, <1>3

LEMMA BooksCount ==
  ASSUME Attached, NEW v \in Vnf, Books(v), \A b \in BlocksOf(v) : mask[v][b] # {},
         NEW s \in Side, NEW i \in Slot
  PROVE  /\ slot[v][i] \in Port
         /\ nacc[slot[v][i]][s] \in Nat \ {0}
<1>1. slot[v][i] \in Port
  BY SlotsType DEF Books, Attached
<1>2. PICK b \in BlocksOf(v) : <<s, i>> \in Asked(v, b)
  BY SomeBlockAsks
<1>3. \A a \in Asked(v, b) : nacc[slot[v][a[2]]][a[1]] > 0
  BY DEF Books
<1>4. nacc[slot[v][<<s, i>>[2]]][<<s, i>>[1]] > 0
  BY <1>2, <1>3
<1> QED
  BY <1>1, <1>4 DEF Attached, TypeOK

LEMMA DeployMakesReady ==
  ASSUME Attached, NEW v \in Vnf, Books(v), \A b \in BlocksOf(v) : mask[v][b] # {},
         ConfigAcc(v), Refused(v) = {}, UNCHANGED <<slot, grant>>
  PROVE  Ready(v)'
<1>1. \A i \in Slot : Fits(slot[v][i])
  <2>1. Fits(slot[v][0])
    <3>1. ~(~Fits(slot[v][0]) /\ \A k \in 0 .. (0 - 1) : Fits(slot[v][k]))
      BY DEF Refused, Slot
    <3>2. 0 .. (0 - 1) = {}
      OBVIOUS
    <3> QED
      BY <3>1, <3>2
  <2>2. Fits(slot[v][1])
    <3>1. ~(~Fits(slot[v][1]) /\ \A k \in 0 .. (1 - 1) : Fits(slot[v][k]))
      BY DEF Refused, Slot
    <3>2. \A k \in 0 .. (1 - 1) : k = 0
      OBVIOUS
    <3> QED
      BY <2>1, <3>1, <3>2
  <2> QED
    BY <2>1, <2>2 DEF Slot
<1>2. \A i \in Slot : slot[v][i] \in Configured(v)
  <2>1. \A j \in Slot : \A k \in 0 .. j : k \in Slot
    BY DEF Slot
  <2> QED
    BY <1>1, <2>1 DEF Configured
<1>3. ASSUME NEW s \in Side, NEW i \in Slot
      PROVE  /\ acc'[slot[v][i]] = nacc[slot[v][i]]
             /\ nacc[slot[v][i]][s] > 0 /\ Divides(nacc[slot[v][i]][s], NQueue)
  <2>1. slot[v][i] \in Port /\ nacc[slot[v][i]][s] \in Nat \ {0}
    BY BooksCount
  <2>2. Divides(nacc[slot[v][i]][s], NQueue)
    BY <1>1, <2>1 DEF Fits
  <2> QED
    BY <1>2, <2>1, <2>2 DEF ConfigAcc
<1>5. Dealt(v, acc)'
  BY <1>3 DEF Books, Dealt, Held
<1> QED
  BY <1>3, <1>5 DEF Ready

(* A VNF that is reset and has its coremasks never divides by zero. *)
LEMMA DeployNeverFatal ==
  ASSUME Attached, NEW v \in Vnf, Books(v), \A b \in BlocksOf(v) : mask[v][b] # {}
  PROVE  \A p \in Refused(v) : ~Fatal(p)
<1> SUFFICES ASSUME NEW i \in Slot PROVE ~Fatal(slot[v][i])
  BY DEF Refused
<1>1. nacc[slot[v][i]]["tx"] # 0 /\ nacc[slot[v][i]]["rx"] # 0
  BY BooksCount DEF Side
<1> QED
  BY <1>1 DEF Fatal

-----------------------------------------------------------------------------
(* What the careful client's wait is good for: a VNF of which is_running() *)
(* says no has no worker, and the others have all of theirs.               *)
LEMMA SettledIsTrue ==
  ASSUME Attached, Careful, procedure, Settled, NEW v \in Vnf
  PROVE  /\ ~VnfRunning(v) => v \notin Polled /\ launched[v] = {}
         /\ launched[v] # {} => VnfRunning(v)
BY DEF Attached, Careful, Settled, VnfRunning, Polled, TypeOK

(* Nothing is stripped, and every block of a VNF that has its coremasks is *)
(* launched.                                                               *)
LEMMA NobodyStripped ==
  ASSUME Attached, Careful, procedure, Settled, NEW S \in SUBSET Vnf, Strip(S)
  PROVE  stripped' = {}
BY SettledIsTrue DEF Strip, Careful

LEMMA AllLaunched ==
  ASSUME Attached, Careful, procedure, NEW v \in Vnf, DeployChecks(v)
  PROVE  Launched(v) = BlocksOf(v) /\ Books(v) /\ \A b \in BlocksOf(v) : mask[v][b] # {}
<1>1. launched[v] = {} /\ v \in fresh /\ \A b \in BlocksOf(v) : mask[v][b] # {}
  BY SettledIsTrue DEF DeployChecks, Request
<1>2. Books(v)
  BY <1>1 DEF Careful
<1>3. \A b \in BlocksOf(v) : Launches(v, b)
  BY <1>1, <1>2 DEF Books, Launches, Vcores
<1>4. \A b \in BlocksOf(v) : \A c \in 0 .. b : c \in BlocksOf(v)
  BY DEF BlocksOf
<1> QED
  BY <1>1, <1>2, <1>3, <1>4 DEF Launched

(* Other VNFs' ports are not configured. *)
LEMMA OthersUnconfigured ==
  ASSUME Attached, stripped = {}, NEW v \in Vnf, NEW w \in Polled, w # v, NEW i \in Slot, ConfigAcc(v)
  PROVE  acc'[slot[w][i]] = acc[slot[w][i]]
<1>1. slot[w][i] \in Port /\ slot[w][i] # NoPort /\ w \in Vnf
  BY DEF Attached, Complete, Usable, TypeOK, Polled
<1>2. slot[w][i] \notin Configured(v) /\ slot[w][i] \notin Refused(v)
  BY <1>1, PortsDiffer DEF Configured, Refused, Attached
<1> QED
  BY <1>1, <1>2 DEF ConfigAcc

LEMMA CarefulStep ==
  ASSUME procedure, Attached, Careful, [Next]_vars
  PROVE  Careful'
<1>0. Attached' /\ ~crashed /\ stripped = {} /\ fresh \subseteq Vnf /\ Polled \subseteq Vnf
  BY AttachedStep DEF Careful, Attached, TypeOK, Polled
<1> DEFINE Whole == \A w \in Vnf : launched'[w] \in {{}, BlocksOf(w)}
(* A step of a VNF v without workers: the others keep what they have. *)
<1>a. ASSUME NEW v \in Vnf, ~crashed', stripped' = {},
             UNCHANGED <<acc, launched>>, v \notin Polled,
             fresh' \subseteq fresh \cup {v},
             \A w \in Vnf \ {v} : /\ slot'[w] = slot[w] /\ mask'[w] = mask[w]
                                  /\ grant'[w] = grant[w],
             \A p \in Port : p \notin PortsOf(v) => nacc'[p] = nacc[p],
             v \in fresh' => Books(v)'
      PROVE  Careful'
  <2>1. ASSUME NEW w \in fresh' PROVE Books(w)'
    <3>1. CASE w # v
      <4>1. w \in fresh /\ w \in Vnf /\ Books(w) /\ AllAttached(w)
        BY <1>0, <1>a, <2>1, <3>1 DEF Careful, Books
      <4>2. \A i \in Slot : slot[w][i] \in Port /\ slot[w][i] \notin PortsOf(v)
        BY <1>0, <3>1, <4>1, SlotsType, PortsDiffer DEF Attached, PortsOf
      <4> QED
        BY <1>a, <3>1, <4>1, <4>2, BooksKept
    <3> QED
      BY <1>a, <2>1, <3>1
  <2>2. ASSUME NEW w \in Polled' PROVE Ready(w)'
    <3>1. w \in Polled /\ w # v /\ w \in Vnf /\ Ready(w)
      BY <1>0, <1>a, <2>2 DEF Careful, Polled
    <3> QED
      BY <1>a, <3>1, ReadyKept
  <2> QED
    BY <1>a, <2>1, <2>2 DEF Careful
(* A step that leaves the books alone, and the devices of what is polled. *)
<1>b. ASSUME ~crashed', stripped' = {}, Whole, UNCHANGED <<slot, mask, grant, nacc, fresh>>,
             \A w \in Polled' : \/ Ready(w)'
                                \/ w \in Polled /\ \A i \in Slot : acc'[slot[w][i]] = acc[slot[w][i]]
      PROVE  Careful'
  <2>1. ASSUME NEW w \in fresh' PROVE Books(w)'
    BY <1>0, <1>b, <2>1, BooksKept DEF Careful
  <2>2. ASSUME NEW w \in Polled' PROVE Ready(w)'
    BY <1>0, <1>b, <2>2, ReadyKept DEF Careful
  <2> QED
    BY <1>b, <2>1, <2>2 DEF Careful
<1>c. UNCHANGED launched => Whole /\ Polled' = Polled
  BY DEF Careful, Polled
<1>d. \A w \in Polled : w \in Vnf /\ Complete(w) /\ \A i \in Slot : slot[w][i] \in Port
  BY <1>0 DEF Attached, Complete, Usable, TypeOK
<1> HIDE DEF Whole
<1>1. ASSUME NEW v \in Vnf, NEW i \in Slot, NEW p \in Port, AttachPort(v, i, p)
      PROVE  Careful'
  <2>1. \A w \in Vnf \ {v} : slot'[w] = slot[w]
    BY <1>0, <1>1 DEF AttachPort, Attached, TypeOK
  <2>2. v \notin Polled
    BY <1>1, SettledIsTrue DEF AttachPort, Request
  <2> QED
    BY <1>0, <1>1, <1>a, <2>1, <2>2 DEF SetFresh, AttachPort, accessVars, workerVars
<1>2. ASSUME NEW v \in Vnf, NEW i \in Slot, DettachPort(v, i)
      PROVE  Careful'
  <2>1. \A w \in Vnf \ {v} : slot'[w] = slot[w]
    BY <1>0, <1>2 DEF DettachPort, Attached, TypeOK
  <2>2. v \notin Polled /\ stripped' = {}
    BY <1>2, SettledIsTrue, NobodyStripped DEF DettachPort, Request
  <2> QED
    BY <1>0, <1>2, <1>a, <2>1, <2>2 DEF SetFresh, DettachPort, accessVars
<1>3. ASSUME NEW n \in Panel, NEW r \in Virt, NEW l \in Virt, PppAlloc(n, r, l)
      PROVE  Careful'
  <2>1. ASSUME NEW w \in Polled, NEW i \in Slot
        PROVE  acc'[slot[w][i]] = acc[slot[w][i]]
    <3>1. Usable(slot[w][i]) /\ slot[w][i] \in Port
      BY <1>d DEF Complete
    <3>2. slot[w][i] \notin {r, l}
      BY <1>3, <3>1 DEF PppAlloc, Usable
    <3> QED
      BY <1>3, <3>1, <3>2 DEF PppAlloc
  <2> QED
    BY <1>0, <1>3, <1>b, <1>c, <2>1 DEF PppAlloc, workerVars
<1>4. ASSUME NEW n \in Panel, DelPpp(n)
      PROVE  Careful'
  <2>0. OwnersOf(n) \in SUBSET Vnf
    BY ConfigAssumption DEF OwnersOf, Attached, TypeOK
  <2>1. ASSUME NEW w \in Polled, NEW i \in Slot
        PROVE  acc'[slot[w][i]] = acc[slot[w][i]]
    <3>1. owner[slot[w][i]] = w /\ slot[w][i] \in Port /\ w \in Vnf /\ VnfRunning(w)
      BY <1>4, <1>d, SettledIsTrue DEF Complete, DelPpp, Request
    <3>2. slot[w][i] \notin panel[n]
      BY <1>4, <3>1, ConfigAssumption DEF DelPpp, Deletable, OwnersOf
    <3> QED
      BY <1>4, <3>1, <3>2 DEF DelPpp
  <2>2. stripped' = {}
    BY <1>4, <2>0, NobodyStripped DEF DelPpp, Request
  <2> QED
    BY <1>0, <1>4, <1>b, <1>c, <2>1, <2>2 DEF DelPpp
<1>5. ASSUME NEW v \in Vnf, Reset(v)
      PROVE  Careful'
  <2>1. AllAttached(v) /\ launched[v] = {} /\ v \notin Polled
    BY <1>5, SettledIsTrue DEF Reset, Request
  <2>2. Books(v)'
    BY <1>0, <1>5, <2>1, ResetOpensBooks
  <2>3. \A w \in Vnf \ {v} : mask'[w] = mask[w] /\ grant'[w] = grant[w] /\ slot'[w] = slot[w]
    BY <1>0, <1>5, <2>1 DEF Reset, Attached, TypeOK, portVars
  <2>4. \A p \in Port : p \notin PortsOf(v) => nacc'[p] = nacc[p]
    BY <1>5, <2>1 DEF Reset
  <2>5. UNCHANGED <<acc, launched, stripped, crashed>> /\ fresh' = fresh \cup {v}
    BY <1>5, <2>1 DEF SetFresh, Reset, workerVars
  <2> QED
    BY <1>0, <1>a, <2>1, <2>2, <2>3, <2>4, <2>5
<1>6. ASSUME NEW v \in Vnf, NEW m \in Mask, NEW b \in BlocksOf(v), SetCoremask(v, b, m)
      PROVE  Careful'
  <2>1. m # {} /\ v \notin Polled /\ UNCHANGED <<slot, acc, launched, stripped, fresh, crashed>>
    BY <1>6, SettledIsTrue DEF SetCoremask, Request, portVars, workerVars
  <2>2. v \in fresh' => Books(v)'
    BY <1>0, <1>6, <2>1, CoremaskKeepsBooks DEF Careful
  <2>3. \A w \in Vnf \ {v} : mask'[w] = mask[w] /\ grant'[w] = grant[w]
    BY <1>0, <1>6 DEF SetCoremask, Attached, TypeOK
  <2>4. ASSUME NEW p \in Port, p \notin PortsOf(v) PROVE nacc'[p] = nacc[p]
    <3>1. nacc[p] \in [Side -> Nat] /\ nacc' = Requested(v, b, m)
      BY <1>0, <1>6 DEF Attached, TypeOK, SetCoremask
    <3>2. \A i \in Slot : slot[v][i] # p
      BY <2>4 DEF PortsOf
    <3>3. nacc'[p] = [s \in Side |-> nacc[p][s]]
      BY <3>1, <3>2 DEF Requested
    <3> QED
      BY <3>1, <3>3
  <2> QED
    BY <1>0, <1>a, <2>1, <2>2, <2>3, <2>4
<1>7. ASSUME NEW v \in Vnf, Deploy(v)
      PROVE  Careful'
  <2>1. Books(v) /\ \A b \in BlocksOf(v) : mask[v][b] # {}
    BY <1>7, AllLaunched DEF Deploy
  <2>2. Ready(v)'
    BY <1>7, <2>1, DeployMakesReady DEF Deploy, portVars
  <2>3. Whole /\ Polled' \subseteq Polled \cup {v}
    BY <1>7 DEF Deploy, Polled, Whole, Careful, Attached, TypeOK
  <2>4. \A w \in Polled : w # v => \A i \in Slot : acc'[slot[w][i]] = acc[slot[w][i]]
    BY <1>0, <1>7, OthersUnconfigured DEF Deploy
  <2> QED
    BY <1>0, <1>7, <1>b, <2>2, <2>3, <2>4 DEF Deploy, portVars
<1>8. ASSUME NEW v \in Vnf, DeployRollsBack(v)
      PROVE  Careful'
  BY <1>8, AllLaunched DEF DeployRollsBack
<1>9. ASSUME NEW v \in Vnf, DeployFails(v)
      PROVE  Careful'
  <2>1. Books(v) /\ \A b \in BlocksOf(v) : mask[v][b] # {}
    BY <1>9, AllLaunched DEF DeployFails
  <2>2. ~crashed'
    BY <1>0, <1>9, <2>1, DeployNeverFatal DEF DeployFails
  <2>3. v \notin Polled
    BY <1>9, SettledIsTrue DEF DeployFails, DeployChecks, Request
  <2>4. \A w \in Polled : \A i \in Slot : acc'[slot[w][i]] = acc[slot[w][i]]
    BY <1>0, <1>9, <2>3, OthersUnconfigured DEF DeployFails
  <2> QED
    BY <1>0, <1>9, <1>b, <1>c, <2>2, <2>4 DEF DeployFails, portVars, workerVars
<1>10. ASSUME NEW v \in Vnf, Undeploy(v)
       PROVE  Careful'
  <2>1. Stop(v, {}) /\ UNCHANGED <<slot, mask, grant, nacc, acc, fresh, crashed>>
    BY <1>10 DEF Undeploy, portVars, accessVars
  <2>2. /\ launched'[v] = {} /\ \A w \in Vnf \ {v} : launched'[w] = launched[w]
    BY <2>1, StopType DEF Attached
  <2>3. Whole /\ Polled' \subseteq Polled /\ stripped' = {}
    BY <1>0, <2>1, <2>2 DEF Whole, Careful, Polled, Stop
  <2> QED
    BY <1>0, <1>b, <2>1, <2>3
<1>11. ASSUME UNCHANGED <<crashed, stripped, launched, slot, mask, grant, nacc, fresh, acc>>
       PROVE  Careful'
  BY <1>0, <1>11, <1>b, <1>c
<1>12. ASSUME NEW v \in Vnf, WorkersFault(v)
       PROVE  Careful'
  <2>1. running[v] \subseteq launched[v] /\ v \in Polled
    BY <1>12 DEF WorkersFault, Attached, TypeOK, Polled
  <2> QED
    BY <1>d, <1>12, <2>1 DEF WorkersFault, Complete
<1> QED
  BY <1>1, <1>2, <1>3, <1>4, <1>5, <1>6, <1>7, <1>8, <1>9, <1>10, <1>11, <1>12
  DEF Next, vars, portVars, accessVars, workerVars, WorkersStart

LEMMA KeptInvariant == Spec => []Kept
<1>1. Init => Kept
  BY AttachedInit DEF Kept
<1>2. Kept /\ [Next]_vars => Kept'
  <2> SUFFICES ASSUME Kept, [Next]_vars PROVE Kept'
    OBVIOUS
  <2>1. procedure' = procedure
    BY DEF Next, vars, AttachPort, DettachPort, PppAlloc, DelPpp, Reset, SetCoremask, Deploy,
           DeployRollsBack, DeployFails, Undeploy, WorkersStart, WorkersFault
  <2> QED
    BY <2>1, AttachedStep, CarefulStep DEF Kept
<1> QED
  BY <1>1, <1>2, PTL DEF Spec

(* Whatever the client does, the bursts of a VNF's workers find the ports  *)
(* they dereference, and rings behind the virtual ones, unless the VNF was *)
(* stripped while is_running() did not tell of them; and a client that     *)
(* keeps to the procedure strips no VNF.                                   *)
THEOREM DeployedStaysUsable == Spec => []DeployedIsUsable
<1>1. Kept => DeployedIsUsable
  BY DEF Kept, Attached, Complete, Careful, DeployedIsUsable
<1> QED
  BY <1>1, KeptInvariant, PTL

-----------------------------------------------------------------------------
(* The properties, for a client that keeps to the procedure.               *)

LEMMA ReadyHeld ==
  ASSUME Kept, procedure, NEW v \in Polled, NEW g \in grant[v]
  PROVE  /\ g.side \in Side /\ g.slot \in Slot /\ g.aid \in Nat
         /\ g \in Held(v, g.side, g.slot)
         /\ acc[slot[v][g.slot]][g.side] \in Nat \ {0}
         /\ Divides(acc[slot[v][g.slot]][g.side], NQueue)
         /\ g.aid \in Accessors(acc[slot[v][g.slot]][g.side])
<1>1. g \in Grant /\ v \in Vnf
  BY DEF Kept, Attached, TypeOK, Polled
<1>2. g.side \in Side /\ g.slot \in Slot /\ g.aid \in Nat
  BY <1>1 DEF Grant
<1>3. g \in Held(v, g.side, g.slot)
  BY DEF Held
<1>4. slot[v][g.slot] \in Port
  BY <1>1, <1>2 DEF Kept, Careful, Attached, Complete, Usable, TypeOK
<1> DEFINE n == acc[slot[v][g.slot]][g.side]
<1>5. n \in Nat
  BY <1>2, <1>4 DEF Kept, Attached, TypeOK
<1>6. n > 0 /\ Divides(n, NQueue)
  BY <1>2 DEF Kept, Careful, Ready
<1>7. g.aid < n
  BY <1>2, <1>3 DEF Kept, Careful, Ready, Dealt
<1>8. g.aid \in Accessors(n)
  BY <1>2, <1>5, <1>7 DEF Accessors
<1> QED
  BY <1>2, <1>3, <1>5, <1>6, <1>8

(* No worker ever indexes an accessor its port does not have: whatever the *)
(* order of attach, reset, coremask and deploy over all the VNFs, the ids  *)
(* handed out are the ids configured.                                      *)
THEOREM AidsStayInRange == Spec => []AidInRange
<1>1. Kept => AidInRange
  <2> SUFFICES ASSUME Kept, procedure, NEW v \in Polled, NEW g \in grant[v]
               PROVE  g.aid < acc[slot[v][g.slot]][g.side]
    BY DEF AidInRange
  <2>1. Ready(v) /\ g \in Held(v, g.side, g.slot) /\ g.side \in Side /\ g.slot \in Slot
    BY ReadyHeld DEF Kept, Careful
  <2> QED
    BY <2>1 DEF Ready, Dealt
<1> QED
  BY <1>1, KeptInvariant, PTL

(* Two vcores never transmit on the same queue of a port. *)
THEOREM SendersStayDistinct == Spec => []SendersAreDistinct
<1>1. Kept => SendersAreDistinct
  <2> SUFFICES ASSUME Kept, procedure, NEW v \in Polled, NEW g \in grant[v], NEW h \in grant[v],
                      g # h, g.side = "tx", h.side = "tx", g.slot = h.slot
               PROVE  Touches(v, g) \cap Touches(v, h) = {}
    BY DEF SendersAreDistinct
  <2>1. g \in Held(v, "tx", g.slot) /\ h \in Held(v, "tx", g.slot)
        /\ g.slot \in Slot /\ "tx" \in Side
    BY ReadyHeld
  <2>2. g.aid # h.aid
    BY <2>1 DEF Kept, Careful, Ready, Dealt
  <2> DEFINE n == acc[slot[v][g.slot]]["tx"]
  <2>3. n \in Nat \ {0} /\ Divides(n, NQueue)
        /\ g.aid \in Accessors(n) /\ h.aid \in Accessors(n)
    BY ReadyHeld
  <2>4. QidsOfAid(g.aid, n, NQueue) \cap QidsOfAid(h.aid, n, NQueue) = {}
    BY <2>2, <2>3, RunsAreDisjoint, ConfigAssumption
  <2> QED
    BY <2>4 DEF Touches
<1> QED
  BY <1>1, KeptInvariant, PTL

(* Under such a client no request divides by zero or follows a port that   *)
(* is missing, and no worker finds its vcores or a port gone.              *)
THEOREM ConfigNeverCrashes == Spec => []NoCrash
<1>1. Kept => NoCrash
  BY DEF Kept, Careful, NoCrash
<1> QED
  BY <1>1, KeptInvariant, PTL

(* Together: whatever the order of a careful client's requests, what a     *)
(* deployed VNF's workers hold is what reset, coremask and deploy dealt.   *)
THEOREM AccessIdsStaySound == Spec => []AccessIdsAreSound
<1>1. AidInRange /\ SendersAreDistinct /\ NoCrash => AccessIdsAreSound
  BY DEF AccessIdsAreSound
<1> QED
  BY <1>1, AidsStayInRange, SendersStayDistinct, ConfigNeverCrashes, PTL

(* Every receive queue of a deployed VNF's ports is polled by exactly one  *)
(* vcore: no packet that RSS spreads is left behind, whatever the number   *)
(* of queues, lcores and blocks.                                           *)
THEOREM QueuesStayPolled == Spec => []EveryQueueIsPolled
<1>1. Kept => EveryQueueIsPolled
  <2> DEFINE Pollers(v, i, q) ==
        {g \in grant[v] : /\ g.side = "rx" /\ g.slot = i
                         /\ g.blk \in launched[v] /\ q \in Touches(v, g)}
  <2> SUFFICES ASSUME Kept, procedure, NEW v \in Polled, NEW i \in Slot, NEW q \in Queues(NQueue)
               PROVE  Cardinality(Pollers(v, i, q)) = 1
    BY DEF EveryQueueIsPolled
  <2> DEFINE n == acc[slot[v][i]]["rx"]
  <2>1. Ready(v) /\ "rx" \in Side
    BY DEF Kept, Careful, Side
  <2>2. n \in Nat \ {0} /\ Divides(n, NQueue)
    <3>1. v \in Vnf /\ slot[v][i] \in Port
      BY DEF Kept, Careful, Attached, Complete, Usable, TypeOK, Polled
    <3>2. n \in Nat
      BY <2>1, <3>1 DEF Kept, Attached, TypeOK
    <3> QED
      BY <2>1, <3>2 DEF Ready
  <2>3. PICK a \in Accessors(n) : q \in QidsOfAid(a, n, NQueue)
    BY <2>2, RunsCover, ConfigAssumption
  <2>4. PICK g \in Held(v, "rx", i) : g.aid = a
    BY <2>1, <2>3 DEF Ready, Dealt
  <2>5. g \in Pollers(v, i, q)
    <3>1. g \in grant[v] /\ g.blk \in BlocksOf(v) /\ launched[v] = BlocksOf(v)
      BY DEF Held, Kept, Careful, Attached, TypeOK, Polled
    <3> QED
      BY <2>3, <2>4, <3>1 DEF Held, Touches
  <2>6. ASSUME NEW h \in Pollers(v, i, q) PROVE h = g
    <3>1. h \in Held(v, "rx", i) /\ h.aid \in Accessors(n)
          /\ q \in QidsOfAid(h.aid, n, NQueue)
      BY ReadyHeld DEF Touches
    <3>2. h.aid = a
      BY <2>2, <2>3, <3>1, RunsAreDisjoint, ConfigAssumption
    <3> QED
      BY <2>1, <2>4, <3>1, <3>2 DEF Ready, Dealt
  <2>7. Pollers(v, i, q) = {g}
    BY <2>5, <2>6
  <2> QED
    BY <2>7, FS_Singleton
<1> QED
  BY <1>1, KeptInvariant, PTL

=============================================================================
