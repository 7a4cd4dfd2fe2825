----------------------------- MODULE NfviProofs -----------------------------
(***************************************************************************)
(* Proofs about the registry, for any number of VNFs, ports and panels,    *)
(* any catalog, any client, and any order of requests, timer callbacks,    *)
(* workers and the end of the program.  RegistryInv: VNFs and ports know   *)
(* each other, both are registered, and a VNF that has workers and lacks a *)
(* port was stripped.  On it rest four invariants, one for each who can    *)
(* dereference what is not there: the timer callback (Timed), the deletion *)
(* of a panel (Panels), an acl (Tables) and the workers (Ended).           *)
(***************************************************************************)
EXTENDS Nfvi, TLAPS

Slots == {0, 1}

NfviTypeOK ==
  /\ armed \in BOOLEAN
  /\ slot \in [Vnf -> [Slots -> Port \cup {NoPort}]]
  /\ owner \in [Port -> Vnf \cup {NoVnf}]
  /\ panel \in [Panel -> SUBSET Virt]
  /\ launched \in [Vnf -> SUBSET Slots] /\ running \in [Vnf -> SUBSET Slots]
  /\ \A v \in Vnf : running[v] \subseteq launched[v] /\ launched[v] \subseteq Config!BlocksOf(v)
  /\ stripped \subseteq Vnf
  /\ vnfs \in Seq(Vnf) /\ ports \in Seq(Port) /\ ppps \in Seq(Panel)
  /\ freed \subseteq Vnf \cup Port
  /\ n_vnf \in Nat /\ ti \in Nat \ {0} /\ tpid \in Slots /\ vi \in Nat

Once(s) == \A j, k \in 1 .. Len(s) : s[j] = s[k] => j = k

(* A port is attached in one place, and the two know each other. *)
Owners ==
  /\ \A v \in Vnf, x \in Slots : slot[v][x] # NoPort => owner[slot[v][x]] = v
  /\ \A v \in Vnf : slot[v][0] = slot[v][1] => slot[v][0] = NoPort
  /\ \A p \in Port : owner[p] # NoVnf => \E x \in Slots : slot[owner[p]][x] = p

(* A VNF that has workers and lacks a port. *)
Lost(v) == launched[v] # {} /\ \E x \in Slots : slot[v][x] = NoPort

LostIsStripped == \A v \in Vnf : Lost(v) => v \in stripped

Registered ==
  /\ \A v \in Live(vnfs), x \in Slots : slot[v][x] \in Live(ports) \cup {NoPort}
  /\ \A p \in Port : owner[p] \in Live(vnfs) \cup {NoVnf}
  /\ \A v \in Vnf : launched[v] # {} => v \in Live(vnfs) \cup freed

(* The destructor has begun to free. *)
Freeing == {"no vnfs", "no ports", "no ppps"}

Alive ==
  phase \notin Freeing =>
    /\ Live(vnfs) \cap freed = {} /\ Live(ports) \cap freed = {}
    /\ \A v \in Vnf \cap freed, x \in Slots : slot[v][x] = NoPort

RegistryInv ==
  NfviTypeOK /\ Once(vnfs) /\ Once(ports) /\ Owners /\ LostIsStripped /\ Registered /\ Alive

-----------------------------------------------------------------------------
(* The vectors. *)
LEMMA LiveIs ==
  ASSUME NEW S, NEW s \in Seq(S), NEW o
  PROVE  o \in Live(s) <=> \E k \in 1 .. Len(s) : s[k] = o
BY DEF Live, ToSet

LEMMA LiveTyped ==
  ASSUME NEW S, NEW s \in Seq(S)
  PROVE  Live(s) \subseteq S
BY DEF Live, ToSet

LEMMA Appended ==
  ASSUME NEW S, NEW s \in Seq(S), NEW o \in S
  PROVE  /\ Append(s, o) \in Seq(S) /\ Len(Append(s, o)) = Len(s) + 1
         /\ Live(Append(s, o)) = Live(s) \cup {o}
         /\ o \notin Live(s) /\ Once(s) => Once(Append(s, o))
<1> DEFINE t == Append(s, o)
<1>1. /\ t \in Seq(S) /\ Len(t) = Len(s) + 1 /\ Len(s) \in Nat
      /\ \A k \in 1 .. Len(s) : t[k] = s[k]
      /\ t[Len(s) + 1] = o
  OBVIOUS
<1>2. \A k : k \in 1 .. Len(s) + 1 <=> k \in 1 .. Len(s) \/ k = Len(s) + 1
  BY <1>1
<1> HIDE DEF t
<1>3. Live(t) = Live(s) \cup {o}
  BY <1>1, <1>2, LiveIs
<1>4. o \notin Live(s) /\ Once(s) => Once(t)
  BY <1>1, <1>2, LiveIs DEF Once
<1> QED
  BY <1>1, <1>3, <1>4 DEF t

LEMMA Joined ==
  ASSUME NEW S, NEW a \in Seq(S), NEW b \in Seq(S)
  PROVE  /\ a \o b \in Seq(S) /\ Len(a \o b) = Len(a) + Len(b)
         /\ \A k \in 1 .. Len(a) + Len(b) : (a \o b)[k] = IF k <= Len(a) THEN a[k] ELSE b[k - Len(a)]
<1>1. a \o b \in Seq(S)
  OBVIOUS
<1>2. Len(a \o b) = Len(a) + Len(b)
  OBVIOUS
<1>3. \A k \in 1 .. Len(a) + Len(b) : (a \o b)[k] = IF k <= Len(a) THEN a[k] ELSE b[k - Len(a)]
  OBVIOUS
<1> QED
  BY <1>1, <1>2, <1>3

LEMMA ErasedIs ==
  ASSUME NEW S, NEW s \in Seq(S), NEW o \in Live(s)
  PROVE  /\ Erased(s, o) \in Seq(S)
         /\ Once(s) => Live(Erased(s, o)) = Live(s) \ {o} /\ Once(Erased(s, o))
<1> DEFINE e == CHOOSE k \in DOMAIN s : s[k] = o
           a == SubSeq(s, 1, e - 1)
           b == SubSeq(s, e + 1, Len(s))
           t == a \o b
<1>1. e \in 1 .. Len(s) /\ s[e] = o /\ Len(s) \in Nat
  BY LiveIs
<1> HIDE DEF e
<1>2. /\ a \in Seq(S) /\ Len(a) = e - 1 /\ \A k \in 1 .. e - 1 : a[k] = s[k]
      /\ b \in Seq(S) /\ Len(b) = Len(s) - e /\ \A k \in 1 .. Len(s) - e : b[k] = s[e + k]
  BY <1>1
<1> HIDE DEF a, b
<1>3. /\ t \in Seq(S) /\ Len(t) = Len(s) - 1
      /\ \A k \in 1 .. Len(s) - 1 : t[k] = IF k < e THEN a[k] ELSE b[k - (e - 1)]
  <2>5. a \in Seq(S) /\ b \in Seq(S)
    BY <1>2
  <2>1. t \in Seq(S) /\ Len(t) = Len(a) + Len(b)
    BY <2>5, Joined
  <2>2. \A k \in 1 .. Len(a) + Len(b) : t[k] = IF k <= Len(a) THEN a[k] ELSE b[k - Len(a)]
    BY <2>5, Joined
  <2>3. Len(a) + Len(b) = Len(s) - 1
    BY <1>1, <1>2
  <2>4. \A k \in 1 .. Len(s) - 1 : k <= Len(a) <=> k < e
    BY <1>1, <1>2
  <2> QED
    BY <1>2, <2>1, <2>2, <2>3, <2>4
<1>4. \A k \in 1 .. Len(s) - 1 : k >= e => k - (e - 1) \in 1 .. Len(s) - e /\ e + (k - (e - 1)) = k + 1
  BY <1>1
<1>5. \A k \in 1 .. Len(s) - 1 : t[k] = IF k < e THEN s[k] ELSE s[k + 1]
  BY <1>1, <1>2, <1>3, <1>4
<1> HIDE DEF t
<1> DEFINE old(k) == IF k < e THEN k ELSE k + 1
<1>6. /\ \A k \in 1 .. Len(s) - 1 : old(k) \in 1 .. Len(s) /\ old(k) # e /\ t[k] = s[old(k)]
      /\ \A j, k \in 1 .. Len(s) - 1 : old(j) = old(k) => j = k
  BY <1>1, <1>5
<1>7. \A j \in 1 .. Len(s) : j # e => \E k \in 1 .. Len(s) - 1 : old(k) = j
  <2> SUFFICES ASSUME NEW j \in 1 .. Len(s), j # e
               PROVE  \E k \in 1 .. Len(s) - 1 : old(k) = j
    OBVIOUS
  <2>1. CASE j < e
    BY <1>1, <2>1
  <2>2. CASE j > e
    <3>1. j - 1 \in 1 .. Len(s) - 1 /\ old(j - 1) = j
      BY <1>1, <2>2
    <3> QED
      BY <3>1
  <2> QED
    BY <1>1, <2>1, <2>2
<1> HIDE DEF old
<1>8. ASSUME Once(s)
      PROVE  Live(t) = Live(s) \ {o}
  <2>1. ASSUME NEW x \in Live(t)
        PROVE  x \in Live(s) /\ x # o
    BY <1>1, <1>3, <1>6, <1>8, LiveIs DEF Once
  <2>2. ASSUME NEW x \in Live(s), x # o
        PROVE  x \in Live(t)
    <3>1. PICK j \in 1 .. Len(s) : s[j] = x
      BY LiveIs
    <3>2. PICK k \in 1 .. Len(s) - 1 : old(k) = j
      BY <1>1, <1>7, <2>2, <3>1
    <3>3. t[k] = x
      BY <1>6, <3>1, <3>2
    <3> QED
      BY <1>3, <3>3, LiveIs
  <2> QED
    BY <2>1, <2>2
<1>9. Once(s) => Once(t)
  BY <1>3, <1>6 DEF Once
<1>10. Erased(s, o) = t
  BY DEF Erased, RemoveAt, e, a, b, t
<1> QED
  BY <1>3, <1>8, <1>9, <1>10

-----------------------------------------------------------------------------
(* The registry, action by action. *)
Typed ==
  armed' \in BOOLEAN /\ n_vnf' \in Nat /\ ti' \in Nat \ {0} /\ tpid' \in Slots /\ vi' \in Nat

LEMMA RegistrySame ==
  ASSUME RegistryInv, Typed, phase \in Freeing => phase' \in Freeing,
         UNCHANGED <<slot, owner, panel, launched, running, stripped, vnfs, ports, ppps, freed>>
  PROVE  RegistryInv'
<1>1. NfviTypeOK'
  BY DEF RegistryInv, NfviTypeOK, Typed
<1>2. Once(vnfs)' /\ Once(ports)' /\ Owners' /\ LostIsStripped' /\ Registered'
  BY DEF RegistryInv, Once, Owners, LostIsStripped, Lost, Registered
<1>3. Alive'
  BY DEF RegistryInv, Alive
<1> QED
  BY <1>1, <1>2, <1>3 DEF RegistryInv

LEMMA RegistryPushed ==
  ASSUME RegistryInv, NEW v \in Vnf, Alloc(v), Pushed(v)
  PROVE  RegistryInv' /\ vnfs' \in Seq(Vnf) /\ Live(vnfs') = Live(vnfs) \cup {v} /\ Len(vnfs') = Len(vnfs) + 1
<1>1. /\ vnfs' = Append(vnfs, v) /\ v \notin Live(vnfs) /\ v \notin freed
      /\ UNCHANGED <<phase, armed, slot, owner, panel, launched, running, stripped, ports, ppps, freed,
                     n_vnf, ti, tpid, vi>>
  BY DEF Alloc, Pushed, configVars, timerVars
<1>2. vnfs' \in Seq(Vnf) /\ Live(vnfs') = Live(vnfs) \cup {v} /\ Once(vnfs') /\ Len(vnfs') = Len(vnfs) + 1
  BY <1>1, Appended DEF RegistryInv, NfviTypeOK
<1>3. NfviTypeOK'
  BY <1>1, <1>2 DEF RegistryInv, NfviTypeOK
<1>4. Once(vnfs)' /\ Once(ports)' /\ Owners' /\ LostIsStripped'
  BY <1>1, <1>2 DEF RegistryInv, Once, Owners, LostIsStripped, Lost
<1>5. Registered'
  <2>1. \A x \in Slots : slot[v][x] \in Live(ports) \cup {NoPort}
    <3> SUFFICES ASSUME NEW x \in Slots, slot[v][x] # NoPort
                 PROVE  FALSE
      OBVIOUS
    <3>1. slot[v][x] \in Port /\ owner[slot[v][x]] = v
      BY DEF RegistryInv, NfviTypeOK, Owners
    <3> QED
      BY <1>1, <3>1, NfviAssumption DEF RegistryInv, Registered
  <2> QED
    BY <1>1, <1>2, <2>1 DEF RegistryInv, Registered
<1>6. Alive'
  BY <1>1, <1>2 DEF RegistryInv, Alive
<1> QED
  BY <1>2, <1>3, <1>4, <1>5, <1>6 DEF RegistryInv

LEMMA RegistryDelVnf ==
  ASSUME RegistryInv, NEW v \in Vnf, DelVnf(v)
  PROVE  /\ RegistryInv' /\ Live(vnfs') = Live(vnfs) \ {v} /\ vnfs' \in Seq(Vnf)
<1>1. /\ vnfs' = Erased(vnfs, v) /\ v \in Live(vnfs) /\ freed' = freed \cup {v} /\ phase = "serving"
      /\ \A x \in Slots : slot[v][x] = NoPort
      /\ UNCHANGED <<phase, armed, slot, owner, panel, launched, running, stripped, ports, ppps,
                     n_vnf, ti, tpid, vi>>
  BY DEF DelVnf, Serving, Deletable, Config!Slot, Slots, configVars
<1>2. vnfs' \in Seq(Vnf) /\ Live(vnfs') = Live(vnfs) \ {v} /\ Once(vnfs')
  <2>1. vnfs \in Seq(Vnf) /\ Once(vnfs)
    BY DEF RegistryInv, NfviTypeOK
  <2> QED
    BY <1>1, <2>1, ErasedIs
<1>3. NfviTypeOK'
  BY <1>1, <1>2 DEF RegistryInv, NfviTypeOK
<1>4. Once(vnfs)' /\ Once(ports)' /\ Owners' /\ LostIsStripped'
  BY <1>1, <1>2 DEF RegistryInv, Once, Owners, LostIsStripped, Lost
<1>5. Registered'
  <2>1. \A p \in Port : owner[p] # v
    <3> SUFFICES ASSUME NEW p \in Port, owner[p] = v
                 PROVE  FALSE
      OBVIOUS
    <3>1. PICK x \in Slots : slot[v][x] = p
      BY NfviAssumption DEF RegistryInv, Owners
    <3> QED
      BY <1>1, <3>1, NfviAssumption
  <2> QED
    BY <1>1, <1>2, <2>1 DEF RegistryInv, Registered
<1>6. Alive'
  <2>1. v \notin Live(ports)
    BY NfviAssumption, LiveTyped DEF RegistryInv, NfviTypeOK
  <2> QED
    BY <1>1, <1>2, <2>1 DEF RegistryInv, Alive
<1> QED
  BY <1>2, <1>3, <1>4, <1>5, <1>6 DEF RegistryInv

LEMMA RegistryAppendPort ==
  ASSUME RegistryInv, NEW p \in Port, AppendPort(p)
  PROVE  RegistryInv' /\ Live(ports') = Live(ports) \cup {p}
<1>1. /\ ports' = Append(ports, p) /\ p \notin Live(ports) /\ p \notin freed
      /\ UNCHANGED <<phase, armed, slot, owner, panel, launched, running, stripped, vnfs, ppps, freed,
                     n_vnf, ti, tpid, vi>>
  BY DEF AppendPort, mainVars, configVars, timerVars
<1>2. ports' \in Seq(Port) /\ Live(ports') = Live(ports) \cup {p} /\ Once(ports')
  BY <1>1, Appended DEF RegistryInv, NfviTypeOK
<1>3. NfviTypeOK'
  BY <1>1, <1>2 DEF RegistryInv, NfviTypeOK
<1>4. Once(vnfs)' /\ Once(ports)' /\ Owners' /\ LostIsStripped'
  BY <1>1, <1>2 DEF RegistryInv, Once, Owners, LostIsStripped, Lost
<1>5. Registered' /\ Alive'
  BY <1>1, <1>2 DEF RegistryInv, Registered, Alive
<1> QED
  BY <1>2, <1>3, <1>4, <1>5 DEF RegistryInv

LEMMA RegistryDelPort ==
  ASSUME RegistryInv, NEW p \in Port, DelPort(p)
  PROVE  RegistryInv' /\ Live(ports') = Live(ports) \ {p}
<1>1. /\ ports' = Erased(ports, p) /\ p \in Live(ports) /\ freed' = freed \cup {p} /\ phase = "serving"
      /\ owner[p] = NoVnf
      /\ UNCHANGED <<phase, armed, slot, owner, panel, launched, running, stripped, vnfs, ppps,
                     n_vnf, ti, tpid, vi>>
  BY DEF DelPort, Serving, mainVars, configVars, timerVars
<1>2. ports' \in Seq(Port) /\ Live(ports') = Live(ports) \ {p} /\ Once(ports')
  <2>1. ports \in Seq(Port) /\ Once(ports)
    BY DEF RegistryInv, NfviTypeOK
  <2> QED
    BY <1>1, <2>1, ErasedIs
<1>3. NfviTypeOK'
  BY <1>1, <1>2 DEF RegistryInv, NfviTypeOK
<1>4. Once(vnfs)' /\ Once(ports)' /\ Owners' /\ LostIsStripped'
  BY <1>1, <1>2 DEF RegistryInv, Once, Owners, LostIsStripped, Lost
<1>5. Registered'
  <2>1. \A v \in Vnf, x \in Slots : slot[v][x] # p
    BY <1>1, NfviAssumption DEF RegistryInv, Owners
  <2>2. Live(vnfs) \subseteq Vnf
    BY LiveTyped DEF RegistryInv, NfviTypeOK
  <2> QED
    BY <1>1, <1>2, <2>1, <2>2 DEF RegistryInv, Registered
<1>6. Alive'
  <2>1. p \notin Live(vnfs) /\ p \notin Vnf
    BY NfviAssumption, LiveTyped DEF RegistryInv, NfviTypeOK
  <2> QED
    BY <1>1, <1>2, <2>1 DEF RegistryInv, Alive
<1> QED
  BY <1>2, <1>3, <1>4, <1>5, <1>6 DEF RegistryInv

(* What a deletion or a detachment strips loses no VNF that was stripped. *)
LEMMA RegistryPanels ==
  ASSUME RegistryInv, panel' \in [Panel -> SUBSET Virt], ppps' \in Seq(Panel),
         stripped \subseteq stripped', stripped' \subseteq Vnf,
         UNCHANGED <<mainVars, slot, owner, launched, running, vnfs, ports, freed, timerVars>>
  PROVE  RegistryInv'
<1>1. UNCHANGED <<phase, armed, slot, owner, launched, running, vnfs, ports, freed, n_vnf, ti, tpid, vi>>
  BY DEF mainVars, timerVars
<1>2. NfviTypeOK'
  BY <1>1 DEF RegistryInv, NfviTypeOK
<1>3. Once(vnfs)' /\ Once(ports)' /\ Owners' /\ LostIsStripped' /\ Registered' /\ Alive'
  BY <1>1 DEF RegistryInv, Once, Owners, LostIsStripped, Lost, Registered, Alive
<1> QED
  BY <1>2, <1>3 DEF RegistryInv

LEMMA PanelMoves ==
  ASSUME RegistryInv, NEW n \in Panel
  PROVE  /\ \A r, l \in Virt : PppAlloc(n, r, l) =>
              /\ panel' = [panel EXCEPT ![n] = {r, l}] /\ ppps' = Append(ppps, n)
              /\ {r, l} \subseteq Live(ports) /\ RegistryInv'
              /\ UNCHANGED <<mainVars, slot, owner, launched, running, vnfs, ports, freed, timerVars,
                             misuse, pastVars>>
         /\ DelPpp(n) =>
              /\ panel' = [panel EXCEPT ![n] = {}] /\ ppps' = Erased(ppps, n)
              /\ Misuse("panel", panel[n] \cap freed # {}) /\ RegistryInv'
              /\ UNCHANGED <<mainVars, slot, owner, launched, running, vnfs, ports, freed, timerVars, pastVars>>
<1>1. ASSUME NEW r \in Virt, NEW l \in Virt, PppAlloc(n, r, l)
      PROVE  /\ panel' = [panel EXCEPT ![n] = {r, l}] /\ ppps' = Append(ppps, n)
             /\ {r, l} \subseteq Live(ports) /\ RegistryInv'
             /\ UNCHANGED <<mainVars, slot, owner, launched, running, vnfs, ports, freed, timerVars,
                            misuse, pastVars>>
  <2>1. /\ panel' = [panel EXCEPT ![n] = {r, l}] /\ ppps' = Append(ppps, n)
        /\ {r, l} \subseteq Live(ports)
        /\ UNCHANGED <<mainVars, slot, owner, launched, running, stripped, vnfs, ports, freed, timerVars,
                       misuse, pastVars>>
    BY <1>1 DEF PppAlloc, Config!PppAlloc, Config!workerVars
  <2>2. panel' \in [Panel -> SUBSET Virt] /\ ppps' \in Seq(Panel) /\ stripped \subseteq Vnf
    BY <2>1 DEF RegistryInv, NfviTypeOK
  <2> QED
    BY <2>1, <2>2, RegistryPanels
<1>2. ASSUME DelPpp(n)
      PROVE  /\ panel' = [panel EXCEPT ![n] = {}] /\ ppps' = Erased(ppps, n)
             /\ Misuse("panel", panel[n] \cap freed # {}) /\ RegistryInv'
             /\ UNCHANGED <<mainVars, slot, owner, launched, running, vnfs, ports, freed, timerVars, pastVars>>
  <2>1. n \in Live(ppps)
    <3>1. PICK k \in Searched : k <= Len(ppps) /\ ppps[k] = n
      BY <1>2 DEF DelPpp, FoundPpp
    <3>2. k \in 1 .. Len(ppps)
      BY <3>1 DEF Searched, RegistryInv, NfviTypeOK
    <3> QED
      BY <3>1, <3>2, LiveIs DEF RegistryInv, NfviTypeOK
  <2>2. /\ panel' = [panel EXCEPT ![n] = {}] /\ ppps' = Erased(ppps, n)
        /\ Misuse("panel", panel[n] \cap freed # {})
        /\ UNCHANGED <<mainVars, slot, owner, launched, running, vnfs, ports, freed, timerVars, pastVars>>
    BY <1>2 DEF DelPpp, Config!DelPpp
  <2>3. ppps' \in Seq(Panel)
    BY <2>1, <2>2, ErasedIs DEF RegistryInv, NfviTypeOK
  <2>4. panel' \in [Panel -> SUBSET Virt]
    BY <2>2 DEF RegistryInv, NfviTypeOK
  <2>5. stripped \subseteq stripped' /\ stripped' \subseteq Vnf
    <3>1. Config!OwnersOf(n) \subseteq Vnf
      BY NfviAssumption DEF RegistryInv, NfviTypeOK, Config!OwnersOf
    <3> QED
      BY <1>2, <3>1 DEF DelPpp, Config!DelPpp, Config!Strip, RegistryInv, NfviTypeOK
  <2>6. RegistryInv'
    BY <2>2, <2>3, <2>4, <2>5, RegistryPanels
  <2> QED
    BY <2>2, <2>6
<1> QED
  BY <1>1, <1>2

LEMMA RegistryAttach ==
  ASSUME RegistryInv, NEW v \in Live(vnfs), NEW x \in Slots, NEW p \in Live(ports),
         Config!AttachPort(v, x, p), phase = "serving",
         UNCHANGED <<mainVars, registryVars, tpc, n_vnf, ti, tvnf, tpid>>
  PROVE  RegistryInv' /\ \A u \in Vnf, y \in Slots : slot[u][y] # NoPort => slot'[u][y] # NoPort
<1>1. v \in Vnf /\ p \in Port
  BY LiveTyped DEF RegistryInv, NfviTypeOK
<1>2. /\ slot' = [slot EXCEPT ![v][x] = p] /\ owner' = [owner EXCEPT ![p] = v]
      /\ owner[p] = NoVnf /\ slot[v][x] = NoPort
      /\ UNCHANGED <<phase, armed, panel, launched, running, stripped, vnfs, ports, ppps, freed,
                     n_vnf, ti, tpid, vi>>
  BY DEF Config!AttachPort, Config!workerVars, mainVars, registryVars
<1>3. /\ \A u \in Vnf, y \in Slots : slot'[u][y] = IF u = v /\ y = x THEN p ELSE slot[u][y]
      /\ \A r \in Port : owner'[r] = IF r = p THEN v ELSE owner[r]
  BY <1>1, <1>2 DEF RegistryInv, NfviTypeOK
<1>4. NfviTypeOK'
  BY <1>1, <1>2 DEF RegistryInv, NfviTypeOK
<1>5. \A u \in Vnf, y \in Slots : slot[u][y] # p
  BY <1>1, <1>2, NfviAssumption DEF RegistryInv, Owners
<1>6. Owners'
  <2>1. \A u \in Vnf, y \in Slots : slot'[u][y] # NoPort => owner'[slot'[u][y]] = u
    <3> SUFFICES ASSUME NEW u \in Vnf, NEW y \in Slots, slot'[u][y] # NoPort
                 PROVE  owner'[slot'[u][y]] = u
      OBVIOUS
    <3>1. slot'[u][y] \in Port
      BY <1>4 DEF NfviTypeOK
    <3> QED
      BY <1>1, <1>3, <1>5, <3>1 DEF RegistryInv, Owners
  <2>2. \A u \in Vnf : slot'[u][0] = slot'[u][1] => slot'[u][0] = NoPort
    BY <1>3, <1>5 DEF RegistryInv, Owners, Slots
  <2>3. \A r \in Port : owner'[r] # NoVnf => \E y \in Slots : slot'[owner'[r]][y] = r
    <3> SUFFICES ASSUME NEW r \in Port, owner'[r] # NoVnf
                 PROVE  \E y \in Slots : slot'[owner'[r]][y] = r
      OBVIOUS
    <3>1. CASE r = p
      BY <1>1, <1>3, <3>1
    <3>2. CASE r # p
      <4>1. owner'[r] = owner[r] /\ owner[r] \in Vnf
        BY <1>3, <3>2 DEF RegistryInv, NfviTypeOK
      <4>2. PICK y \in Slots : slot[owner[r]][y] = r
        BY <4>1, NfviAssumption DEF RegistryInv, Owners
      <4>3. slot'[owner[r]][y] = r
        BY <1>2, <1>3, <4>1, <4>2, NfviAssumption
      <4> QED
        BY <4>1, <4>3
    <3> QED
      BY <3>1, <3>2
  <2> QED
    BY <2>1, <2>2, <2>3 DEF Owners
<1>7. \A u \in Vnf, y \in Slots : slot[u][y] # NoPort => slot'[u][y] # NoPort
  BY <1>1, <1>3, NfviAssumption
<1>8. LostIsStripped'
  BY <1>2, <1>7 DEF RegistryInv, LostIsStripped, Lost
<1>9. Registered'
  <2>1. Live(vnfs) \subseteq Vnf
    BY LiveTyped DEF RegistryInv, NfviTypeOK
  <2> QED
    BY <1>2, <1>3, <2>1 DEF RegistryInv, Registered
<1>10. Alive'
  <2>1. v \notin freed
    BY DEF RegistryInv, Alive, Freeing
  <2> QED
    BY <1>2, <1>3, <2>1 DEF RegistryInv, Alive
<1>11. Once(vnfs)' /\ Once(ports)'
  BY <1>2 DEF RegistryInv, Once
<1> QED
  BY <1>4, <1>6, <1>7, <1>8, <1>9, <1>10, <1>11 DEF RegistryInv

LEMMA RegistryDettach ==
  ASSUME RegistryInv, NEW v \in Live(vnfs), NEW x \in Slots, Config!DettachPort(v, x),
         UNCHANGED <<mainVars, registryVars, tpc, n_vnf, ti, tvnf, tpid>>
  PROVE  /\ RegistryInv' /\ v \in Vnf /\ UNCHANGED <<panel, launched, running>>
         /\ \A u \in Vnf \ {v}, y \in Slots : slot'[u][y] = slot[u][y]
<1> DEFINE p == slot[v][x]
<1>1. v \in Vnf /\ p \in Port
  <2>1. v \in Vnf
    BY LiveTyped DEF RegistryInv, NfviTypeOK
  <2> QED
    BY <2>1 DEF RegistryInv, NfviTypeOK, Config!DettachPort
<1>2. /\ slot' = [slot EXCEPT ![v][x] = NoPort] /\ owner' = [owner EXCEPT ![p] = NoVnf]
      /\ p # NoPort /\ ~Config!VnfRunning(v) /\ owner[p] = v /\ Config!Strip({v})
      /\ UNCHANGED <<phase, armed, panel, launched, running, vnfs, ports, ppps, freed, n_vnf, ti, tpid, vi>>
  BY <1>1 DEF Config!DettachPort, mainVars, registryVars, RegistryInv, Owners
<1>a. /\ stripped \subseteq stripped' /\ stripped' \subseteq Vnf
      /\ launched[v] # {} => v \in stripped'
  BY <1>1, <1>2 DEF Config!Strip, RegistryInv, NfviTypeOK
<1>3. /\ \A u \in Vnf, y \in Slots : slot'[u][y] = IF u = v /\ y = x THEN NoPort ELSE slot[u][y]
      /\ \A r \in Port : owner'[r] = IF r = p THEN NoVnf ELSE owner[r]
  BY <1>1, <1>2 DEF RegistryInv, NfviTypeOK
<1>4. NfviTypeOK'
  BY <1>1, <1>2, <1>a DEF RegistryInv, NfviTypeOK
<1>5. \A u \in Vnf, y \in Slots : slot[u][y] = p => u = v /\ y = x
  BY <1>1, <1>2 DEF RegistryInv, Owners, Slots
<1> HIDE DEF p
<1>6. Owners'
  <2>1. \A u \in Vnf, y \in Slots : slot'[u][y] # NoPort => owner'[slot'[u][y]] = u
    <3> SUFFICES ASSUME NEW u \in Vnf, NEW y \in Slots, slot'[u][y] # NoPort
                 PROVE  owner'[slot'[u][y]] = u
      OBVIOUS
    <3>1. slot'[u][y] \in Port /\ slot'[u][y] = slot[u][y] /\ slot[u][y] # p
      BY <1>3, <1>4, <1>5 DEF NfviTypeOK
    <3> QED
      BY <1>3, <3>1 DEF RegistryInv, Owners
  <2>2. \A u \in Vnf : slot'[u][0] = slot'[u][1] => slot'[u][0] = NoPort
    BY <1>3 DEF RegistryInv, NfviTypeOK, Owners, Slots
  <2>3. \A r \in Port : owner'[r] # NoVnf => \E y \in Slots : slot'[owner'[r]][y] = r
    <3> SUFFICES ASSUME NEW r \in Port, owner'[r] # NoVnf
                 PROVE  \E y \in Slots : slot'[owner'[r]][y] = r
      OBVIOUS
    <3>1. r # p /\ owner'[r] = owner[r] /\ owner[r] \in Vnf
      BY <1>3 DEF RegistryInv, NfviTypeOK
    <3>2. PICK y \in Slots : slot[owner[r]][y] = r
      BY <3>1, NfviAssumption DEF RegistryInv, Owners
    <3>3. slot'[owner[r]][y] = r
      BY <1>3, <3>1, <3>2 DEF p
    <3> QED
      BY <3>1, <3>3
  <2> QED
    BY <2>1, <2>2, <2>3 DEF Owners
<1>7. LostIsStripped'
  BY <1>2, <1>3, <1>a DEF RegistryInv, LostIsStripped, Lost
<1>8. Registered'
  <2>1. Live(vnfs) \subseteq Vnf
    BY LiveTyped DEF RegistryInv, NfviTypeOK
  <2> QED
    BY <1>2, <1>3, <2>1 DEF RegistryInv, Registered
<1>9. Alive' /\ Once(vnfs)' /\ Once(ports)'
  BY <1>2, <1>3 DEF RegistryInv, Once, Alive
<1> QED
  BY <1>1, <1>2, <1>3, <1>4, <1>6, <1>7, <1>8, <1>9 DEF RegistryInv

(* Deploying takes all ports, and nothing else here changes what is attached: *)
(* one VNF's workers come and go.                                             *)
Manned(v) ==
  /\ UNCHANGED <<slot, owner, panel>>
  /\ launched' \in [Vnf -> SUBSET Slots] /\ running' \in [Vnf -> SUBSET Slots]
  /\ \A u \in Vnf : running'[u] \subseteq launched'[u] /\ launched'[u] \subseteq Config!BlocksOf(u)
  /\ stripped' \subseteq Vnf
  /\ \A u \in Vnf \ {v} : launched'[u] = launched[u] /\ (u \in stripped <=> u \in stripped')
  /\ \/ launched'[v] = {}
     \/ \A x \in Slots : slot[v][x] # NoPort
     \/ UNCHANGED <<launched, stripped>>

Operation(v) ==
  \/ Config!Reset(v)
  \/ Config!Deploy(v) \/ Config!DeployRollsBack(v) \/ Config!DeployFails(v) \/ Config!Undeploy(v)
  \/ \E m \in Mask, b \in Config!BlocksOf(v) : Config!SetCoremask(v, b, m)

LEMMA StopMoves ==
  ASSUME RegistryInv, NEW v \in Vnf, NEW left \in SUBSET Config!BlocksOf(v), Config!Stop(v, left)
  PROVE  /\ launched' \in [Vnf -> SUBSET Slots] /\ running' \in [Vnf -> SUBSET Slots]
         /\ \A u \in Vnf : running'[u] \subseteq launched'[u] /\ launched'[u] \subseteq Config!BlocksOf(u)
         /\ stripped' \subseteq Vnf
         /\ \A u \in Vnf \ {v} : launched'[u] = launched[u] /\ (u \in stripped <=> u \in stripped')
         /\ launched'[v] = left
<1>0. left \in SUBSET Slots
  BY DEF Config!BlocksOf, Slots
<1>1. /\ launched' = [launched EXCEPT ![v] = left] /\ running' = [running EXCEPT ![v] = {}]
      /\ stripped' \in {stripped, stripped \ {v}}
  BY DEF Config!Stop
<1>2. /\ launched' \in [Vnf -> SUBSET Slots] /\ running' \in [Vnf -> SUBSET Slots]
      /\ \A u \in Vnf : /\ launched'[u] = IF u = v THEN left ELSE launched[u]
                        /\ running'[u] = IF u = v THEN {} ELSE running[u]
  BY <1>0, <1>1 DEF RegistryInv, NfviTypeOK
<1> QED
  BY <1>0, <1>1, <1>2 DEF RegistryInv, NfviTypeOK

LEMMA OperationMoves ==
  ASSUME RegistryInv, NEW v \in Vnf, Operation(v)
  PROVE  Manned(v)
<1>0. /\ launched \in [Vnf -> SUBSET Slots] /\ running \in [Vnf -> SUBSET Slots] /\ stripped \subseteq Vnf
      /\ \A u \in Vnf : running[u] \subseteq launched[u] /\ launched[u] \subseteq Config!BlocksOf(u)
      /\ Config!BlocksOf(v) \in SUBSET Slots
  BY DEF RegistryInv, NfviTypeOK, Config!BlocksOf, Slots
<1>1. Config!DeployChecks(v) => \A x \in Slots : slot[v][x] # NoPort
  BY DEF Config!DeployChecks, Config!Usable, Config!Slot, Slots
<1>2. CASE Config!Deploy(v)
  <2>1. /\ launched' = [launched EXCEPT ![v] = Config!BlocksOf(v)] /\ UNCHANGED <<slot, owner, panel, running, stripped>>
        /\ \A x \in Slots : slot[v][x] # NoPort
    BY <1>1, <1>2 DEF Config!Deploy, Config!portVars
  <2>2. \A u \in Vnf : launched'[u] = IF u = v THEN Config!BlocksOf(v) ELSE launched[u]
    BY <1>0, <2>1
  <2> QED
    BY <1>0, <2>1, <2>2 DEF Manned
<1>3. CASE Config!DeployRollsBack(v)
  <2>1. PICK left \in SUBSET ((launched[v] \cup Config!Launched(v)) \ running[v]) : Config!Stop(v, left)
    BY <1>3 DEF Config!DeployRollsBack
  <2>2. left \in SUBSET Config!BlocksOf(v)
    BY <1>0 DEF Config!Launched
  <2>3. UNCHANGED <<slot, owner, panel>> /\ \A x \in Slots : slot[v][x] # NoPort
    BY <1>1, <1>3 DEF Config!DeployRollsBack, Config!portVars
  <2> QED
    BY <2>1, <2>2, <2>3, StopMoves DEF Manned
<1>4. CASE Config!Undeploy(v)
  <2>1. Config!Stop(v, {}) /\ UNCHANGED <<slot, owner, panel>>
    BY <1>4 DEF Config!Undeploy, Config!portVars
  <2> QED
    BY <1>0, <2>1, StopMoves DEF Manned
<1>5. CASE UNCHANGED <<slot, owner, panel, launched, running, stripped>>
  BY <1>0, <1>5 DEF Manned
<1>6. Config!Reset(v) \/ Config!DeployFails(v) => UNCHANGED <<slot, owner, panel, launched, running, stripped>>
  BY DEF Config!Reset, Config!DeployFails, Config!portVars, Config!workerVars
<1>7. (\E m \in Mask, b \in Config!BlocksOf(v) : Config!SetCoremask(v, b, m))
        => UNCHANGED <<slot, owner, panel, launched, running, stripped>>
  BY DEF Config!SetCoremask, Config!portVars, Config!workerVars
<1> QED
  BY <1>2, <1>3, <1>4, <1>5, <1>6, <1>7 DEF Operation

LEMMA RegistryManned ==
  ASSUME RegistryInv, NEW v \in Live(vnfs), Manned(v), Typed, phase \in Freeing => phase' \in Freeing,
         UNCHANGED <<vnfs, ports, ppps, freed>>
  PROVE  RegistryInv' /\ \A u \in Vnf : Lost(u)' => Lost(u)
<1>1. v \in Vnf
  BY LiveTyped DEF RegistryInv, NfviTypeOK
<1>2. NfviTypeOK'
  BY DEF RegistryInv, NfviTypeOK, Manned, Typed
<1>3. \A u \in Vnf : Lost(u)' => Lost(u) /\ (u \in stripped => u \in stripped')
  BY <1>1 DEF Manned, Lost
<1>4. LostIsStripped'
  BY <1>3 DEF RegistryInv, LostIsStripped
<1>5. Registered'
  BY <1>1 DEF RegistryInv, Registered, Manned
<1>6. Once(vnfs)' /\ Once(ports)' /\ Owners' /\ Alive'
  BY DEF RegistryInv, Once, Owners, Alive, Manned
<1> QED
  BY <1>2, <1>3, <1>4, <1>5, <1>6 DEF RegistryInv

(* What the handlers that configure VNFs do to the rest. *)
Configured ==
  /\ \A u \in Vnf : Lost(u)' => Lost(u) \/ tpc = "idle" \/ u \in during'
  /\ \A u \in Vnf, y \in Slots : slot[u][y] # NoPort => slot'[u][y] # NoPort \/ tpc = "idle" \/ u \in during'
  /\ during \subseteq during' /\ panel' = panel

LEMMA RegistryConfigure ==
  ASSUME RegistryInv, Configure
  PROVE  RegistryInv' /\ Configured
<1>1. /\ UNCHANGED <<mainVars, registryVars, tpc, n_vnf, ti, tvnf, tpid, misuse, pastVars>>
      /\ phase = "serving"
  BY DEF Configure, Serving
<1>2. Config!Slot = Slots
  BY DEF Config!Slot, Slots
<1>3. CASE Attach /\ UNCHANGED during
  <2>1. PICK v \in Live(vnfs), x \in Slots, p \in Live(ports) : Config!AttachPort(v, x, p)
    BY <1>2, <1>3 DEF Attach
  <2>2. RegistryInv' /\ \A u \in Vnf, y \in Slots : slot[u][y] # NoPort => slot'[u][y] # NoPort
    BY <1>1, <2>1, RegistryAttach
  <2>3. UNCHANGED <<launched, panel>>
    BY <2>1 DEF Config!AttachPort, Config!workerVars
  <2> QED
    BY <1>3, <2>2, <2>3 DEF Configured, Lost
<1>4. CASE Operate /\ UNCHANGED during
  <2>1. PICK v \in Live(vnfs) : Operation(v)
    BY <1>4 DEF Operate, Operation
  <2>2. v \in Vnf
    BY LiveTyped DEF RegistryInv, NfviTypeOK
  <2>3. Manned(v)
    BY <2>1, <2>2, OperationMoves
  <2>4. Typed /\ UNCHANGED <<phase, vnfs, ports, ppps, freed>>
    BY <1>1 DEF mainVars, registryVars, Typed, RegistryInv, NfviTypeOK
  <2>5. RegistryInv' /\ \A u \in Vnf : Lost(u)' => Lost(u)
    BY <2>3, <2>4, RegistryManned
  <2> QED
    BY <1>4, <2>3, <2>5 DEF Configured, Manned
<1>5. CASE Dettach
  <2>1. PICK v \in Live(vnfs), x \in Slots : Config!DettachPort(v, x) /\ Taken(v)
    BY <1>2, <1>5 DEF Dettach
  <2>2. /\ RegistryInv' /\ v \in Vnf /\ UNCHANGED <<panel, launched, running>>
        /\ \A u \in Vnf \ {v}, y \in Slots : slot'[u][y] = slot[u][y]
    BY <1>1, <2>1, RegistryDettach
  <2>3. during \subseteq during' /\ (tpc = "idle" \/ v \in during')
    BY <2>1 DEF Taken
  <2> QED
    BY <2>2, <2>3 DEF Configured, Lost
<1> QED
  BY <1>3, <1>4, <1>5 DEF Configure

LEMMA RegistryUndeployAll ==
  ASSUME RegistryInv, UndeployAll
  PROVE  /\ RegistryInv' /\ \A u \in Vnf : Lost(u)' => Lost(u)
         /\ vi + 1 \in 1 .. Len(vnfs)
         /\ LET v == vnfs[vi + 1] IN
              /\ launched'[v] # {} => v \in passed'
              /\ \A u \in Vnf \ {v} : launched'[u] = launched[u]
         /\ UNCHANGED <<slot, panel>>
<1> DEFINE v == vnfs[vi + 1]
<1>1. /\ vi' = vi + 1 /\ vi < Len(vnfs) /\ phase = "undeploying"
      /\ UNCHANGED <<phase, armed, vnfs, ports, ppps, freed, n_vnf, ti, tpid>>
  BY DEF UndeployAll, registryVars, timerVars
<1>2. vi + 1 \in 1 .. Len(vnfs) /\ v \in Vnf /\ v \in Live(vnfs)
  BY <1>1, LiveIs DEF RegistryInv, NfviTypeOK
<1>3. \/ Config!Undeploy(v) /\ Operation(v)
      \/ passed' = passed \cup ({v} \cap Polled) /\ UNCHANGED configVars
  BY DEF UndeployAll, Operation
<1> HIDE DEF v
<1>4. Manned(v)
  <2>1. CASE Operation(v)
    BY <1>2, <2>1, OperationMoves
  <2>2. CASE UNCHANGED configVars
    BY <2>2 DEF Manned, configVars, RegistryInv, NfviTypeOK
  <2> QED
    BY <1>3, <2>1, <2>2
<1>5. Typed
  BY <1>1 DEF Typed, RegistryInv, NfviTypeOK
<1>6. RegistryInv' /\ \A u \in Vnf : Lost(u)' => Lost(u)
  BY <1>1, <1>2, <1>4, <1>5, RegistryManned
<1>7. launched'[v] # {} => v \in passed'
  <2>1. Config!Undeploy(v) => launched'[v] = {}
    BY <1>2 DEF Config!Undeploy, Config!Stop, RegistryInv, NfviTypeOK
  <2>2. UNCHANGED configVars => launched' = launched
    BY DEF configVars
  <2> QED
    BY <1>2, <1>3, <2>1, <2>2 DEF Polled
<1> QED
  BY <1>2, <1>4, <1>6, <1>7 DEF Manned, v

LEMMA RegistryFree ==
  ASSUME RegistryInv, Free
  PROVE  RegistryInv' /\ phase' \in Freeing
<1>1. /\ phase' \in Freeing /\ freed' \in {freed, freed \cup Live(vnfs), freed \cup Live(ports)}
      /\ UNCHANGED <<armed, slot, owner, panel, launched, running, stripped, vnfs, ports, ppps, n_vnf, ti, tpid, vi>>
  BY DEF Free, Freeing, onlyPhase, configVars, timerVars
<1>2. Live(vnfs) \subseteq Vnf /\ Live(ports) \subseteq Port
  BY LiveTyped DEF RegistryInv, NfviTypeOK
<1>3. NfviTypeOK'
  BY <1>1, <1>2 DEF RegistryInv, NfviTypeOK
<1>4. Once(vnfs)' /\ Once(ports)' /\ Owners' /\ LostIsStripped' /\ Alive'
  BY <1>1 DEF RegistryInv, Once, Owners, LostIsStripped, Lost, Alive
<1>5. Registered'
  BY <1>1 DEF RegistryInv, Registered
<1> QED
  BY <1>1, <1>3, <1>4, <1>5 DEF RegistryInv

LEMMA RegistryWorkers ==
  ASSUME RegistryInv, Workers
  PROVE  /\ RegistryInv'
         /\ UNCHANGED <<mainVars, registryVars, timerVars, pastVars, slot, owner, panel, launched, stripped>>
         /\ misuse' = misuse \/ WorkersGo
<1>1. /\ UNCHANGED <<mainVars, registryVars, timerVars, pastVars, slot, owner, panel, launched, stripped>>
      /\ misuse' = misuse \/ WorkersGo
  BY DEF Workers, WorkersStart, WorkersFault, WorkersGo, Config!WorkersStart, Config!WorkersFault,
         Config!portVars, Config!workerVars, configVars
<1>2. running' \in [Vnf -> SUBSET Slots] /\ \A v \in Vnf : running'[v] \subseteq launched[v]
  <2>1. CASE running' = running
    BY <2>1 DEF RegistryInv, NfviTypeOK
  <2>2. CASE WorkersStart
    <3>1. PICK v \in Vnf, b \in Slots :
            b \in launched[v] /\ running' = [running EXCEPT ![v] = running[v] \cup {b}]
      BY <2>2 DEF WorkersStart, Config!WorkersStart, Config!BlocksOf, Slots
    <3> QED
      BY <3>1 DEF RegistryInv, NfviTypeOK
  <2> QED
    BY <2>1, <2>2 DEF Workers, WorkersFault, WorkersGo, Config!WorkersFault, Config!workerVars, configVars
<1>3. UNCHANGED <<armed, phase, vi, vnfs, ports, ppps, freed, n_vnf, ti, tpid>>
  BY <1>1 DEF mainVars, registryVars, timerVars
<1>4. NfviTypeOK'
  BY <1>1, <1>2, <1>3 DEF RegistryInv, NfviTypeOK
<1>5. Once(vnfs)' /\ Once(ports)' /\ Owners' /\ LostIsStripped' /\ Registered' /\ Alive'
  BY <1>1, <1>3 DEF RegistryInv, Once, Owners, LostIsStripped, Lost, Registered, Alive
<1> QED
  BY <1>1, <1>4, <1>5 DEF RegistryInv

(* The steps that leave the registry alone. *)
Aside ==
  \/ \E v \in Vnf : L3fwdExits(v) \/ AclAllocFails(v)
  \/ Timer \/ PollThreadStarts \/ AddTimer \/ RegisterVnf \/ Run \/ Stop \/ Returns \/ DelTimer
  \/ UNCHANGED vars

LEMMA RegistryAside ==
  ASSUME RegistryInv, Aside
  PROVE  RegistryInv' /\ UNCHANGED <<configVars, registryVars, vi>>
<1>1. NextVnf => ti' = ti + 1
  BY DEF NextVnf
<1>2. /\ UNCHANGED <<configVars, registryVars, vi>>
      /\ armed' = armed \/ armed' = TRUE \/ armed' = FALSE
      /\ n_vnf' \in {n_vnf, Len(vnfs), 0} /\ ti' \in {ti, ti + 1, 1}
      /\ tpid' = tpid \/ tpid' = 0 \/ tpid' \in Config!Slot
  BY <1>1 DEF Aside, L3fwdExits, AclAllocFails, Timer, TimerFires, TimerPicks, TimerAsks, TimerUpdates,
         TimerReturns, PollThreadStarts, AddTimer, RegisterVnf, Run, Stop, Returns, DelTimer,
         OnlyTimer, mainVars, onlyPhase, timerVars, vars
<1>3. Typed
  <2>1. armed' \in BOOLEAN
    BY <1>2 DEF RegistryInv, NfviTypeOK
  <2>2. n_vnf' \in Nat /\ ti' \in Nat \ {0} /\ tpid' \in Slots /\ vi' \in Nat
    BY <1>2 DEF RegistryInv, NfviTypeOK, Config!Slot, Slots
  <2> QED
    BY <2>1, <2>2 DEF Typed
<1>4. phase \in Freeing => phase' \in Freeing
  BY DEF Aside, L3fwdExits, AclAllocFails, Alloc, Serving, Timer, TimerFires, TimerPicks, TimerAsks,
         TimerUpdates, TimerReturns, PollThreadStarts, AddTimer, RegisterVnf, Run, Stop, Returns,
         DelTimer, OnlyTimer, mainVars, onlyPhase, vars, Freeing
<1> QED
  BY <1>2, <1>3, <1>4, RegistrySame DEF configVars, registryVars

Pushes(v) == VnfAlloc(v) \/ L3fwdAlloc(v) \/ AclAlloc(v)

LEMMA PushesAre ==
  ASSUME NEW v, Pushes(v)
  PROVE  Alloc(v) /\ Pushed(v)
BY DEF Pushes, VnfAlloc, L3fwdAlloc, AclAlloc, AskedForAcl

(* The steps of Next, sorted. *)
LEMMA Steps ==
  ASSUME [Next]_vars
  PROVE  \/ \E v \in Vnf : Pushes(v) \/ DelVnf(v)
         \/ \E p \in Port : AppendPort(p) \/ DelPort(p)
         \/ \E n \in Panel : DelPpp(n) \/ \E r, l \in Virt : PppAlloc(n, r, l)
         \/ Configure \/ UndeployAll \/ Free \/ Workers \/ Aside
BY DEF Next, Rest, Main, Aside, Pushes

LEMMA RegistryStep ==
  ASSUME RegistryInv, [Next]_vars
  PROVE  RegistryInv'
<1>1. ASSUME NEW v \in Vnf, Pushes(v) \/ DelVnf(v)
      PROVE  RegistryInv'
  BY <1>1, PushesAre, RegistryPushed, RegistryDelVnf
<1>2. ASSUME NEW p \in Port, AppendPort(p) \/ DelPort(p)
      PROVE  RegistryInv'
  BY <1>2, RegistryAppendPort, RegistryDelPort
<1>3. ASSUME NEW n \in Panel, DelPpp(n) \/ \E r, l \in Virt : PppAlloc(n, r, l)
      PROVE  RegistryInv'
  BY <1>3, PanelMoves
<1> QED
  BY <1>1, <1>2, <1>3, Steps, RegistryConfigure, RegistryUndeployAll, RegistryFree,
     RegistryWorkers, RegistryAside

-----------------------------------------------------------------------------
(* The timer callback. *)
Timed ==
  /\ tpc = "pick" => ti <= n_vnf
  /\ tpc # "idle" => /\ n_vnf <= Len(vnfs) \/ during \cap freed # {}
                     /\ \A v \in Vnf : Lost(v) => v \in during
  /\ tpc \in {"ask", "update"} => tvnf \in Vnf /\ (overtaken \/ tvnf \in during \/ tvnf \in Live(vnfs))
  /\ tpc = "update" => overtaken \/ tvnf \in during \/ \A x \in Slots : slot[tvnf][x] # NoPort
  /\ phase \in {"no timer"} \cup Freeing => ~armed /\ (tpc # "idle" => overtaken)
  /\ CallbackIsRobbed

(* What every other thread leaves to the callback. *)
TimedFrame ==
  /\ UNCHANGED <<tpc, n_vnf, ti, tvnf>> /\ during \subseteq during' /\ freed \subseteq freed'
  /\ overtaken => overtaken'
  /\ Len(vnfs) <= Len(vnfs') \/ tpc = "idle" \/ during' \cap freed' # {}
  /\ \A v \in Live(vnfs) : v \in Live(vnfs') \/ tpc = "idle" \/ v \in during'
  /\ \A v \in Vnf : Lost(v)' => Lost(v) \/ tpc = "idle" \/ v \in during'
  /\ \A v \in Vnf, x \in Slots : slot[v][x] # NoPort => slot'[v][x] # NoPort \/ tpc = "idle" \/ v \in during'
  /\ phase' \in {"no timer"} \cup Freeing => ~armed' /\ (tpc # "idle" => overtaken')
  /\ misuse' \in {misuse, "none", "panel", "context", "workers"}

LEMMA TimedKept ==
  ASSUME RegistryInv, RegistryInv', Timed, TimedFrame
  PROVE  Timed'
<1>1. /\ n_vnf \in Nat /\ Len(vnfs) \in Nat /\ Len(vnfs') \in Nat
  BY DEF RegistryInv, NfviTypeOK
<1>2. (tpc = "pick" => ti <= n_vnf)'
  BY DEF Timed, TimedFrame
<1>3. (tpc # "idle" => n_vnf <= Len(vnfs) \/ during \cap freed # {})'
  <2>1. tpc # "idle" => n_vnf <= Len(vnfs) \/ during \cap freed # {}
    BY DEF Timed
  <2>2. /\ UNCHANGED <<tpc, n_vnf>> /\ during \subseteq during' /\ freed \subseteq freed'
        /\ Len(vnfs) <= Len(vnfs') \/ tpc = "idle" \/ during' \cap freed' # {}
    BY DEF TimedFrame
  <2> QED
    BY <1>1, <2>1, <2>2
<1>4. (tpc # "idle" => \A v \in Vnf : Lost(v) => v \in during)'
  BY DEF Timed, TimedFrame
<1>5. (tpc \in {"ask", "update"} => tvnf \in Vnf /\ (overtaken \/ tvnf \in during \/ tvnf \in Live(vnfs)))'
  BY DEF Timed, TimedFrame
<1>6. (tpc = "update" => overtaken \/ tvnf \in during \/ \A x \in Slots : slot[tvnf][x] # NoPort)'
  BY DEF Timed, TimedFrame
<1>7. (phase \in {"no timer"} \cup Freeing => ~armed /\ (tpc # "idle" => overtaken))'
  BY DEF Timed, TimedFrame
<1>8. CallbackIsRobbed'
  BY DEF Timed, TimedFrame, CallbackIsRobbed
<1> QED
  BY <1>2, <1>3, <1>4, <1>5, <1>6, <1>7, <1>8 DEF Timed

LEMMA TimedCallback ==
  ASSUME RegistryInv, RegistryInv', Timed, Timer
  PROVE  Timed'
<1>1. /\ misuse = "none"
      /\ UNCHANGED <<phase, armed, vnfs, ports, freed, slot, launched, running, stripped, overtaken>>
      /\ \A v \in Vnf : Lost(v)' <=> Lost(v)
  BY DEF Timer, TimerFires, TimerPicks, TimerAsks, TimerUpdates, TimerReturns, Running, OnlyTimer,
         mainVars, configVars, registryVars, pastVars, Lost
<1>2. /\ n_vnf \in Nat /\ ti \in Nat \ {0} /\ vnfs \in Seq(Vnf) /\ Len(vnfs) \in Nat
      /\ tpid \in Slots /\ Live(vnfs) \subseteq Vnf
  BY LiveTyped DEF RegistryInv, NfviTypeOK
<1>3. CASE TimerFires
  <2>1. /\ tpc' = "pick" /\ n_vnf' = Len(vnfs) /\ ti' = 1 /\ during' = stripped /\ armed
        /\ UNCHANGED misuse
    BY <1>3 DEF TimerFires
  <2>2. 1 <= Len(vnfs)
    BY <1>2, <1>3 DEF TimerFires
  <2>3. (\A v \in Vnf : Lost(v) => v \in during)'
    BY <1>1, <2>1 DEF RegistryInv, LostIsStripped
  <2>4. CallbackIsRobbed'
    BY <1>1, <2>1 DEF CallbackIsRobbed
  <2>5. (n_vnf <= Len(vnfs) /\ ti <= n_vnf)'
    BY <1>1, <1>2, <2>1, <2>2
  <2>6. (phase \in {"no timer"} \cup Freeing => ~armed)'
    BY <1>1 DEF Timed
  <2> QED
    BY <1>1, <2>1, <2>3, <2>4, <2>5, <2>6 DEF Timed
<1>4. CASE TimerPicks
  <2>1. tpc = "pick" /\ UNCHANGED <<n_vnf, ti, during>>
    BY <1>4 DEF TimerPicks
  <2>2. CASE ti <= Len(vnfs)
    <3>1. tvnf' = vnfs[ti] /\ tpc' = "ask" /\ UNCHANGED misuse
      BY <1>4, <2>2 DEF TimerPicks
    <3>2. tvnf' \in Live(vnfs)
      BY <1>2, <2>2, <3>1, LiveIs
    <3> QED
      BY <1>1, <1>2, <2>1, <3>1, <3>2 DEF Timed, CallbackIsRobbed
  <2>3. CASE ti > Len(vnfs)
    <3>1. misuse' = "walk" /\ UNCHANGED <<tvnf, tpc>>
      BY <1>2, <1>4, <2>3 DEF TimerPicks
    <3>2. during \cap freed # {}
      <4>1. ti <= n_vnf /\ (n_vnf <= Len(vnfs) \/ during \cap freed # {})
        BY <2>1 DEF Timed
      <4> QED
        BY <1>2, <2>3, <4>1
    <3> QED
      BY <1>1, <2>1, <3>1, <3>2 DEF Timed, CallbackIsRobbed
  <2> QED
    BY <1>2, <2>2, <2>3
<1>5. ASSUME NextVnf, UNCHANGED <<n_vnf, during>>, tpc # "idle"
      PROVE  /\ tpc' \in {"pick", "return"} /\ (tpc' = "pick" => ti' <= n_vnf')
             /\ (CallbackIsRobbed' => Timed')
  <2>1. tpc' \in {"pick", "return"} /\ (tpc' = "pick" => ti' <= n_vnf')
    BY <1>2, <1>5 DEF NextVnf
  <2> QED
    BY <1>1, <1>5, <2>1 DEF Timed
<1>6. tpc \in {"ask", "update"} /\ tvnf \in freed => overtaken \/ tvnf \in during
  <2>1. phase \notin Freeing => Live(vnfs) \cap freed = {}
    BY DEF RegistryInv, Alive
  <2> QED
    BY <2>1 DEF Timed
<1>7. CASE TimerAsks
  <2>1. tpc = "ask" /\ UNCHANGED <<n_vnf, tvnf, during>> /\ Misuse("callback", tvnf \in freed)
    BY <1>7 DEF TimerAsks
  <2>2. CallbackIsRobbed'
    BY <1>1, <1>6, <2>1 DEF CallbackIsRobbed, Misuse
  <2>3. CASE Config!VnfRunning(tvnf)
    <3>1. tpc' = "update" /\ UNCHANGED ti
      BY <1>7, <2>3 DEF TimerAsks
    <3>2. tvnf \in Vnf
      BY <2>1 DEF Timed
    <3>3. launched[tvnf] # {}
      BY <2>3, <3>2 DEF Config!VnfRunning, Config!BlocksOf, RegistryInv, NfviTypeOK
    <3>4. tvnf \in during \/ \A x \in Slots : slot[tvnf][x] # NoPort
      BY <2>1, <3>2, <3>3 DEF Timed, Lost
    <3> QED
      BY <1>1, <2>1, <2>2, <3>1, <3>4 DEF Timed
  <2>4. CASE ~Config!VnfRunning(tvnf)
    <3>1. NextVnf
      BY <1>7, <2>4 DEF TimerAsks
    <3> QED
      BY <1>5, <2>1, <2>2, <3>1
  <2> QED
    BY <2>3, <2>4
<1>8. CASE TimerUpdates
  <2>1. /\ tpc = "update" /\ UNCHANGED <<n_vnf, tvnf, during>>
        /\ Misuse("callback", tvnf \in freed \/ slot[tvnf][tpid] \in freed \cup {NoPort})
        /\ UNCHANGED <<tpc, ti>> \/ NextVnf
    BY <1>8 DEF TimerUpdates
  <2>2. slot[tvnf][tpid] \in freed \cup {NoPort} => overtaken \/ tvnf \in during
    <3>1. phase \notin Freeing => Live(ports) \cap freed = {}
      BY DEF RegistryInv, Alive
    <3>2. tvnf \in Live(vnfs) => slot[tvnf][tpid] \in Live(ports) \cup {NoPort}
      BY <1>2 DEF RegistryInv, Registered
    <3> QED
      BY <1>2, <2>1, <3>1, <3>2 DEF Timed
  <2>3. CallbackIsRobbed'
    BY <1>1, <1>6, <2>1, <2>2 DEF CallbackIsRobbed, Misuse
  <2>4. CASE UNCHANGED <<tpc, ti>>
    BY <1>1, <2>1, <2>3, <2>4 DEF Timed
  <2> QED
    BY <1>5, <2>1, <2>3, <2>4
<1>9. CASE TimerReturns
  <2>1. tpc' = "idle" /\ Misuse("callback", overtaken)
    BY <1>9 DEF TimerReturns
  <2> QED
    BY <1>1, <2>1 DEF Timed, CallbackIsRobbed, Misuse
<1> QED
  BY <1>3, <1>4, <1>7, <1>8, <1>9 DEF Timer

LEMMA TimedStep ==
  ASSUME RegistryInv, RegistryInv', Timed, [Next]_vars
  PROVE  Timed'
<1> USE DEF Freeing
<1>0. vnfs \in Seq(Vnf) /\ Len(vnfs) \in Nat /\ Live(vnfs) \subseteq Vnf
  BY LiveTyped DEF RegistryInv, NfviTypeOK
<1>1. ASSUME NEW v \in Vnf, Pushes(v)
      PROVE  Timed'
  <2>1. /\ UNCHANGED <<tpc, n_vnf, ti, tvnf, during, freed, overtaken, phase, armed, slot, launched>>
        /\ phase = "serving" /\ misuse = "none" /\ misuse' \in {"none", "context"}
    BY <1>1 DEF Pushes, VnfAlloc, L3fwdAlloc, AclAlloc, AskedForAcl, Misuse, Alloc, Serving, Running,
                Pushed, timerVars, configVars
  <2>2. Live(vnfs') = Live(vnfs) \cup {v} /\ Len(vnfs') = Len(vnfs) + 1
    BY <1>1, PushesAre, RegistryPushed
  <2> QED
    BY <1>0, <2>1, <2>2, TimedKept DEF TimedFrame, Lost
<1>2. ASSUME NEW v \in Vnf, DelVnf(v)
      PROVE  Timed'
  <2>1. /\ UNCHANGED <<tpc, n_vnf, ti, tvnf, overtaken, phase, armed, slot, launched, misuse>>
        /\ phase = "serving" /\ misuse = "none" /\ Taken(v) /\ freed' = freed \cup {v}
    BY <1>2 DEF DelVnf, Serving, Running, configVars, pastVars
  <2>2. Live(vnfs') = Live(vnfs) \ {v}
    BY <1>2, RegistryDelVnf
  <2>3. during \subseteq during' /\ (tpc = "idle" \/ v \in during')
    BY <2>1 DEF Taken
  <2> QED
    BY <2>1, <2>2, <2>3, TimedKept DEF TimedFrame, Lost
<1>3. ASSUME NEW p \in Port, AppendPort(p) \/ DelPort(p)
      PROVE  Timed'
  <2>1. /\ UNCHANGED <<tpc, n_vnf, ti, tvnf, during, vnfs, overtaken, phase, armed, slot, launched, misuse>>
        /\ freed \subseteq freed' /\ phase = "serving" /\ misuse = "none"
    BY <1>3 DEF AppendPort, DelPort, Serving, Running, mainVars, configVars, timerVars, pastVars
  <2> QED
    BY <1>0, <2>1, TimedKept DEF TimedFrame, Lost
<1>4. ASSUME NEW n \in Panel, DelPpp(n) \/ \E r, l \in Virt : PppAlloc(n, r, l)
      PROVE  Timed'
  <2>1. UNCHANGED <<mainVars, slot, launched, vnfs, freed, timerVars, pastVars>>
    BY <1>4, PanelMoves
  <2>2. phase = "serving" /\ misuse = "none" /\ misuse' \in {"none", "panel"}
    BY <1>4 DEF DelPpp, PppAlloc, Serving, Running, Misuse
  <2> QED
    BY <1>0, <2>1, <2>2, TimedKept DEF TimedFrame, Lost, mainVars, timerVars, pastVars
<1>5. CASE Configure
  <2>1. UNCHANGED <<mainVars, registryVars, tpc, n_vnf, ti, tvnf, misuse, pastVars>> /\ phase = "serving"
        /\ misuse = "none"
    BY <1>5 DEF Configure, Serving, Running
  <2>2. Configured
    BY <1>5, RegistryConfigure
  <2> QED
    BY <1>0, <2>1, <2>2, TimedKept DEF TimedFrame, Configured, mainVars, registryVars, pastVars
<1>6. CASE UndeployAll
  <2>1. UNCHANGED <<phase, armed, registryVars, timerVars, misuse, overtaken>> /\ phase = "undeploying"
        /\ misuse = "none"
    BY <1>6 DEF UndeployAll, Running
  <2>2. UNCHANGED slot /\ \A u \in Vnf : Lost(u)' => Lost(u)
    BY <1>6, RegistryUndeployAll
  <2> QED
    BY <1>0, <2>1, <2>2, TimedKept DEF TimedFrame, registryVars, timerVars
<1>7. CASE Free
  <2>1. /\ UNCHANGED <<armed, vnfs, slot, launched, tpc, n_vnf, ti, tvnf, during, overtaken>>
        /\ freed \subseteq freed' /\ phase \in {"no timer"} \cup Freeing
        /\ misuse = "none" /\ misuse' \in {"none", "panel"}
    BY <1>7 DEF Free, Running, Misuse, onlyPhase, configVars, timerVars, pastVars
  <2>2. ~armed' /\ (tpc # "idle" => overtaken') /\ (overtaken => overtaken')
    BY <2>1 DEF Timed
  <2>5. UNCHANGED <<vnfs, slot, launched, tpc, n_vnf, ti, tvnf, during>>
    BY <2>1
  <2>3. Len(vnfs) <= Len(vnfs') /\ UNCHANGED <<vnfs, slot, launched, tpc, n_vnf, ti, tvnf, during>>
    BY <1>0, <2>5
  <2>4. TimedFrame
    BY <2>1, <2>2, <2>3 DEF TimedFrame, Lost
  <2> QED
    BY <2>4, TimedKept
<1>8. CASE Workers
  <2>1. /\ UNCHANGED <<mainVars, registryVars, timerVars, pastVars, slot, launched>>
        /\ misuse' \in {misuse, "workers", "context"}
    BY <1>8, RegistryWorkers DEF WorkersGo
  <2>2. /\ phase' \in {"no timer"} \cup Freeing => ~armed' /\ (tpc # "idle" => overtaken')
        /\ overtaken => overtaken'
    BY <2>1 DEF Timed, mainVars, pastVars
  <2>3. /\ Len(vnfs) <= Len(vnfs')
        /\ UNCHANGED <<vnfs, freed, slot, launched, tpc, n_vnf, ti, tvnf, during>>
    BY <1>0, <2>1 DEF registryVars, timerVars
  <2>4. TimedFrame
    BY <2>1, <2>2, <2>3 DEF TimedFrame, Lost
  <2> QED
    BY <2>4, TimedKept
<1>9. CASE Aside
  <2>1. /\ UNCHANGED <<vnfs, freed, slot, launched>>
    BY <1>9, RegistryAside DEF configVars, registryVars
  <2>2. CASE Timer
    BY <2>2, TimedCallback
  <2>3. CASE DelTimer
    <3>1. /\ UNCHANGED timerVars /\ ~armed' /\ misuse = "none" /\ misuse' = "none"
          /\ (tpc # "idle" => overtaken')
          /\ phase = "destructor"
      BY <2>3 DEF DelTimer, Running
    <3> QED
      BY <2>1, <3>1 DEF Timed, CallbackIsRobbed, timerVars, Lost
  <2>4. CASE ~Timer /\ ~DelTimer
    <3>1. /\ UNCHANGED <<tpc, n_vnf, ti, tvnf, during, overtaken>>
          /\ misuse' \in {"none", "context"} \/ misuse' = misuse
          /\ phase' \notin {"no timer"} \cup Freeing \/ UNCHANGED vars
      BY <1>9, <2>4 DEF Aside, L3fwdExits, AclAllocFails, AskedForAcl, Misuse, Alloc, Serving, PollThreadStarts,
             AddTimer, RegisterVnf, Run, Stop, Returns, timerVars, pastVars, mainVars, vars
    <3>2. /\ phase' \in {"no timer"} \cup Freeing => ~armed' /\ (tpc # "idle" => overtaken')
          /\ overtaken => overtaken'
      <4>1. CASE UNCHANGED vars
        BY <3>1, <4>1 DEF Timed, vars, mainVars
      <4>2. CASE phase' \notin {"no timer"} \cup Freeing
        BY <3>1, <4>2
      <4> QED
        BY <3>1, <4>1, <4>2
    <3>6. UNCHANGED <<vnfs, freed, slot, launched, tpc, n_vnf, ti, tvnf, during>>
      BY <2>1, <3>1
    <3>3. /\ Len(vnfs) <= Len(vnfs')
          /\ UNCHANGED <<vnfs, freed, slot, launched, tpc, n_vnf, ti, tvnf, during>>
      BY <1>0, <3>6
    <3>4. misuse' \in {misuse, "none", "context"}
      BY <3>1
    <3>5. TimedFrame
      BY <3>2, <3>3, <3>4 DEF TimedFrame, Lost
    <3> QED
      BY <3>5, TimedKept
  <2> QED
    BY <2>2, <2>3, <2>4
<1> QED
  BY <1>1, <1>2, <1>3, <1>4, <1>5, <1>6, <1>7, <1>8, <1>9, Steps

-----------------------------------------------------------------------------
(* The panels. *)
PanelsInv ==
  /\ ~orphaned /\ phase \notin Freeing => \A n \in Panel : panel[n] \subseteq Live(ports)
  /\ PanelIsOrphaned

LEMMA PanelsKept ==
  ASSUME PanelsInv, UNCHANGED <<panel, ppps>>, Live(ports) \subseteq Live(ports'), orphaned => orphaned',
         phase \in Freeing => phase' \in Freeing, phase = "no ppps" => phase' = "no ppps",
         misuse' \in {"none", "walk", "callback", "context", "workers"} \/ misuse' = misuse
  PROVE  PanelsInv'
BY DEF PanelsInv, PanelIsOrphaned

LEMMA PanelsStep ==
  ASSUME RegistryInv, PanelsInv, [Next]_vars
  PROVE  PanelsInv'
<1>1. ASSUME NEW v \in Vnf, Pushes(v) \/ DelVnf(v)
      PROVE  PanelsInv'
  <2>1. UNCHANGED <<panel, ppps, ports, orphaned, phase>> /\ misuse' \in {"none", "context"} \cup {misuse}
    BY <1>1 DEF Pushes, VnfAlloc, L3fwdAlloc, AclAlloc, AskedForAcl, Misuse, Pushed, DelVnf, configVars, pastVars
  <2> QED
    BY <2>1, PanelsKept
<1>2. ASSUME NEW p \in Port, AppendPort(p)
      PROVE  PanelsInv'
  <2>1. UNCHANGED <<panel, ppps, orphaned, phase, misuse>>
    BY <1>2 DEF AppendPort, mainVars, configVars, pastVars
  <2> QED
    BY <1>2, <2>1, RegistryAppendPort, PanelsKept
<1>3. ASSUME NEW p \in Port, DelPort(p)
      PROVE  PanelsInv'
  <2>1. /\ UNCHANGED <<panel, ppps, phase, misuse>> /\ misuse = "none"
        /\ orphaned' = (orphaned \/ Config!Patched(p))
    BY <1>3 DEF DelPort, Serving, Running, mainVars, configVars
  <2>2. Live(ports') = Live(ports) \ {p}
    BY <1>3, RegistryDelPort
  <2> QED
    BY <2>1, <2>2 DEF PanelsInv, PanelIsOrphaned, Config!Patched
<1>4. ASSUME NEW n \in Panel, DelPpp(n) \/ \E r, l \in Virt : PppAlloc(n, r, l)
      PROVE  PanelsInv'
  <2>1. phase = "serving" /\ misuse = "none"
    BY <1>4 DEF DelPpp, PppAlloc, Serving, Running
  <2>2. UNCHANGED <<phase, ports, freed, orphaned>>
    BY <1>4, PanelMoves DEF mainVars, pastVars
  <2>3. \/ \E r, l \in Virt : panel' = [panel EXCEPT ![n] = {r, l}] /\ {r, l} \subseteq Live(ports)
                                /\ misuse' = misuse
        \/ panel' = [panel EXCEPT ![n] = {}] /\ Misuse("panel", panel[n] \cap freed # {})
    <3>1. ASSUME NEW r \in Virt, NEW l \in Virt, PppAlloc(n, r, l)
          PROVE  /\ panel' = [panel EXCEPT ![n] = {r, l}] /\ {r, l} \subseteq Live(ports)
                 /\ misuse' = misuse
      BY <3>1, PanelMoves
    <3>2. DelPpp(n) => panel' = [panel EXCEPT ![n] = {}] /\ Misuse("panel", panel[n] \cap freed # {})
      BY PanelMoves
    <3> QED
      BY <1>4, <3>1, <3>2
  <2>4. panel \in [Panel -> SUBSET Virt]
    BY DEF RegistryInv, NfviTypeOK
  <2>5. (~orphaned => \A m \in Panel : panel[m] \subseteq Live(ports))'
    BY <2>1, <2>2, <2>3, <2>4 DEF PanelsInv, Freeing
  <2>6. misuse' = "panel" => orphaned
    BY <2>1, <2>3 DEF PanelsInv, Misuse, Freeing, RegistryInv, Alive
  <2> QED
    BY <2>2, <2>5, <2>6 DEF PanelsInv, PanelIsOrphaned
<1>5. CASE Configure \/ UndeployAll
  <2>1. UNCHANGED <<ppps, ports, orphaned, phase, misuse>>
    BY <1>5 DEF Configure, UndeployAll, mainVars, registryVars, pastVars
  <2>2. panel' = panel
    BY <1>5, RegistryConfigure, RegistryUndeployAll DEF Configured
  <2> QED
    BY <2>1, <2>2, PanelsKept
<1>6. CASE Free
  <2>1. UNCHANGED <<panel, ports, ppps, orphaned>> /\ misuse = "none" /\ phase' \in Freeing
    BY <1>6 DEF Free, Running, Freeing, onlyPhase, configVars, pastVars
  <2>2. misuse' = "panel" => phase' = "no ppps" /\ ppps # <<>>
    <3>1. ppps = <<>> => Live(ppps) = {}
      BY DEF Live, ToSet
    <3> QED
      BY <1>6, <2>1, <3>1 DEF Free, Misuse
  <2> QED
    BY <2>1, <2>2 DEF PanelsInv, PanelIsOrphaned
<1>7. CASE Workers
  <2>1. /\ UNCHANGED <<panel, ports, ppps, orphaned, phase>>
        /\ misuse' = misuse \/ misuse' \in {"workers", "context"}
    BY <1>7, RegistryWorkers DEF WorkersGo, mainVars, registryVars, pastVars
  <2> QED
    BY <2>1, PanelsKept
<1>8. CASE Aside
  <2>1. UNCHANGED <<panel, ports, ppps>>
    BY <1>8, RegistryAside DEF configVars, registryVars
  <2>2. /\ UNCHANGED orphaned
        /\ misuse' = misuse \/ misuse' \in {"none", "walk", "callback", "context"}
        /\ phase \in Freeing => phase' = phase
    BY <1>8 DEF Aside, L3fwdExits, AclAllocFails, AskedForAcl, Misuse, Alloc, Serving, Timer, TimerFires,
           TimerPicks, TimerAsks, TimerUpdates, TimerReturns, PollThreadStarts, AddTimer, RegisterVnf,
           Run, Stop, Returns, DelTimer, OnlyTimer, mainVars, onlyPhase, pastVars, vars, Freeing
  <2> QED
    BY <2>1, <2>2, PanelsKept DEF Freeing
<1> QED
  BY <1>1, <1>2, <1>3, <1>4, <1>5, <1>6, <1>7, <1>8, Steps

-----------------------------------------------------------------------------
(* The acls. *)
Tables ==
  /\ \A u \in user : u \in Live(vnfs) /\ cname[u] = "acl"
  /\ stale # {} => beside
  /\ ContextIsShared

LEMMA TablesKept ==
  ASSUME Tables, UNCHANGED <<cname, user, stale>>, Live(vnfs) \subseteq Live(vnfs'), beside => beside',
         misuse' \in {misuse, "none", "walk", "callback", "panel", "workers"}
  PROVE  Tables'
BY DEF Tables, ContextIsShared

LEMMA TablesStep ==
  ASSUME RegistryInv, Tables, [Next]_vars
  PROVE  Tables'
<1>1. ASSUME NEW v \in Vnf, VnfAlloc(v) \/ L3fwdAlloc(v)
      PROVE  Tables'
  <2>1. UNCHANGED <<cname, user, stale, beside, misuse>>
    BY <1>1 DEF VnfAlloc, L3fwdAlloc, Pushed, LpmMade, tableVars
  <2>2. Live(vnfs) \subseteq Live(vnfs')
    BY <1>1, PushesAre, RegistryPushed DEF Pushes
  <2> QED
    BY <2>1, <2>2, TablesKept
<1>2. ASSUME NEW v \in Vnf, AskedForAcl(v)
      PROVE  /\ misuse' = "context" => beside'
             /\ user # {} => beside' 
             /\ (stale # {} => beside')
             /\ cname[v] = "acl"
  BY <1>2 DEF AskedForAcl, Misuse, Rebuilt, Tables
<1>3. ASSUME NEW v \in Vnf, AclAlloc(v)
      PROVE  Tables'
  <2>1. AskedForAcl(v) /\ user' = user \cup {v} /\ UNCHANGED <<cname, stale>>
    BY <1>3 DEF AclAlloc, AclBuilt, Acx, Pushed
  <2>2. Live(vnfs') = Live(vnfs) \cup {v}
    BY <1>3, PushesAre, RegistryPushed DEF Pushes
  <2> QED
    BY <1>2, <2>1, <2>2 DEF Tables, ContextIsShared
<1>4. ASSUME NEW v \in Vnf, AclAllocFails(v)
      PROVE  Tables'
  <2>1. AskedForAcl(v) /\ user' = {} /\ stale' = stale \cup user
    BY <1>4 DEF AclAllocFails, AclThrows
  <2> QED
    BY <1>2, <2>1 DEF Tables, ContextIsShared
<1>5. ASSUME NEW v \in Vnf, DelVnf(v)
      PROVE  Tables'
  <2>1. user' = user \ {v} /\ stale' \subseteq stale /\ UNCHANGED <<cname, beside, misuse>>
    BY <1>5 DEF DelVnf, Forget, pastVars
  <2>2. Live(vnfs') = Live(vnfs) \ {v}
    BY <1>5, RegistryDelVnf
  <2> QED
    BY <2>1, <2>2 DEF Tables, ContextIsShared
<1>6. ASSUME NEW p \in Port, AppendPort(p) \/ DelPort(p)
      PROVE  Tables'
  <2>1. UNCHANGED <<cname, user, stale, vnfs, beside, misuse>>
    BY <1>6 DEF AppendPort, DelPort, mainVars, tableVars, pastVars
  <2> QED
    BY <2>1, TablesKept
<1>7. ASSUME NEW n \in Panel, DelPpp(n) \/ \E r, l \in Virt : PppAlloc(n, r, l)
      PROVE  Tables'
  <2>1. UNCHANGED <<cname, user, stale, vnfs, beside>>
    BY <1>7, PanelMoves DEF mainVars, tableVars, pastVars
  <2>2. misuse' \in {misuse, "none", "panel"}
    BY <1>7 DEF DelPpp, PppAlloc, Misuse
  <2> QED
    BY <2>1, <2>2, TablesKept
<1>8. CASE Configure \/ UndeployAll \/ Free
  <2>1. UNCHANGED <<cname, user, stale, vnfs, beside>>
    BY <1>8 DEF Configure, UndeployAll, Free, mainVars, onlyPhase, tableVars, registryVars, pastVars
  <2>2. misuse' \in {misuse, "none", "panel"}
    BY <1>8 DEF Configure, UndeployAll, Free, Misuse
  <2> QED
    BY <2>1, <2>2, TablesKept
<1>9. CASE Workers
  <2>1. UNCHANGED <<cname, user, stale, vnfs, beside>> /\ (misuse' = misuse \/ WorkersGo)
    BY <1>9, RegistryWorkers DEF mainVars, tableVars, registryVars, pastVars
  <2>2. misuse' \in {misuse, "workers"} \/ (misuse' = "context" /\ stale # {})
    BY <2>1 DEF WorkersGo, Dangling
  <2> QED
    BY <2>1, <2>2, TablesKept DEF Tables, ContextIsShared
<1>10. CASE Aside /\ ~\E v \in Vnf : AclAllocFails(v)
  <2>1. vnfs' = vnfs
    BY <1>10, RegistryAside DEF registryVars
  <2>2. UNCHANGED <<cname, user, stale, beside>> /\ misuse' \in {misuse, "none", "walk", "callback"}
    BY <1>10 DEF Aside, L3fwdExits, LpmRefused, Misuse, Timer, TimerFires, TimerPicks, TimerAsks,
           TimerUpdates, TimerReturns, PollThreadStarts, AddTimer, RegisterVnf, Run, Stop, Returns,
           DelTimer, OnlyTimer, mainVars, onlyPhase, tableVars, pastVars, vars
  <2> QED
    BY <2>1, <2>2, TablesKept
<1> QED
  BY <1>1, <1>3, <1>4, <1>5, <1>6, <1>7, <1>8, <1>9, <1>10, Steps DEF Pushes

-----------------------------------------------------------------------------
(* The end of the program: the VNFs that run() has been through have no    *)
(* workers, or is_running() did not tell of them.                          *)
Ending == {"destructor", "no timer"} \cup Freeing

Ended ==
  /\ phase \in {"launched", "registering", "serving"} => vi = 0
  /\ phase = "undeploying" =>
       /\ vi <= Len(vnfs)
       /\ \A k \in 1 .. vi : launched[vnfs[k]] # {} => vnfs[k] \in passed
  /\ phase \in Ending => \A v \in Vnf : launched[v] # {} => v \in stripped \cup passed

LEMMA EndedServing ==
  ASSUME Ended, phase = "serving", phase' \in {"serving", "exited"}, vi' = vi
  PROVE  Ended'
BY DEF Ended, Ending, Freeing

LEMMA EndedUndeploys ==
  ASSUME RegistryInv, Ended, UndeployAll
  PROVE  Ended'
<1>1. /\ phase' = "undeploying" /\ phase = "undeploying" /\ vnfs' = vnfs /\ vi' = vi + 1
      /\ passed \subseteq passed'
  BY DEF UndeployAll, registryVars
<1>2. vnfs \in Seq(Vnf) /\ vi \in Nat /\ Len(vnfs) \in Nat
  BY DEF RegistryInv, NfviTypeOK
<1> DEFINE v == vnfs[vi + 1]
<1>3. /\ vi + 1 \in 1 .. Len(vnfs)
      /\ launched'[v] # {} => v \in passed'
      /\ \A u \in Vnf \ {v} : launched'[u] = launched[u]
  BY RegistryUndeployAll
<1> HIDE DEF v
<1>4. ASSUME NEW k \in 1 .. vi + 1, launched'[vnfs[k]] # {}
      PROVE  vnfs[k] \in passed'
  <2>1. CASE vnfs[k] = v
    BY <1>3, <1>4, <2>1
  <2>2. CASE vnfs[k] # v
    <3>1. k \in 1 .. vi
      BY <1>2, <2>2 DEF v
    <3>2. vnfs[k] \in Vnf
      BY <1>2, <1>3, <3>1
    <3> QED
      BY <1>1, <1>3, <1>4, <2>2, <3>1, <3>2 DEF Ended
  <2> QED
    BY <2>1, <2>2
<1>5. vi' <= Len(vnfs)
  BY <1>1, <1>2, <1>3
<1> QED
  BY <1>1, <1>4, <1>5 DEF Ended, Ending, Freeing

LEMMA EndedReturns ==
  ASSUME RegistryInv, Ended, Returns
  PROVE  Ended'
<1>1. /\ phase = "undeploying" /\ phase' = "destructor" /\ vi = Len(vnfs)
      /\ UNCHANGED <<launched, stripped, passed>>
  BY DEF Returns, configVars, pastVars
<1>2. ASSUME NEW v \in Vnf, launched[v] # {}
      PROVE  v \in stripped \cup passed
  <2>1. CASE v \in Live(vnfs)
    <3>1. PICK k \in 1 .. Len(vnfs) : vnfs[k] = v
      BY <2>1, LiveIs DEF RegistryInv, NfviTypeOK
    <3> QED
      BY <1>1, <1>2, <3>1 DEF Ended
  <2>2. CASE v \in freed
    <3>1. Lost(v)
      BY <1>1, <1>2, <2>2 DEF RegistryInv, Alive, Freeing, Lost, Slots
    <3> QED
      BY <3>1 DEF RegistryInv, LostIsStripped
  <2> QED
    BY <1>2, <2>1, <2>2 DEF RegistryInv, Registered
<1> QED
  BY <1>1, <1>2 DEF Ended

LEMMA EndedStep ==
  ASSUME RegistryInv, Ended, [Next]_vars
  PROVE  Ended'
<1>1. ASSUME NEW v \in Vnf, Pushes(v) \/ DelVnf(v)
      PROVE  Ended'
  <2>1. phase = "serving" /\ UNCHANGED <<phase, vi>>
    BY <1>1, PushesAre DEF Alloc, Pushed, DelVnf, Serving
  <2> QED
    BY <2>1, EndedServing
<1>2. ASSUME NEW p \in Port, AppendPort(p) \/ DelPort(p)
      PROVE  Ended'
  <2>1. phase = "serving" /\ UNCHANGED <<phase, vi>>
    BY <1>2 DEF AppendPort, DelPort, Serving, mainVars
  <2> QED
    BY <2>1, EndedServing
<1>3. ASSUME NEW n \in Panel, DelPpp(n) \/ \E r, l \in Virt : PppAlloc(n, r, l)
      PROVE  Ended'
  <2>1. phase = "serving" /\ UNCHANGED <<phase, vi>>
    BY <1>3 DEF DelPpp, PppAlloc, Serving, mainVars
  <2> QED
    BY <2>1, EndedServing
<1>4. CASE Configure
  <2>1. phase = "serving" /\ UNCHANGED <<phase, vi>>
    BY <1>4 DEF Configure, Serving, mainVars
  <2> QED
    BY <2>1, EndedServing
<1>5. CASE Free
  <2>1. phase \in Ending /\ phase' \in Ending /\ UNCHANGED <<launched, stripped, passed>>
    BY <1>5 DEF Free, Ending, Freeing, configVars, pastVars
  <2> QED
    BY <2>1 DEF Ended, Ending, Freeing
<1>6. CASE Workers
  <2>1. UNCHANGED <<phase, vi, vnfs, launched, stripped, passed>>
    BY <1>6, RegistryWorkers DEF mainVars, registryVars, pastVars
  <2> QED
    BY <2>1 DEF Ended
<1>7. CASE Aside /\ ~Returns
  <2>1. UNCHANGED <<vi, vnfs, launched, stripped>>
    BY <1>7, RegistryAside DEF configVars, registryVars
  <2>2. /\ passed' = passed
        /\ \/ phase' = phase
           \/ phase' \in {"exited", "failed"}
           \/ phase \in {"launched", "registering"} /\ phase' \in {"registering", "serving"}
           \/ phase = "serving" /\ phase' = "undeploying"
           \/ phase = "destructor" /\ phase' = "no timer"
    BY <1>7 DEF Aside, L3fwdExits, AclAllocFails, Timer, TimerFires, TimerPicks, TimerAsks,
           TimerUpdates, TimerReturns, PollThreadStarts, AddTimer, RegisterVnf, Run, Stop, DelTimer,
           Serving, OnlyTimer, mainVars, onlyPhase, pastVars, vars
  <2>3. CASE phase = "serving" /\ phase' = "undeploying"
    <3>1. vi = 0 /\ Len(vnfs) \in Nat
      BY <2>3 DEF Ended, RegistryInv, NfviTypeOK
    <3>2. vi' <= Len(vnfs') /\ \A k : k \notin 1 .. vi'
      BY <2>1, <3>1
    <3> QED
      BY <2>3, <3>2 DEF Ended, Ending, Freeing
  <2>4. CASE phase # "serving" \/ phase' # "undeploying"
    BY <2>1, <2>2, <2>4 DEF Ended, Ending, Freeing
  <2> QED
    BY <2>3, <2>4
<1> QED
  BY <1>1, <1>2, <1>3, <1>4, <1>5, <1>6, <1>7, EndedUndeploys, EndedReturns, Steps

-----------------------------------------------------------------------------
NfviInv == RegistryInv /\ Timed /\ PanelsInv /\ Tables /\ Ended

LEMMA NfviInit == Init => NfviInv
<1> SUFFICES ASSUME Init
             PROVE  NfviInv
  OBVIOUS
<1>1. /\ slot = [v \in Vnf |-> [x \in Slots |-> NoPort]] /\ owner = [p \in Port |-> NoVnf]
      /\ panel = [n \in Panel |-> {}] /\ launched = [v \in Vnf |-> {}]
      /\ running = [v \in Vnf |-> {}] /\ stripped = {}
  BY DEF Init, Config!Init, Config!Slot, Slots
<1>2. /\ vnfs = <<>> /\ ports = <<>> /\ ppps = <<>> /\ freed = {} /\ phase = "launched" /\ armed = FALSE
      /\ tpc = "idle" /\ n_vnf = 0 /\ ti = 1 /\ tpid = 0 /\ vi = 0 /\ misuse = "none"
      /\ user = {} /\ stale = {}
  BY DEF Init, NoTables
<1>3. Live(vnfs) = {} /\ Live(ports) = {}
  BY <1>2 DEF Live, ToSet
<1>4. NfviTypeOK
  <2>1. /\ slot \in [Vnf -> [Slots -> Port \cup {NoPort}]] /\ owner \in [Port -> Vnf \cup {NoVnf}]
        /\ panel \in [Panel -> SUBSET Virt]
        /\ launched \in [Vnf -> SUBSET Slots] /\ running \in [Vnf -> SUBSET Slots]
        /\ \A v \in Vnf : running[v] \subseteq launched[v] /\ launched[v] \subseteq Config!BlocksOf(v)
        /\ stripped \subseteq Vnf
    BY <1>1
  <2>2. /\ vnfs \in Seq(Vnf) /\ ports \in Seq(Port) /\ ppps \in Seq(Panel) /\ freed \subseteq Vnf \cup Port
        /\ n_vnf \in Nat /\ ti \in Nat \ {0} /\ tpid \in Slots /\ vi \in Nat
    BY <1>2 DEF Slots
  <2>3. armed \in BOOLEAN
    BY <1>2
  <2> QED
    BY <2>1, <2>2, <2>3 DEF NfviTypeOK
<1>5. Once(vnfs) /\ Once(ports) /\ LostIsStripped /\ Registered /\ Alive
  BY <1>1, <1>2, <1>3 DEF Once, LostIsStripped, Lost, Registered, Alive
<1>6. Owners
  BY <1>1 DEF Owners, Slots
<1>7. Timed /\ PanelsInv /\ Tables
  BY <1>1, <1>2 DEF Timed, CallbackIsRobbed, PanelsInv, PanelIsOrphaned, Tables, ContextIsShared, Freeing
<1>8. Ended
  BY <1>2 DEF Ended, Ending, Freeing
<1> QED
  BY <1>4, <1>5, <1>6, <1>7, <1>8 DEF NfviInv, RegistryInv

LEMMA NfviInvariant == Spec => []NfviInv
<1>1. NfviInv /\ [Next]_vars => NfviInv'
  BY RegistryStep, TimedStep, PanelsStep, TablesStep, EndedStep DEF NfviInv
<1> QED
  BY <1>1, NfviInit, PTL DEF Spec

LEMMA RegisteredIsLive ==
  ASSUME NfviInv
  PROVE  AttachmentsAreLive
<1>1. \A v \in Live(vnfs) : Config!PortsOf(v) \subseteq Live(ports) \cup {NoPort}
  BY DEF NfviInv, RegistryInv, Registered, Config!PortsOf, Config!Slot, Slots
<1>2. \A p \in Live(ports) : owner[p] \in Live(vnfs) \cup {NoVnf}
  BY LiveTyped DEF NfviInv, RegistryInv, NfviTypeOK, Registered
<1> QED
  BY <1>1, <1>2 DEF AttachmentsAreLive

LEMMA ForgottenWorkers ==
  ASSUME NfviInv
  PROVE  WorkersAreForgotten
<1> SUFFICES ASSUME NEW v \in Busy, v \in freed \/ Config!PortsOf(v) \cap freed # {}
             PROVE  v \in stripped \cup passed
  BY DEF WorkersAreForgotten
<1>1. v \in Vnf /\ launched[v] # {} /\ v \in Live(vnfs) \cup freed
  BY DEF Busy, NfviInv, RegistryInv, NfviTypeOK, Registered
<1>2. CASE phase \in Freeing
  BY <1>1, <1>2 DEF NfviInv, Ended, Ending
<1>3. CASE phase \notin Freeing /\ v \in freed
  <2>1. Lost(v)
    BY <1>1, <1>3 DEF NfviInv, RegistryInv, Alive, Lost, Slots
  <2> QED
    BY <1>1, <2>1 DEF NfviInv, RegistryInv, LostIsStripped
<1>4. CASE phase \notin Freeing /\ v \notin freed
  <2>1. PICK x \in Slots : slot[v][x] \in freed
    BY <1>4 DEF Config!PortsOf, Config!Slot, Slots
  <2>2. slot[v][x] \in Live(ports) \cup {NoPort}
    BY <1>1, <1>4 DEF NfviInv, RegistryInv, Registered
  <2>3. NoPort \notin freed
    BY NfviAssumption DEF NfviInv, RegistryInv, NfviTypeOK
  <2> QED
    BY <1>4, <2>1, <2>2, <2>3 DEF NfviInv, RegistryInv, Alive
<1> QED
  BY <1>2, <1>3, <1>4

(* Whatever the client does, whenever the program is stopped and however   *)
(* the callback and the workers run beside it, for any number of objects:  *)
(* the callback dereferences what is freed or null only when the           *)
(* destructor overtook it or the client took something from the VNF it     *)
(* looks at, a panel's destructor only when a port was deleted that it     *)
(* has, or at the very end; an acl loses its context only to another acl;  *)
(* workers lose their VNF or a port only when is_running() did not tell of *)
(* them.  And registered VNFs have registered ports, and the reverse.      *)
THEOREM MisuseAlwaysHasACause == Spec => []MisuseHasACause
<1>1. NfviInv => MisuseHasACause
  BY RegisteredIsLive, ForgottenWorkers
     DEF MisuseHasACause, NfviInv, Timed, PanelsInv, Tables
<1> QED
  BY <1>1, NfviInvariant, PTL
=============================================================================
