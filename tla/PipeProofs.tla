----------------------------- MODULE PipeProofs -----------------------------
(***************************************************************************)
(* Proofs about pipes, for any number of them, of queues and of packets    *)
(* and for counters of any width.                                          *)
(***************************************************************************)
EXTENDS Pipe, TLAPS

Stage == {"none", "rings", "failed", "whole", "up"}
Counts == [rx : Nat, tx : Nat, err : Nat]

(* The ring that a device has as the i-th of its rx rings and tx rings.    *)
PipeOf(d) == IF d \in Net THEN d ELSE Remote[d]
RxName(d, i) == IF d \in Net THEN <<"rx", i, d>> ELSE <<"tx", i, Remote[d]>>
TxName(d, i) == IF d \in Net THEN <<"tx", i, d>> ELSE <<"rx", i, Remote[d]>>

PipeTypeOK ==
  /\ made \subseteq Name
  /\ ring \in [Name -> Seq(Pkt)]
  /\ dev \in [Dev -> [rx : Seq(Name), tx : Seq(Name)]]
  /\ stage \in [Dev -> Stage]
  /\ cnt \in [Dev -> [Que -> Counts]]
  /\ held \in [Process -> SUBSET Pkt]
  /\ burst \in [Process -> {Nothing} \cup Dev \X Que \X Counts]

(* Only a device that is up moves packets, for the process that has it.    *)
BurstOK ==
  \A p \in Process : burst[p] # Nothing =>
    Owner(burst[p][1]) = p /\ stage[burst[p][1]] = "up"

(* A device's rings fill in turn, each with the ring it is named for.      *)
Filling(d) ==
  /\ Len(dev[d].rx) \in {Len(dev[d].tx), Len(dev[d].tx) + 1}
  /\ Len(dev[d].rx) <= NRing
  /\ \A i \in 1 .. Len(dev[d].rx) : dev[d].rx[i] = RxName(d, i - 1) /\ dev[d].rx[i] \in made
  /\ \A i \in 1 .. Len(dev[d].tx) : dev[d].tx[i] = TxName(d, i - 1) /\ dev[d].tx[i] \in made
  /\ stage[d] = "none" => dev[d] = NoRings
  /\ stage[d] \in {"whole", "up"} => Len(dev[d].tx) = NRing

Filled == \A d \in Dev : Filling(d)

RingsFit == \A r \in Name : Len(ring[r]) <= RingRoom

PipeInv == PipeTypeOK /\ BurstOK /\ Filled /\ RingsFit

-----------------------------------------------------------------------------
LEMMA ProbeKeeps ==
  ASSUME PipeInv, NEW d \in Dev, Probe(d)
  PROVE  PipeInv'
<1> USE DEF PipeInv
<1>1. PipeTypeOK'
  BY DEF Probe, PipeTypeOK, Stage
<1>2. BurstOK'
  BY DEF Probe, PipeTypeOK, BurstOK
<1>3. Filled'
  BY DEF Probe, PipeTypeOK, Filled, Filling, Stage, RxName, TxName, NoRings
<1> QED
  BY <1>1, <1>2, <1>3 DEF Probe, RingsFit

LEMMA RingAdded ==
  ASSUME PipeInv, NEW d \in Dev, stage[d] = "rings", ~ HasAll(d),
         made' \in {made, made \cup {RingName(d)}}, RingName(d) \in made',
         dev' = [dev EXCEPT ![d] = WithRing(d)],
         UNCHANGED stage
  PROVE  made' \subseteq Name /\ dev' \in [Dev -> [rx : Seq(Name), tx : Seq(Name)]] /\ Filled'
<1> USE DEF PipeInv
<1> DEFINE rx == dev[d].rx
           tx == dev[d].tx
<1>0. rx \in Seq(Name) /\ tx \in Seq(Name) /\ dev[d] = [rx |-> rx, tx |-> tx]
  BY DEF PipeTypeOK
<1>1. Len(rx) \in Nat /\ Len(tx) \in Nat /\ Len(tx) < NRing
  BY <1>0, PipeAssumption DEF Filled, Filling, HasAll
<1>2. RingName(d) = IF Len(rx) = Len(tx) THEN RxName(d, Len(rx)) ELSE TxName(d, Len(tx))
  BY DEF RingName, NextSide, Other, RxName, TxName
<1>3. RingName(d) \in Name
  <2>1. PipeOf(d) \in Net
    BY PipeAssumption DEF Dev, PipeOf
  <2>2. Len(rx) < NRing \/ Len(rx) # Len(tx)
    BY <1>1
  <2>3. \A i \in 0 .. NRing - 1 : RxName(d, i) \in Name /\ TxName(d, i) \in Name
    BY <2>1 DEF RxName, TxName, Name, Side, PipeOf
  <2>4. Len(rx) \in 0 .. NRing - 1 \/ Len(rx) # Len(tx)
    BY <1>1, <2>2, PipeAssumption
  <2>5. Len(tx) \in 0 .. NRing - 1
    BY <1>1, PipeAssumption
  <2> QED
    BY <1>2, <2>3, <2>4, <2>5
<1>4. made' \subseteq Name
  BY <1>3 DEF PipeTypeOK
<1>5. ASSUME NEW a \in Seq(Name), NEW b \in Seq(Name), dev' = [dev EXCEPT ![d] = [rx |-> a, tx |-> b]],
             Len(a) \in {Len(b), Len(b) + 1}, Len(a) <= NRing,
             \A i \in 1 .. Len(a) : a[i] = RxName(d, i - 1) /\ a[i] \in made',
             \A i \in 1 .. Len(b) : b[i] = TxName(d, i - 1) /\ b[i] \in made'
      PROVE  dev' \in [Dev -> [rx : Seq(Name), tx : Seq(Name)]] /\ Filled'
  <2>1. dev' \in [Dev -> [rx : Seq(Name), tx : Seq(Name)]]
    BY <1>5 DEF PipeTypeOK
  <2>2. dev'[d] = [rx |-> a, tx |-> b]
    BY <1>5 DEF PipeTypeOK
  <2>3. Filling(d)'
    <3>1. dev'[d].rx = a /\ dev'[d].tx = b /\ stage'[d] = "rings"
      BY <2>2
    <3> QED
      BY <1>5, <3>1 DEF Filling
  <2>4. ASSUME NEW e \in Dev, e # d
        PROVE  Filling(e)'
    <3>1. dev'[e] = dev[e] /\ stage'[e] = stage[e]
      BY <1>5, <2>4 DEF PipeTypeOK
    <3>2. Filling(e)
      BY DEF Filled
    <3> QED
      BY <3>1, <3>2 DEF Filling, RxName, TxName
  <2> QED
    BY <2>1, <2>3, <2>4 DEF Filled
<1>6. Filling(d)
  BY DEF Filled
<1>7. CASE Len(rx) = Len(tx)
  <2>1. WithRing(d) = [dev[d] EXCEPT !.rx = Append(dev[d].rx, RingName(d))]
    BY <1>7 DEF NextSide, WithRing
  <2>2. WithRing(d) = [rx |-> Append(rx, RingName(d)), tx |-> tx]
    BY <2>1, <1>0
  <2>3. Append(rx, RingName(d)) \in Seq(Name) /\ Len(Append(rx, RingName(d))) = Len(rx) + 1
    BY <1>0, <1>3
  <2>4. \A i \in 1 .. Len(rx) + 1 :
          /\ Append(rx, RingName(d))[i] = RxName(d, i - 1)
          /\ Append(rx, RingName(d))[i] \in made'
    BY <1>0, <1>1, <1>2, <1>6, <1>7 DEF Filling
  <2> QED
    <3>1. \A i \in 1 .. Len(tx) : tx[i] = TxName(d, i - 1) /\ tx[i] \in made'
      BY <1>6 DEF Filling
    <3>2. Len(rx) + 1 <= NRing
      BY <1>1, <1>7, PipeAssumption
    <3> QED
      BY <1>0, <1>1, <1>4, <1>5, <1>7, <2>2, <2>3, <2>4, <3>1, <3>2
<1>8. CASE Len(rx) # Len(tx)
  <2>1. WithRing(d) = [dev[d] EXCEPT !.tx = Append(dev[d].tx, RingName(d))]
    BY <1>8 DEF NextSide, WithRing
  <2>2. WithRing(d) = [rx |-> rx, tx |-> Append(tx, RingName(d))]
    BY <2>1, <1>0
  <2>3. Append(tx, RingName(d)) \in Seq(Name) /\ Len(Append(tx, RingName(d))) = Len(tx) + 1
    BY <1>0, <1>3
  <2>4. \A i \in 1 .. Len(tx) + 1 :
          /\ Append(tx, RingName(d))[i] = TxName(d, i - 1)
          /\ Append(tx, RingName(d))[i] \in made'
    BY <1>0, <1>1, <1>2, <1>6, <1>8 DEF Filling
  <2> QED
    BY <1>5, <2>2, <2>3, <2>4, <1>0, <1>1, <1>6, <1>4, <1>8, PipeAssumption DEF Filling
<1> QED
  BY <1>7, <1>8

LEMMA MakeRingKeeps ==
  ASSUME PipeInv, NEW d \in Dev, MakeRing(d) \/ LookUp(d)
  PROVE  PipeInv'
<1> USE DEF PipeInv
<1>1. UNCHANGED <<ring, cnt, held, burst>> /\ stage[d] = "rings" /\ ~ HasAll(d)
  BY DEF MakeRing, LookUp
<1>2. BurstOK'
  BY <1>1 DEF MakeRing, LookUp, FailedAt, BurstOK, PipeTypeOK
<1>2a. RingsFit'
  BY <1>1 DEF RingsFit
<1>3. CASE FailedAt(d)
  <2>1. PipeTypeOK'
    BY <1>1, <1>3 DEF FailedAt, PipeTypeOK, Stage
  <2>2. Filled'
    BY <1>3 DEF FailedAt, PipeTypeOK, Filled, Filling, Stage
  <2> QED
    BY <1>2, <1>2a, <2>1, <2>2
<1>4. CASE ~ FailedAt(d)
  <2>1. /\ made' \in {made, made \cup {RingName(d)}} /\ RingName(d) \in made'
        /\ dev' = [dev EXCEPT ![d] = WithRing(d)]
        /\ UNCHANGED stage
    BY <1>4 DEF MakeRing, LookUp
  <2>2. made' \subseteq Name /\ dev' \in [Dev -> [rx : Seq(Name), tx : Seq(Name)]] /\ Filled'
    BY <1>1, <2>1, RingAdded
  <2>3. PipeTypeOK'
    BY <1>1, <2>1, <2>2 DEF PipeTypeOK
  <2> QED
    BY <1>2, <1>2a, <2>2, <2>3
<1> QED
  BY <1>3, <1>4

LEMMA FromRingsKeeps ==
  ASSUME PipeInv, NEW d \in Dev, FromRings(d)
  PROVE  PipeInv'
<1> USE DEF PipeInv
<1>1. NoCount \in [Que -> Counts]
  BY DEF NoCount, Zero, Counts
<1>2. PipeTypeOK'
  <2>1. UNCHANGED <<made, ring, dev, held, burst>>
    BY DEF FromRings, FailedAt
  <2>2. stage' \in [Dev -> Stage]
    BY DEF FromRings, FailedAt, PipeTypeOK, Stage
  <2>3. cnt' \in [Dev -> [Que -> Counts]]
    BY <1>1 DEF FromRings, FailedAt, PipeTypeOK
  <2> QED
    BY <2>1, <2>2, <2>3 DEF PipeTypeOK
<1>3. BurstOK'
  BY DEF FromRings, FailedAt, BurstOK, PipeTypeOK
<1>4. Filled'
  BY DEF FromRings, FailedAt, HasAll, PipeTypeOK, Filled, Filling, Stage
<1> QED
  BY <1>2, <1>3, <1>4 DEF FromRings, RingsFit

LEMMA ConfigHwKeeps ==
  ASSUME PipeInv, NEW d \in Dev, ConfigHw(d)
  PROVE  PipeInv'
<1> USE DEF PipeInv
<1>1. PipeTypeOK'
  BY DEF ConfigHw, PipeTypeOK, Stage
<1>2. BurstOK'
  BY DEF ConfigHw, BurstOK, PipeTypeOK
<1>3. Filled'
  BY DEF ConfigHw, PipeTypeOK, Filled, Filling, Stage
<1> QED
  BY <1>1, <1>2, <1>3 DEF ConfigHw, RingsFit

LEMMA DieKeeps ==
  ASSUME PipeInv, Die
  PROVE  PipeInv'
<1> USE DEF PipeInv
<1>1. NoRings \in [rx : Seq(Name), tx : Seq(Name)]
  BY DEF NoRings
<1>2. PipeTypeOK'
  <2>1. dev' \in [Dev -> [rx : Seq(Name), tx : Seq(Name)]]
    BY <1>1 DEF Die, PipeTypeOK
  <2>2. stage' \in [Dev -> Stage]
    BY DEF Die, PipeTypeOK, Stage
  <2>3. /\ held' \in [Process -> SUBSET Pkt]
        /\ burst' \in [Process -> {Nothing} \cup Dev \X Que \X Counts]
    BY DEF Die, PipeTypeOK
  <2> QED
    BY <2>1, <2>2, <2>3 DEF Die, PipeTypeOK
<1>3. BurstOK'
  BY PipeAssumption DEF Die, BurstOK, PipeTypeOK, Process, Owner, Dev
<1>4. ASSUME NEW d \in Dev
      PROVE  Filling(d)'
  <2>1. CASE d \in Client
    <3>1. dev'[d] = NoRings /\ stage'[d] = "none"
      BY <2>1 DEF Die
    <3>2. Len(dev'[d].rx) = 0 /\ Len(dev'[d].tx) = 0
      BY <3>1 DEF NoRings
    <3> QED
      BY <3>1, <3>2, PipeAssumption DEF Filling
  <2>2. CASE d \notin Client
    <3>1. dev'[d] = dev[d] /\ stage'[d] = stage[d] /\ made' = made
      BY <2>2 DEF Die
    <3> QED
      BY <3>1 DEF Filled, Filling
  <2> QED
    BY <2>1, <2>2
<1> QED
  BY <1>2, <1>3, <1>4 DEF Filled, Die, RingsFit

(* A device that is complete has the rings of its pipe in their places.    *)
LEMMA WholeHasRings ==
  ASSUME PipeInv, NEW d \in Dev, stage[d] \in {"whole", "up"}, NEW i \in 1 .. NRing
  PROVE  /\ dev[d].rx[i] = RxName(d, i - 1) /\ dev[d].tx[i] = TxName(d, i - 1)
         /\ dev[d].rx[i] \in made /\ dev[d].tx[i] \in made
<1>1. Filling(d) /\ dev[d] \in [rx : Seq(Name), tx : Seq(Name)]
  BY DEF PipeInv, PipeTypeOK, Filled
<1>2. Len(dev[d].tx) = NRing /\ Len(dev[d].rx) = NRing
  BY <1>1, PipeAssumption DEF Filling
<1> QED
  BY <1>1, <1>2 DEF Filling

LEMMA QueueHasRings ==
  ASSUME PipeInv, NEW d \in Dev, stage[d] = "up", NEW q \in Que
  PROVE  /\ dev[d].rx[q + 1] = RxName(d, q) /\ dev[d].tx[q + 1] = TxName(d, q)
         /\ RxName(d, q) \in Name /\ TxName(d, q) \in Name
<1>1. q + 1 \in 1 .. NRing /\ (q + 1) - 1 = q
  BY PipeAssumption DEF Que
<1>2. PICK i \in 1 .. NRing : i = q + 1 /\ i - 1 = q
  BY <1>1
<1>3. /\ dev[d].rx[i] = RxName(d, q) /\ dev[d].tx[i] = TxName(d, q)
      /\ dev[d].rx[i] \in made /\ dev[d].tx[i] \in made
  BY <1>2, WholeHasRings
<1> QED
  BY <1>2, <1>3 DEF PipeInv, PipeTypeOK

(* A part of a sequence of packets. *)
LEMMA Parts ==
  ASSUME NEW s \in Seq(Pkt), NEW n \in 0 .. Len(s)
  PROVE  /\ SubSeq(s, 1, n) \in Seq(Pkt) /\ SubSeq(s, n + 1, Len(s)) \in Seq(Pkt)
         /\ Len(SubSeq(s, 1, n)) = n /\ Len(SubSeq(s, n + 1, Len(s))) = Len(s) - n
         /\ Range(SubSeq(s, 1, n)) = {s[k] : k \in 1 .. n}
         /\ Range(SubSeq(s, 1, n)) \subseteq Pkt
         /\ \A k \in 1 .. n : SubSeq(s, 1, n)[k] = s[k]
<1>1. /\ SubSeq(s, 1, n) \in Seq(Pkt) /\ Len(SubSeq(s, 1, n)) = n
      /\ \A k \in 1 .. n : SubSeq(s, 1, n)[k] = s[k]
  OBVIOUS
<1>2. SubSeq(s, n + 1, Len(s)) \in Seq(Pkt) /\ Len(SubSeq(s, n + 1, Len(s))) = Len(s) - n
  OBVIOUS
<1>3. Range(SubSeq(s, 1, n)) = {s[k] : k \in 1 .. n}
  <2>1. DOMAIN SubSeq(s, 1, n) = 1 .. n
    BY <1>1
  <2> QED
    BY <1>1, <2>1 DEF Range
<1>4. {s[k] : k \in 1 .. n} \subseteq Pkt
  OBVIOUS
<1> QED
  BY <1>1, <1>2, <1>3, <1>4

(* What is left of a step that moves packets: the burst and the ring.      *)
LEMMA MoveKeeps ==
  ASSUME PipeInv, NEW d \in Dev, NEW q \in Que, NEW r \in Name, NEW c \in Counts,
         stage[d] = "up",
         ring' \in [Name -> Seq(Pkt)], RingsFit', held' \in [Process -> SUBSET Pkt],
         burst' = [burst EXCEPT ![Owner(d)] = <<d, q, c>>],
         UNCHANGED <<made, dev, stage, cnt>>
  PROVE  PipeInv'
<1> USE DEF PipeInv
<1>1. PipeTypeOK'
  BY DEF PipeTypeOK
<1>2. BurstOK'
  BY DEF BurstOK, PipeTypeOK, Nothing
<1>3. Filled'
  BY DEF Filled, Filling
<1> QED
  BY <1>1, <1>2, <1>3

LEMMA RxBurstKeeps ==
  ASSUME PipeInv, NEW d \in Dev, NEW q \in Que, RxBurst(d, q)
  PROVE  PipeInv'
<1> DEFINE p == Owner(d)
           r == RxName(d, q)
           n == IF Len(ring[r]) < Burst THEN Len(ring[r]) ELSE Burst
<1>1. /\ stage[d] = "up" /\ n > 0
      /\ ring' = [ring EXCEPT ![r] = SubSeq(@, n + 1, Len(@))]
      /\ held' = [held EXCEPT ![p] = @ \cup Range(SubSeq(ring[r], 1, n))]
      /\ burst' = [burst EXCEPT ![p] = <<d, q, [Zero EXCEPT !.rx = n]>>]
      /\ UNCHANGED <<made, dev, stage, cnt>>
  BY QueueHasRings DEF RxBurst
<1>2. r \in Name /\ ring[r] \in Seq(Pkt)
  BY <1>1, QueueHasRings DEF PipeInv, PipeTypeOK
<1>3. n \in 0 .. Len(ring[r])
  BY <1>2, PipeAssumption
<1>4. ring' \in [Name -> Seq(Pkt)] /\ RingsFit' /\ held' \in [Process -> SUBSET Pkt]
  <2> HIDE DEF n, r, p
  <2>1. /\ SubSeq(ring[r], n + 1, Len(ring[r])) \in Seq(Pkt)
        /\ Len(SubSeq(ring[r], n + 1, Len(ring[r]))) = Len(ring[r]) - n
        /\ Range(SubSeq(ring[r], 1, n)) \subseteq Pkt
    BY <1>2, <1>3, Parts
  <2>2. Len(ring[r]) - n <= RingRoom
    BY <1>2, <1>3, PipeAssumption DEF PipeInv, RingsFit
  <2> QED
    BY <1>1, <1>2, <2>1, <2>2 DEF PipeInv, PipeTypeOK, RingsFit
<1>5. [Zero EXCEPT !.rx = n] \in Counts
  <2> HIDE DEF n
  <2> QED
    BY <1>3, <1>2 DEF Zero, Counts
<1> QED
  <2> HIDE DEF n, r
  <2> QED
    BY <1>1, <1>2, <1>4, <1>5, MoveKeeps

(* What a burst to be sent is, and how much of it a ring takes.            *)
LEMMA Bursts ==
  ASSUME PipeInv, NEW p \in Process, NEW s \in Sendable(p), NEW r \in Name
  PROVE  /\ s \in Seq(Pkt) /\ Range(s) \subseteq held[p] /\ Len(s) \in 1 .. Burst
         /\ \A i, j \in 1 .. Len(s) : s[i] = s[j] => i = j
         /\ LET free == RingRoom - Len(ring[r])
                n == IF Len(s) < free THEN Len(s) ELSE free
            IN n \in 0 .. Len(s) /\ Len(ring[r]) + n <= RingRoom
<1>1. PICK k \in 1 .. Burst : s \in [1 .. k -> held[p]]
  BY DEF Sendable
<1>2. IsInjective(s)
  BY DEF Sendable
<1>3. held[p] \subseteq Pkt /\ k \in Nat /\ ring[r] \in Seq(Pkt)
  BY PipeAssumption DEF PipeInv, PipeTypeOK
<1>4. s \in Seq(Pkt) /\ Len(s) = k /\ DOMAIN s = 1 .. k
  BY <1>1, <1>3
<1>5. Range(s) \subseteq held[p]
  BY <1>1, <1>4 DEF Range
<1>6. Len(ring[r]) \in Nat /\ Len(ring[r]) <= RingRoom
  BY <1>3 DEF PipeInv, RingsFit
<1>7. \A i, j \in 1 .. Len(s) : s[i] = s[j] => i = j
  BY <1>2, <1>4 DEF IsInjective
<1>8. Len(s) \in 1 .. Burst /\ Len(s) \in Nat /\ RingRoom - Len(ring[r]) \in Nat
  BY <1>1, <1>3, <1>4, <1>6, PipeAssumption
<1> DEFINE free == RingRoom - Len(ring[r])
           n == IF Len(s) < free THEN Len(s) ELSE free
<1>9. n \in 0 .. Len(s) /\ Len(ring[r]) + n <= RingRoom
  <2>1. \A a, b, c \in Nat : c - a \in Nat =>
          LET m == IF b < c - a THEN b ELSE c - a
          IN m \in 0 .. b /\ a + m <= c
    OBVIOUS
  <2> QED
    BY <1>6, <1>8, <2>1, PipeAssumption
<1> QED
  BY <1>4, <1>5, <1>7, <1>8, <1>9

LEMMA TxBurstKeeps ==
  ASSUME PipeInv, NEW d \in Dev, NEW q \in Que, NEW s \in Sendable(Owner(d)), TxBurst(d, q, s)
  PROVE  PipeInv'
<1> DEFINE p == Owner(d)
           r == TxName(d, q)
           free == RingRoom - Len(ring[r])
           n == IF Len(s) < free THEN Len(s) ELSE free
<1>1. /\ stage[d] = "up"
      /\ ring' = [ring EXCEPT ![r] = @ \o SubSeq(s, 1, n)]
      /\ held' = [held EXCEPT ![p] = @ \ Range(SubSeq(s, 1, n))]
      /\ burst' = [burst EXCEPT ![p] = <<d, q, [rx |-> 0, tx |-> n, err |-> Len(s) - n]>>]
      /\ UNCHANGED <<made, dev, stage, cnt>>
  BY QueueHasRings DEF TxBurst
<1>2. r \in Name /\ ring[r] \in Seq(Pkt)
  BY <1>1, QueueHasRings DEF PipeInv, PipeTypeOK
<1>3. p \in Process
  BY DEF Owner, Process
<1>4. s \in Seq(Pkt) /\ n \in 0 .. Len(s) /\ Len(ring[r]) + n <= RingRoom
  <2> HIDE DEF r, p
  <2> QED
    BY <1>2, <1>3, Bursts DEF p
<1>5. [rx |-> 0, tx |-> n, err |-> Len(s) - n] \in Counts
  <2> HIDE DEF n
  <2>1. n \in Nat /\ Len(s) - n \in Nat
    BY <1>4
  <2> QED
    BY <2>1 DEF Counts
<1>6. ring' \in [Name -> Seq(Pkt)] /\ RingsFit' /\ held' \in [Process -> SUBSET Pkt]
  <2> HIDE DEF n, r, p
  <2>1. SubSeq(s, 1, n) \in Seq(Pkt) /\ Len(SubSeq(s, 1, n)) = n
    BY <1>4, Parts
  <2>2. ring[r] \o SubSeq(s, 1, n) \in Seq(Pkt) /\ Len(ring[r] \o SubSeq(s, 1, n)) = Len(ring[r]) + n
    BY <1>2, <2>1
  <2> QED
    BY <1>1, <1>2, <1>4, <2>2 DEF PipeInv, PipeTypeOK, RingsFit
<1> QED
  <2> HIDE DEF n, r
  <2> QED
    BY <1>1, <1>2, <1>5, <1>6, MoveKeeps

(* Counters added and subtracted field by field. *)
LEMMA CountsAdd ==
  ASSUME NEW x \in Counts, NEW y \in Counts
  PROVE  /\ Plus(x, y) \in Counts
         /\ Plus(x, y) = [rx |-> (x.rx + y.rx) % Wrap, tx |-> (x.tx + y.tx) % Wrap,
                         err |-> (x.err + y.err) % Wrap]
<1>1. x.rx \in Nat /\ x.tx \in Nat /\ x.err \in Nat /\ y.rx \in Nat /\ y.tx \in Nat /\ y.err \in Nat
  BY DEF Counts
<1>2. /\ (x.rx + y.rx) % Wrap \in Nat /\ (x.tx + y.tx) % Wrap \in Nat
      /\ (x.err + y.err) % Wrap \in Nat
  BY <1>1, PipeAssumption
<1>3. DOMAIN x = {"rx", "tx", "err"}
  BY DEF Counts
<1>4. Plus(x, y) = [rx |-> (x.rx + y.rx) % Wrap, tx |-> (x.tx + y.tx) % Wrap,
                    err |-> (x.err + y.err) % Wrap]
  BY <1>3 DEF Plus
<1> QED
  BY <1>2, <1>4 DEF Counts

LEMMA CountKeeps ==
  ASSUME PipeInv, NEW p \in Process, Count(p)
  PROVE  PipeInv'
<1> USE DEF PipeInv
<1>1. PICK d \in Dev, q \in Que, c \in Counts : burst[p] = <<d, q, c>>
  BY DEF Count, PipeTypeOK
<1>2. Plus(cnt[d][q], c) \in Counts
  BY <1>1, CountsAdd DEF PipeTypeOK
<1>3. cnt' \in [Dev -> [Que -> Counts]]
  BY <1>1, <1>2 DEF Count, PipeTypeOK
<1>4. burst' \in [Process -> {Nothing} \cup Dev \X Que \X Counts]
  BY DEF Count, PipeTypeOK
<1>5. PipeTypeOK'
  BY <1>3, <1>4 DEF Count, PipeTypeOK
<1>6. BurstOK'
  BY DEF Count, BurstOK, PipeTypeOK, Nothing
<1>7. Filled' /\ RingsFit'
  BY DEF Count, Filled, Filling, RingsFit
<1> QED
  BY <1>5, <1>6, <1>7

LEMMA ComeGoKeeps ==
  ASSUME PipeInv, NEW p \in Process, NEW x \in Pkt, Come(p, x) \/ Go(p, x)
  PROVE  PipeInv'
<1> USE DEF PipeInv
<1>1. held' \in [Process -> SUBSET Pkt] /\ UNCHANGED <<made, ring, dev, stage, cnt, burst>>
  BY DEF Come, Go, PipeTypeOK
<1>2. PipeTypeOK'
  BY <1>1 DEF PipeTypeOK
<1> QED
  BY <1>1, <1>2 DEF BurstOK, Filled, Filling, RingsFit

LEMMA StatsKeep ==
  ASSUME PipeInv, UNCHANGED <<made, ring, dev, stage, cnt, held, burst>>
  PROVE  PipeInv'
BY DEF PipeInv, PipeTypeOK, BurstOK, Filled, Filling, RingsFit

THEOREM PipeTypeCorrect == PipeSpec => []PipeInv
<1>1. PipeInit => PipeInv
  <2> SUFFICES ASSUME PipeInit PROVE PipeInv
    OBVIOUS
  <2>1. NoRings \in [rx : Seq(Name), tx : Seq(Name)] /\ NoCount \in [Que -> Counts]
    BY DEF NoRings, NoCount, Zero, Counts
  <2>2. PipeTypeOK
    BY <2>1 DEF PipeInit, PipeTypeOK, Stage
  <2>3. BurstOK
    BY DEF PipeInit, BurstOK
  <2>4. Filled
    BY PipeAssumption DEF PipeInit, Filled, Filling, NoRings
  <2>5. RingsFit
    BY PipeAssumption DEF PipeInit, RingsFit
  <2> QED
    BY <2>2, <2>3, <2>4, <2>5 DEF PipeInv
<1>2. PipeInv /\ [PipeNext]_pvars => PipeInv'
  <2> SUFFICES ASSUME PipeInv, [PipeNext]_pvars PROVE PipeInv'
    OBVIOUS
  <2>1. ASSUME NEW d \in Dev,
               Probe(d) \/ MakeRing(d) \/ LookUp(d) \/ FromRings(d) \/ ConfigHw(d)
        PROVE  PipeInv'
    BY <2>1, ProbeKeeps, MakeRingKeeps, FromRingsKeeps, ConfigHwKeeps
  <2>2. ASSUME NEW d \in Dev, NEW q \in Que,
               RxBurst(d, q) \/ \E s \in Sendable(Owner(d)) : TxBurst(d, q, s)
        PROVE  PipeInv'
    BY <2>2, RxBurstKeeps, TxBurstKeeps
  <2>3. CASE Die
    BY <2>3, DieKeeps
  <2>4. ASSUME NEW p \in Process, Count(p) \/ \E x \in Pkt : Come(p, x) \/ Go(p, x)
        PROVE  PipeInv'
    BY <2>4, CountKeeps, ComeGoKeeps
  <2>5. ASSUME NEW d \in Net, TakeStats(d) \/ ReadQueue(d) \/ GiveStats(d)
        PROVE  PipeInv'
    BY <2>5, StatsKeep DEF TakeStats, ReadQueue, GiveStats
  <2>6. CASE UNCHANGED pvars
    BY <2>6, StatsKeep DEF pvars
  <2> QED
    BY <2>1, <2>2, <2>3, <2>4, <2>5, <2>6 DEF PipeNext
<1> QED
  BY <1>1, <1>2, PTL DEF PipeSpec

(* A client attaches to all the rings of a pipe or to none: a device that  *)
(* eth_dev_ring_create has completed has each of them in its place.        *)
THEOREM AttachedStaysWhole == PipeSpec => []AttachedIsWhole
<1>1. PipeInv => AttachedIsWhole
  <2> SUFFICES ASSUME PipeInv, NEW d \in Client, stage[d] \in {"whole", "up"}, NEW i \in 1 .. NRing
               PROVE  /\ dev[d].rx[i] = <<"tx", i - 1, Remote[d]>> /\ dev[d].rx[i] \in made
                      /\ dev[d].tx[i] = <<"rx", i - 1, Remote[d]>> /\ dev[d].tx[i] \in made
    BY DEF AttachedIsWhole
  <2>1. d \in Dev /\ d \notin Net
    BY PipeAssumption DEF Dev
  <2> QED
    BY <2>1, WholeHasRings DEF RxName, TxName
<1> QED
  BY <1>1, PipeTypeCorrect, PTL

-----------------------------------------------------------------------------
(* The pipes implement channels: each step of a process is one of an actor *)
(* of the channel or changes neither what is held nor the rings.           *)

ChannelStep == PipeChannels!Next \/ UNCHANGED <<held, ring>>

LEMMA SenderAndReceiver ==
  ASSUME PipeInv, NEW d \in Dev, NEW q \in Que
  PROVE  Owner(d) \in From(TxName(d, q)) /\ Owner(d) \in To(RxName(d, q)) /\ Owner(d) \in Process
BY DEF Owner, From, To, TxName, RxName, Process

LEMMA ComeIsBegin ==
  ASSUME PipeInv, NEW p \in Process, NEW x \in Pkt, Come(p, x)
  PROVE  PipeChannels!Next
<1>1. x \notin PipeChannels!InUse
  <2>1. \A r \in Name : Range(ring[r]) = {ring[r][k] : k \in DOMAIN ring[r]}
    BY DEF Range
  <2> QED
    BY <2>1 DEF Come, PipeChannels!InUse
<1>2. PipeChannels!Begin(p, x)
  BY <1>1 DEF Come, PipeChannels!Begin
<1> QED
  BY <1>2 DEF PipeChannels!Next

LEMMA GoIsEnd ==
  ASSUME PipeInv, NEW p \in Process, NEW x \in Pkt, Go(p, x)
  PROVE  PipeChannels!Next
<1>1. held'[p] = held[p] \ {x} /\ x \in held[p]
  BY DEF Go, PipeInv, PipeTypeOK
<1>2. PipeChannels!End(p)
  BY <1>1 DEF Go, PipeChannels!End
<1> QED
  BY <1>2 DEF PipeChannels!Next

LEMMA DieIsEnd ==
  ASSUME PipeInv, Die
  PROVE  ChannelStep
<1>1. "client" \in Process /\ held'["client"] = {} /\ UNCHANGED ring
  BY DEF Die, PipeInv, PipeTypeOK, Process
<1>2. CASE held["client"] = {}
  BY <1>1, <1>2 DEF Die, PipeInv, PipeTypeOK, ChannelStep
<1>3. CASE held["client"] # {}
  <2>1. PipeChannels!End("client")
    BY <1>1, <1>3 DEF Die, PipeChannels!End
  <2> QED
    BY <1>1, <2>1 DEF PipeChannels!Next, ChannelStep
<1> QED
  BY <1>2, <1>3

LEMMA RxBurstIsTake ==
  ASSUME PipeInv, NEW d \in Dev, NEW q \in Que, RxBurst(d, q)
  PROVE  PipeChannels!Next
<1> DEFINE p == Owner(d)
           r == RxName(d, q)
           n == IF Len(ring[r]) < Burst THEN Len(ring[r]) ELSE Burst
<1>1. /\ stage[d] = "up" /\ n > 0
      /\ ring' = [ring EXCEPT ![r] = SubSeq(@, n + 1, Len(@))]
      /\ held' = [held EXCEPT ![p] = @ \cup Range(SubSeq(ring[r], 1, n))]
  BY QueueHasRings DEF RxBurst
<1>2. r \in Name /\ ring[r] \in Seq(Pkt)
  BY <1>1, QueueHasRings DEF PipeInv, PipeTypeOK
<1>3. n \in 0 .. Len(ring[r])
  BY <1>2, PipeAssumption
<1>4. p \in Process /\ p \in To(r)
  BY SenderAndReceiver
<1> HIDE DEF n, r, p
<1>5. ring'[r] = SubSeq(ring[r], n + 1, Len(ring[r]))
  BY <1>1, <1>2 DEF PipeInv, PipeTypeOK
<1>6. /\ Len(ring'[r]) = Len(ring[r]) - n
      /\ Range(SubSeq(ring[r], 1, n)) = {ring[r][k] : k \in 1 .. n}
  BY <1>2, <1>3, <1>5, Parts
<1>7. Len(ring[r]) - Len(ring'[r]) = n
  BY <1>2, <1>3, <1>6
<1>8. PipeChannels!Take(p, r)
  BY <1>1, <1>2, <1>4, <1>6, <1>7 DEF PipeChannels!Take
<1> QED
  BY <1>2, <1>4, <1>8 DEF PipeChannels!Next

LEMMA EndOfJoined ==
  ASSUME NEW a \in Seq(Pkt), NEW b \in Seq(Pkt)
  PROVE  SubSeq(a \o b, Len(a) + 1, Len(a \o b)) = b
<1> DEFINE c == SubSeq(a \o b, Len(a) + 1, Len(a \o b))
<1>1. a \o b \in Seq(Pkt) /\ Len(a \o b) = Len(a) + Len(b) /\ Len(a) \in Nat /\ Len(b) \in Nat
  OBVIOUS
<1>2. c \in Seq(Pkt) /\ Len(c) = Len(b)
  BY <1>1
<1>3. \A k \in 1 .. Len(b) : c[k] = b[k]
  <2> TAKE k \in 1 .. Len(b)
  <2>1. c[k] = (a \o b)[Len(a) + k]
    BY <1>1
  <2>2. (a \o b)[Len(a) + k] = b[k]
    BY <1>1
  <2> QED
    BY <2>1, <2>2
<1> QED
  BY <1>2, <1>3

LEMMA TxBurstIsPut ==
  ASSUME PipeInv, NEW d \in Dev, NEW q \in Que, NEW s \in Sendable(Owner(d)), TxBurst(d, q, s)
  PROVE  ChannelStep
<1> DEFINE p == Owner(d)
           r == TxName(d, q)
           free == RingRoom - Len(ring[r])
           n == IF Len(s) < free THEN Len(s) ELSE free
           part == SubSeq(s, 1, n)
<1>1. /\ stage[d] = "up"
      /\ ring' = [ring EXCEPT ![r] = @ \o part]
      /\ held' = [held EXCEPT ![p] = @ \ Range(part)]
  BY QueueHasRings DEF TxBurst
<1>2. r \in Name /\ ring[r] \in Seq(Pkt)
  BY <1>1, QueueHasRings DEF PipeInv, PipeTypeOK
<1>3. p \in Process /\ p \in From(r)
  BY SenderAndReceiver
<1>4. /\ s \in Seq(Pkt) /\ n \in 0 .. Len(s) /\ Range(s) \subseteq held[p]
      /\ \A i, j \in 1 .. Len(s) : s[i] = s[j] => i = j
  <2> HIDE DEF r, p
  <2> QED
    BY <1>2, <1>3, Bursts DEF p
<1> HIDE DEF n, r, p
<1>5. /\ part \in Seq(Pkt) /\ Len(part) = n /\ Range(part) = {s[k] : k \in 1 .. n}
      /\ \A k \in 1 .. n : part[k] = s[k]
  BY <1>4, Parts
<1> HIDE DEF part
<1>6. Range(part) \subseteq held[p] /\ Range(part) = {part[k] : k \in DOMAIN part}
  BY <1>4, <1>5 DEF Range
<1>7. \A i, j \in 1 .. Len(part) : part[i] = part[j] => i = j
  BY <1>4, <1>5
<1>9. ring'[r] = ring[r] \o part
  BY <1>1, <1>2 DEF PipeInv, PipeTypeOK
<1>10. SubSeq(ring'[r], Len(ring[r]) + 1, Len(ring'[r])) = part
  BY <1>2, <1>5, <1>9, EndOfJoined
<1>11. CASE part = <<>>
  <2>1. ring[r] \o part = ring[r] /\ held[p] \ Range(part) = held[p]
    BY <1>2, <1>6, <1>11
  <2> QED
    BY <1>1, <2>1 DEF ChannelStep, PipeInv, PipeTypeOK
<1>12. CASE part # <<>>
  <2> DEFINE Sent(b) == /\ b # <<>> /\ {b[k] : k \in DOMAIN b} \subseteq held[p]
                        /\ \A j, k \in 1 .. Len(b) : b[j] = b[k] => j = k
                        /\ ring' = [ring EXCEPT ![r] = @ \o b]
                        /\ held' = [held EXCEPT ![p] = @ \ {b[k] : k \in DOMAIN b}]
             put == SubSeq(ring'[r], Len(ring[r]) + 1, Len(ring'[r]))
  <2>2. Sent(part)
    BY <1>1, <1>6, <1>7, <1>12
  <2>3. Sent(put)
    <3> HIDE DEF Sent
    <3> QED
      BY <1>10, <2>2
  <2>1. PipeChannels!Put(p, r)
    <3>1. p \in [l \in Name |-> From(l)][r]
      BY <1>2, <1>3
    <3> QED
      BY <2>3, <3>1 DEF PipeChannels!Put
  <2> QED
    BY <1>2, <1>3, <2>1 DEF ChannelStep, PipeChannels!Next
<1> QED
  BY <1>11, <1>12

(* The pipes implement channels: eth_dev_ring_create pairs the rings of    *)
(* the two devices crosswise, and eth_ring_rx and eth_ring_tx lose,        *)
(* duplicate and reorder nothing.                                          *)
THEOREM PipesAreChannels == PipeSpec => PipeIsChannel
<1>1. PipeInit => PipeChannels!Init
  BY DEF PipeInit, PipeChannels!Init
<1>2. PipeInv /\ [PipeNext]_pvars => [PipeChannels!Next]_<<held, ring>>
  <2> SUFFICES ASSUME PipeInv, [PipeNext]_pvars PROVE ChannelStep
    BY DEF ChannelStep
  <2>1. ASSUME NEW d \in Dev,
               Probe(d) \/ MakeRing(d) \/ LookUp(d) \/ FromRings(d) \/ ConfigHw(d)
        PROVE  ChannelStep
    BY <2>1 DEF Probe, MakeRing, LookUp, FromRings, ConfigHw, ChannelStep
  <2>2. ASSUME NEW d \in Dev, NEW q \in Que,
               RxBurst(d, q) \/ \E s \in Sendable(Owner(d)) : TxBurst(d, q, s)
        PROVE  ChannelStep
    BY <2>2, RxBurstIsTake, TxBurstIsPut DEF ChannelStep
  <2>3. CASE Die
    BY <2>3, DieIsEnd
  <2>4. ASSUME NEW p \in Process, Count(p) \/ \E x \in Pkt : Come(p, x) \/ Go(p, x)
        PROVE  ChannelStep
    BY <2>4, ComeIsBegin, GoIsEnd DEF Count, ChannelStep
  <2>5. ASSUME NEW d \in Net, TakeStats(d) \/ ReadQueue(d) \/ GiveStats(d)
        PROVE  ChannelStep
    BY <2>5 DEF TakeStats, ReadQueue, GiveStats, ChannelStep
  <2>6. CASE UNCHANGED pvars
    BY <2>6 DEF pvars, ChannelStep
  <2> QED
    BY <2>1, <2>2, <2>3, <2>4, <2>5, <2>6 DEF PipeNext
<1> QED
  BY <1>1, <1>2, PipeTypeCorrect, PTL DEF PipeSpec, PipeIsChannel, PipeChannels!Spec

-----------------------------------------------------------------------------
(* Counters that wrap: what % gives is the only remainder there is.        *)

LEMMA TimesGrows ==
  ASSUME NEW k \in Int, k >= 1, NEW w \in Nat
  PROVE  k * w >= w
<1>1. k * w = w + (k - 1) * w
  OBVIOUS
<1>2. (k - 1) * w >= 0
  BY k - 1 >= 0
<1> QED
  BY <1>1, <1>2

LEMMA Remainder ==
  ASSUME NEW a \in Int, NEW t \in Int, NEW r \in 0 .. Wrap - 1, a = t * Wrap + r
  PROVE  a % Wrap = r
<1> DEFINE w == Wrap
<1>0. w \in Nat /\ w # 0
  BY PipeAssumption
<1>1. PICK u \in Int, v \in 0 .. w - 1 : a = u * w + v /\ a % w = v
  <2>1. a = (a \div w) * w + (a % w) /\ a % w \in 0 .. w - 1 /\ a \div w \in Int
    BY <1>0
  <2> QED
    BY <2>1
<1> HIDE DEF w
<1>2. a = t * w + r /\ r \in 0 .. w - 1
  BY DEF w
<1>3. (u - t) * w = r - v /\ (t - u) * w = v - r
  BY <1>0, <1>1, <1>2
<1>4. CASE u - t >= 1
  BY <1>0, <1>1, <1>2, <1>3, <1>4, TimesGrows
<1>5. CASE t - u >= 1
  BY <1>0, <1>1, <1>2, <1>3, <1>5, TimesGrows
<1>6. CASE u = t
  <2>1. v = r
    BY <1>0, <1>1, <1>2, <1>3, <1>6
  <2> QED
    BY <1>1, <2>1 DEF w
<1> QED
  BY <1>4, <1>5, <1>6

(* Equal counters stay equal when as much is added to each, and wrapping   *)
(* one before adding changes nothing.                                      *)
LEMMA AddedAlike ==
  ASSUME NEW a \in Nat, NEW b \in Nat, NEW n \in Nat, a % Wrap = b % Wrap
  PROVE  (a + n) % Wrap = (b + n) % Wrap
<1>1. /\ a = (a \div Wrap) * Wrap + (a % Wrap) /\ b = (b \div Wrap) * Wrap + (b % Wrap)
      /\ a \div Wrap \in Int /\ b \div Wrap \in Int /\ a % Wrap \in 0 .. Wrap - 1
  BY PipeAssumption
<1>2. PICK u \in Int, v \in Int, r \in 0 .. Wrap - 1 : a = u * Wrap + r /\ b = v * Wrap + r
  BY <1>1
<1>3. PICK t \in Int, m \in 0 .. Wrap - 1 : r + n = t * Wrap + m
  <2>1. r + n = ((r + n) \div Wrap) * Wrap + ((r + n) % Wrap)
    BY <1>2, PipeAssumption
  <2>2. (r + n) \div Wrap \in Int /\ (r + n) % Wrap \in 0 .. Wrap - 1
    BY <1>2, PipeAssumption
  <2> QED
    BY <2>1, <2>2
<1>4. a + n = (u + t) * Wrap + m /\ b + n = (v + t) * Wrap + m
  BY <1>2, <1>3, PipeAssumption
<1> QED
  BY <1>3, <1>4, Remainder

LEMMA WrappedFirst ==
  ASSUME NEW a \in Nat, NEW n \in Nat
  PROVE  ((a % Wrap) + n) % Wrap = (a + n) % Wrap
<1>1. a % Wrap \in 0 .. Wrap - 1 /\ a % Wrap \in Nat
  BY PipeAssumption
<1>2. (a % Wrap) % Wrap = a % Wrap
  <2>1. a % Wrap = 0 * Wrap + (a % Wrap)
    BY <1>1, PipeAssumption
  <2> QED
    BY <1>1, <2>1, Remainder
<1> QED
  BY <1>1, <1>2, AddedAlike

(* A figure is what must be added to the last total to come to this one.   *)
LEMMA FigureAdded ==
  ASSUME NEW x \in 0 .. Wrap - 1, NEW y \in 0 .. Wrap - 1
  PROVE  (x + ((y + Wrap - x) % Wrap)) % Wrap = y
<1>1. CASE y < x
  <2>1. y + Wrap - x = 0 * Wrap + (y + Wrap - x) /\ y + Wrap - x \in 0 .. Wrap - 1
    BY <1>1, PipeAssumption
  <2>2. (y + Wrap - x) % Wrap = y + Wrap - x
    BY <2>1, PipeAssumption, Remainder
  <2>3. x + (y + Wrap - x) = 1 * Wrap + y /\ x + (y + Wrap - x) \in Int
    BY PipeAssumption
  <2> QED
    BY <2>2, <2>3, Remainder
<1>2. CASE y >= x
  <2>1. y + Wrap - x = 1 * Wrap + (y - x) /\ y - x \in 0 .. Wrap - 1 /\ y + Wrap - x \in Int
    BY <1>2, PipeAssumption
  <2>2. (y + Wrap - x) % Wrap = y - x
    BY <2>1, Remainder
  <2>3. x + (y - x) = 0 * Wrap + y /\ x + (y - x) \in Int
    BY PipeAssumption
  <2> QED
    BY <2>2, <2>3, Remainder
<1> QED
  BY <1>1, <1>2

-----------------------------------------------------------------------------
(* The figures per second.  Totals are counters too: they stay below Wrap. *)

Totals == [rx : 0 .. Wrap - 1, tx : 0 .. Wrap - 1, err : 0 .. Wrap - 1]

FiguresOK ==
  /\ cur \in [Net -> Totals] /\ prev \in [Net -> Totals] /\ paid \in [Net -> Totals]
  /\ reading \in {Nothing} \cup Net \X (0 .. 2 * NQue) \X Totals
  /\ FiguresAddUp

LEMMA TotalsWrap ==
  ASSUME NEW x \in Counts, NEW y \in Counts
  PROVE  Plus(x, y) \in Totals
<1>1. x.rx \in Nat /\ x.tx \in Nat /\ x.err \in Nat /\ y.rx \in Nat /\ y.tx \in Nat /\ y.err \in Nat
  BY DEF Counts
<1>2. /\ (x.rx + y.rx) % Wrap \in 0 .. Wrap - 1 /\ (x.tx + y.tx) % Wrap \in 0 .. Wrap - 1
      /\ (x.err + y.err) % Wrap \in 0 .. Wrap - 1
  BY <1>1, PipeAssumption
<1> QED
  BY <1>2, CountsAdd DEF Totals

LEMMA TotalsAreCounts == Totals \subseteq Counts /\ Zero \in Totals
BY PipeAssumption DEF Totals, Counts, Zero

(* What ssn_port_stat_update gives brings what was given to the new total. *)
LEMMA FiguresBringUp ==
  ASSUME NEW x \in Totals, NEW y \in Totals
  PROVE  Plus(x, Minus(y, x)) = y
<1>1. /\ x.rx \in 0 .. Wrap - 1 /\ x.tx \in 0 .. Wrap - 1 /\ x.err \in 0 .. Wrap - 1
      /\ y.rx \in 0 .. Wrap - 1 /\ y.tx \in 0 .. Wrap - 1 /\ y.err \in 0 .. Wrap - 1
      /\ y = [rx |-> y.rx, tx |-> y.tx, err |-> y.err]
      /\ DOMAIN x = {"rx", "tx", "err"} /\ DOMAIN y = {"rx", "tx", "err"}
  BY DEF Totals
<1>2. Minus(y, x) = [rx |-> (y.rx + Wrap - x.rx) % Wrap, tx |-> (y.tx + Wrap - x.tx) % Wrap,
                     err |-> (y.err + Wrap - x.err) % Wrap]
  BY <1>1 DEF Minus
<1>3. Plus(x, Minus(y, x)) =
        [rx |-> (x.rx + ((y.rx + Wrap - x.rx) % Wrap)) % Wrap,
         tx |-> (x.tx + ((y.tx + Wrap - x.tx) % Wrap)) % Wrap,
         err |-> (x.err + ((y.err + Wrap - x.err) % Wrap)) % Wrap]
  BY <1>1, <1>2 DEF Plus
<1>4. /\ (x.rx + ((y.rx + Wrap - x.rx) % Wrap)) % Wrap = y.rx
      /\ (x.tx + ((y.tx + Wrap - x.tx) % Wrap)) % Wrap = y.tx
      /\ (x.err + ((y.err + Wrap - x.err) % Wrap)) % Wrap = y.err
  BY <1>1, FigureAdded
<1> QED
  BY <1>1, <1>3, <1>4

LEMMA TakeStatsKeeps ==
  ASSUME FiguresOK, NEW d \in Net, TakeStats(d)
  PROVE  FiguresOK'
<1>1. /\ reading = Nothing /\ reading' = <<d, 0, Zero>>
      /\ prev' = [prev EXCEPT ![d] = cur[d]] /\ cur' = [cur EXCEPT ![d] = Zero] /\ paid' = paid
  BY DEF TakeStats
<1>2. 0 \in 0 .. 2 * NQue
  BY PipeAssumption
<1>3. FiguresAddUp'
  <2>1. \A e \in Net : paid[e] = cur[e]
    BY <1>1 DEF FiguresOK, FiguresAddUp
  <2>2. reading' # Nothing /\ reading'[1] = d
    BY <1>1 DEF Nothing
  <2> QED
    BY <1>1, <2>1, <2>2 DEF FiguresOK, FiguresAddUp
<1> QED
  BY <1>1, <1>2, <1>3, TotalsAreCounts DEF FiguresOK

LEMMA ReadQueueKeeps ==
  ASSUME PipeInv, FiguresOK, NEW d \in Net, ReadQueue(d)
  PROVE  FiguresOK'
<1>1. PICK at \in 0 .. 2 * NQue, total \in Totals : reading = <<d, at, total>>
  BY DEF ReadQueue, FiguresOK
<1>2. /\ at < 2 * NQue /\ reading' = <<d, at + 1, Total(d, at, total)>>
      /\ UNCHANGED <<cur, prev, paid>>
  BY <1>1 DEF ReadQueue
<1>3. at + 1 \in 0 .. 2 * NQue
  BY <1>2, PipeAssumption
<1>4. Total(d, at, total) \in Totals
  <2>1. \A q \in Que : cnt[d][q] \in Counts
    BY DEF PipeInv, PipeTypeOK, Dev
  <2>2. CASE at < NQue
    <3>1. at \in Que
      BY <2>2, PipeAssumption DEF Que
    <3>2. [Zero EXCEPT !.rx = cnt[d][at].rx] \in Counts
      BY <2>1, <3>1 DEF Zero, Counts
    <3> QED
      BY <2>2, <3>2, TotalsWrap, TotalsAreCounts DEF Total
  <2>3. CASE ~ (at < NQue)
    <3>1. at - NQue \in Que
      BY <1>2, <2>3, PipeAssumption DEF Que
    <3>2. [cnt[d][at - NQue] EXCEPT !.rx = 0] \in Counts
      BY <2>1, <3>1 DEF Counts
    <3> QED
      BY <2>3, <3>2, TotalsWrap, TotalsAreCounts DEF Total
  <2> QED
    BY <2>2, <2>3
<1>5. FiguresAddUp'
  <2>1. reading # Nothing /\ reading[1] = d /\ reading' # Nothing /\ reading'[1] = d
    BY <1>1, <1>2 DEF Nothing
  <2> QED
    BY <1>2, <2>1 DEF FiguresOK, FiguresAddUp
<1> QED
  BY <1>2, <1>3, <1>4, <1>5 DEF FiguresOK

LEMMA GiveStatsKeeps ==
  ASSUME FiguresOK, NEW d \in Net, GiveStats(d)
  PROVE  FiguresOK'
<1>1. PICK at \in 0 .. 2 * NQue, total \in Totals : reading = <<d, at, total>>
  BY DEF GiveStats, FiguresOK
<1>2. /\ reading' = Nothing /\ cur' = [cur EXCEPT ![d] = total] /\ UNCHANGED prev
      /\ paid' = [paid EXCEPT ![d] = Plus(@, Minus(total, prev[d]))]
  BY <1>1 DEF GiveStats
<1>3. paid[d] = prev[d] /\ prev[d] \in Totals /\ \A e \in Net \ {d} : paid[e] = cur[e]
  BY <1>1 DEF FiguresOK, FiguresAddUp, Nothing
<1>4. Plus(paid[d], Minus(total, prev[d])) = total
  BY <1>3, FiguresBringUp
<1>5. paid' = [paid EXCEPT ![d] = total]
  BY <1>2, <1>4
<1>6. FiguresAddUp'
  BY <1>2, <1>3, <1>5 DEF FiguresOK, FiguresAddUp
<1> QED
  BY <1>2, <1>5, <1>6 DEF FiguresOK

LEMMA FiguresKeep == PipeInv /\ FiguresOK /\ [PipeNext]_pvars => FiguresOK'
<1> SUFFICES ASSUME PipeInv, FiguresOK, [PipeNext]_pvars PROVE FiguresOK'
  OBVIOUS
<1>1. CASE UNCHANGED statVars
  BY <1>1 DEF statVars, FiguresOK, FiguresAddUp
<1>2. CASE \E d \in Net : TakeStats(d) \/ ReadQueue(d) \/ GiveStats(d)
  BY <1>2, TakeStatsKeeps, ReadQueueKeeps, GiveStatsKeeps
<1>3. UNCHANGED statVars \/ \E d \in Net : TakeStats(d) \/ ReadQueue(d) \/ GiveStats(d)
  <2>1. ASSUME NEW d \in Dev,
               Probe(d) \/ MakeRing(d) \/ LookUp(d) \/ FromRings(d) \/ ConfigHw(d)
        PROVE  UNCHANGED statVars
    BY <2>1 DEF Probe, MakeRing, LookUp, FromRings, ConfigHw
  <2>2. ASSUME NEW d \in Dev, NEW q \in Que,
               RxBurst(d, q) \/ \E s \in Sendable(Owner(d)) : TxBurst(d, q, s)
        PROVE  UNCHANGED statVars
    BY <2>2 DEF RxBurst, TxBurst
  <2>3. ASSUME NEW p \in Process, Count(p) \/ \E x \in Pkt : Come(p, x) \/ Go(p, x)
        PROVE  UNCHANGED statVars
    BY <2>3 DEF Count, Come, Go
  <2>4. Die \/ UNCHANGED pvars => UNCHANGED statVars
    BY DEF Die, pvars, statVars
  <2> QED
    BY <2>1, <2>2, <2>3, <2>4 DEF PipeNext
<1> QED
  BY <1>1, <1>2, <1>3

-----------------------------------------------------------------------------
(* The counters at the two ends of a ring.  rte_ring_create makes a ring   *)
(* with one producer and one consumer, so a pipe is for one client.        *)

OneClientEach == \A c, e \in Client : Remote[c] = Remote[e] => c = e

(* e receives what d sends. *)
Feeds(d, e) == (e \in Client /\ d = Remote[e]) \/ (d \in Client /\ e = Remote[d])

Agree(d, e, q) ==
  (cnt[e][q].rx + Pending(e, q, "rx") + Len(ring[TxName(d, q)])) % Wrap
    = (cnt[d][q].tx + Pending(d, q, "tx")) % Wrap

CountInv ==
  /\ deaths \in Nat
  /\ deaths = 0 =>
    /\ \A d \in Dev : stage[d] \notin {"whole", "up"} => cnt[d] = NoCount
    /\ \A d, e \in Dev, q \in Que : Feeds(d, e) => Agree(d, e, q)

LEMMA FeedsByRing ==
  ASSUME OneClientEach, NEW d \in Dev, NEW e \in Dev, NEW q \in Que, NEW y \in Que
  PROVE  /\ Feeds(d, e) => TxName(d, q) = RxName(e, q) /\ Owner(d) # Owner(e)
         /\ TxName(d, q) = RxName(e, y) => Feeds(d, e) /\ q = y
         /\ TxName(d, q) = TxName(e, y) => d = e /\ q = y
         /\ \A x \in Dev : (Feeds(d, e) /\ Feeds(d, x)) => e = x
         /\ \A x \in Dev : (Feeds(d, e) /\ Feeds(x, e)) => d = x
<1>1. /\ \A x \in Client : Remote[x] \in Net /\ x \notin Net
      /\ \A x \in Dev : x \in Net \/ x \in Client
      /\ \A x \in Net : x \notin Client
  BY PipeAssumption DEF Dev
<1>2. Feeds(d, e) => TxName(d, q) = RxName(e, q) /\ Owner(d) # Owner(e)
  BY <1>1 DEF Feeds, TxName, RxName, Owner
<1>3. TxName(d, q) = RxName(e, y) => Feeds(d, e) /\ q = y
  BY <1>1 DEF Feeds, TxName, RxName
<1>4. TxName(d, q) = TxName(e, y) => d = e /\ q = y
  BY <1>1 DEF OneClientEach, TxName
<1>5. \A x \in Dev : (Feeds(d, e) /\ Feeds(d, x)) => e = x
  BY <1>1 DEF OneClientEach, Feeds
<1>6. \A x \in Dev : (Feeds(d, e) /\ Feeds(x, e)) => d = x
  BY <1>1 DEF OneClientEach, Feeds
<1> QED
  BY <1>2, <1>3, <1>4, <1>5, <1>6

LEMMA PendingCounts ==
  ASSUME PipeInv, NEW d \in Dev, NEW q \in Que
  PROVE  /\ Pending(d, q, "rx") \in Nat /\ Pending(d, q, "tx") \in Nat
         /\ cnt[d][q].rx \in Nat /\ cnt[d][q].tx \in Nat
         /\ Owner(d) \in Process
         /\ burst[Owner(d)] = Nothing => Pending(d, q, "rx") = 0 /\ Pending(d, q, "tx") = 0
<1>1. Owner(d) \in Process
  BY DEF Owner, Process
<1>2. /\ burst[Owner(d)] \in {Nothing} \cup Dev \X Que \X Counts
      /\ cnt[d][q] \in Counts
  BY <1>1 DEF PipeInv, PipeTypeOK
<1>3. Pending(d, q, "rx") \in Nat /\ Pending(d, q, "tx") \in Nat
  <2>1. CASE burst[Owner(d)] = Nothing
    BY <2>1 DEF Pending
  <2>2. CASE burst[Owner(d)] # Nothing
    <3>1. PICK x \in Dev, y \in Que, c \in Counts : burst[Owner(d)] = <<x, y, c>>
      BY <1>2, <2>2
    <3>2. c["rx"] \in Nat /\ c["tx"] \in Nat
      BY DEF Counts
    <3> QED
      BY <3>1, <3>2 DEF Pending
  <2> QED
    BY <2>1, <2>2
<1> QED
  BY <1>1, <1>2, <1>3 DEF Pending, Counts

LEMMA RxBurstAgrees ==
  ASSUME PipeInv, CountInv, OneClientEach, NEW x \in Dev, NEW y \in Que, RxBurst(x, y)
  PROVE  CountInv'
<1> SUFFICES ASSUME deaths = 0 PROVE CountInv'
  BY DEF RxBurst, CountInv
<1> DEFINE p == Owner(x)
           r == RxName(x, y)
           n == IF Len(ring[r]) < Burst THEN Len(ring[r]) ELSE Burst
<1>1. /\ stage[x] = "up" /\ burst[p] = Nothing /\ n > 0
      /\ ring' = [ring EXCEPT ![r] = SubSeq(@, n + 1, Len(@))]
      /\ burst' = [burst EXCEPT ![p] = <<x, y, [Zero EXCEPT !.rx = n]>>]
      /\ UNCHANGED <<stage, cnt, deaths>>
  BY QueueHasRings DEF RxBurst
<1>2. r \in Name /\ ring[r] \in Seq(Pkt)
  BY <1>1, QueueHasRings DEF PipeInv, PipeTypeOK
<1>3. n \in 0 .. Len(ring[r])
  BY <1>2, PipeAssumption
<1> HIDE DEF n
<1>4. ring'[r] = SubSeq(ring[r], n + 1, Len(ring[r]))
  BY <1>1, <1>2 DEF PipeInv, PipeTypeOK
<1>5. Len(ring'[r]) = Len(ring[r]) - n
  BY <1>2, <1>3, <1>4, Parts
<1>6. burst'[p] = <<x, y, [rx |-> n, tx |-> 0, err |-> 0]>>
  <2>1. [Zero EXCEPT !.rx = n] = [rx |-> n, tx |-> 0, err |-> 0]
    BY DEF Zero
  <2>2. p \in Process
    BY PendingCounts
  <2> HIDE DEF p
  <2> QED
    BY <1>1, <2>1, <2>2 DEF PipeInv, PipeTypeOK
<1>7. ASSUME NEW d \in Dev, NEW e \in Dev, NEW q \in Que, Feeds(d, e)
      PROVE  Agree(d, e, q)'
  <2>1. Agree(d, e, q)
    BY <1>7 DEF CountInv
  <2>2. Pending(d, q, "tx")' = Pending(d, q, "tx")
    <3>1. CASE Owner(d) = p
      BY <1>1, <1>6, <3>1 DEF Pending, Nothing
    <3>2. CASE Owner(d) # p
      BY <1>1, <3>2, PendingCounts DEF Pending, PipeInv, PipeTypeOK
    <3> QED
      BY <3>1, <3>2
  <2>3. CASE e = x /\ q = y
    <3>1. TxName(d, q) = r
      BY <1>7, <2>3, FeedsByRing
    <3>2. Pending(e, q, "rx") = 0 /\ Pending(e, q, "rx")' = n
      <4>1. burst[Owner(e)] = Nothing /\ burst'[Owner(e)] = <<x, y, [rx |-> n, tx |-> 0, err |-> 0]>>
        BY <1>1, <1>6, <2>3
      <4>2. burst'[Owner(e)] # Nothing
        BY <4>1 DEF Nothing
      <4>3. Pending(e, q, "rx") = 0
        BY <4>1 DEF Pending
      <4>4. Pending(e, q, "rx")' = [rx |-> n, tx |-> 0, err |-> 0]["rx"]
        BY <2>3, <4>1, <4>2 DEF Pending, Owner
      <4> QED
        BY <4>3, <4>4
    <3>3. /\ cnt[e][q].rx \in Nat /\ Len(ring[r]) \in Nat /\ n \in Nat
      BY <1>2, <1>3, PendingCounts
    <3>4. cnt[e][q].rx + Pending(e, q, "rx")' + Len(ring'[r])
            = cnt[e][q].rx + Pending(e, q, "rx") + Len(ring[r])
      BY <1>5, <3>2, <3>3
    <3> QED
      BY <1>1, <2>1, <2>2, <3>1, <3>4 DEF Agree, TxName
  <2>4. CASE ~ (e = x /\ q = y)
    <3>1. TxName(d, q) # r
      BY <1>7, <2>4, FeedsByRing
    <3>2. ring'[TxName(d, q)] = ring[TxName(d, q)]
      BY <1>1, <3>1 DEF PipeInv, PipeTypeOK
    <3>3. Pending(e, q, "rx")' = Pending(e, q, "rx")
      <4>1. CASE Owner(e) = p
        BY <1>1, <1>6, <2>4, <4>1 DEF Pending, Nothing
      <4>2. CASE Owner(e) # p
        BY <1>1, <4>2, PendingCounts DEF Pending, PipeInv, PipeTypeOK
      <4> QED
        BY <4>1, <4>2
    <3> QED
      BY <1>1, <2>1, <2>2, <3>2, <3>3 DEF Agree, TxName
  <2> QED
    BY <2>3, <2>4
<1> QED
  BY <1>1, <1>7 DEF CountInv, Feeds

LEMMA TxBurstAgrees ==
  ASSUME PipeInv, CountInv, OneClientEach, NEW x \in Dev, NEW y \in Que,
         NEW s \in Sendable(Owner(x)), TxBurst(x, y, s)
  PROVE  CountInv'
<1> SUFFICES ASSUME deaths = 0 PROVE CountInv'
  BY DEF TxBurst, CountInv
<1> DEFINE p == Owner(x)
           r == TxName(x, y)
           free == RingRoom - Len(ring[r])
           n == IF Len(s) < free THEN Len(s) ELSE free
           moved == <<x, y, [rx |-> 0, tx |-> n, err |-> Len(s) - n]>>
<1>1. /\ stage[x] = "up" /\ burst[p] = Nothing
      /\ ring' = [ring EXCEPT ![r] = @ \o SubSeq(s, 1, n)]
      /\ burst' = [burst EXCEPT ![p] = moved]
      /\ UNCHANGED <<stage, cnt, deaths>>
  BY QueueHasRings DEF TxBurst
<1>2. r \in Name /\ ring[r] \in Seq(Pkt)
  BY <1>1, QueueHasRings DEF PipeInv, PipeTypeOK
<1>3. p \in Process
  BY PendingCounts
<1>4. s \in Seq(Pkt) /\ n \in 0 .. Len(s)
  <2> HIDE DEF r, p
  <2> QED
    BY <1>2, <1>3, Bursts DEF p
<1> HIDE DEF n
<1>5. ring'[r] = ring[r] \o SubSeq(s, 1, n)
  BY <1>1, <1>2 DEF PipeInv, PipeTypeOK
<1>6. Len(ring'[r]) = Len(ring[r]) + n
  <2>1. SubSeq(s, 1, n) \in Seq(Pkt) /\ Len(SubSeq(s, 1, n)) = n
    BY <1>4, Parts
  <2> QED
    BY <1>2, <1>5, <2>1
<1>7. burst'[p] = moved
  <2> HIDE DEF p, moved
  <2> QED
    BY <1>1, <1>3 DEF PipeInv, PipeTypeOK
<1>8. ASSUME NEW d \in Dev, NEW e \in Dev, NEW q \in Que, Feeds(d, e)
      PROVE  Agree(d, e, q)'
  <2>1. Agree(d, e, q)
    BY <1>8 DEF CountInv
  <2>2. Pending(e, q, "rx")' = Pending(e, q, "rx")
    <3>1. CASE Owner(e) = p
      BY <1>1, <1>7, <3>1 DEF Pending, Nothing
    <3>2. CASE Owner(e) # p
      BY <1>1, <3>2, PendingCounts DEF Pending, PipeInv, PipeTypeOK
    <3> QED
      BY <3>1, <3>2
  <2>3. CASE d = x /\ q = y
    <3>1. Pending(d, q, "tx") = 0 /\ Pending(d, q, "tx")' = n
      <4>1. burst[Owner(d)] = Nothing /\ burst'[Owner(d)] = moved
        BY <1>1, <1>7, <2>3
      <4>2. burst'[Owner(d)] # Nothing
        BY <4>1 DEF Nothing
      <4>3. Pending(d, q, "tx") = 0
        BY <4>1 DEF Pending
      <4>4. Pending(d, q, "tx")' = [rx |-> 0, tx |-> n, err |-> Len(s) - n]["tx"]
        BY <2>3, <4>1, <4>2 DEF Pending, Owner
      <4> QED
        BY <4>3, <4>4
    <3>2. TxName(d, q) = r
      BY <2>3
    <3>3. /\ cnt[d][q].tx \in Nat /\ cnt[e][q].rx \in Nat /\ Pending(e, q, "rx") \in Nat
          /\ Len(ring[r]) \in Nat /\ n \in Nat
      <4>1. Len(ring[r]) \in Nat
        BY <1>2
      <4>2. n \in Nat
        BY <1>4
      <4>3. cnt[d][q].tx \in Nat /\ cnt[e][q].rx \in Nat /\ Pending(e, q, "rx") \in Nat
        BY PendingCounts
      <4> QED
        BY <4>1, <4>2, <4>3
    <3> DEFINE got == cnt[e][q].rx + Pending(e, q, "rx") + Len(ring[r])
               put == cnt[d][q].tx
    <3>4. got \in Nat /\ put \in Nat /\ got % Wrap = put % Wrap
      <4>1. cnt[d][q].tx + Pending(d, q, "tx") = put
        BY <3>1, <3>3
      <4>2. got % Wrap = (cnt[d][q].tx + Pending(d, q, "tx")) % Wrap
        BY <2>1, <3>2 DEF Agree
      <4>3. got % Wrap = put % Wrap
        <5> HIDE DEF got, put
        <5> QED
          BY <4>1, <4>2
      <4> HIDE DEF r
      <4> QED
        BY <3>3, <4>3
    <3>5. (got + n) % Wrap = (put + n) % Wrap
      <4> HIDE DEF got, put
      <4> QED
        BY <3>3, <3>4, AddedAlike
    <3>6. cnt[e][q].rx + Pending(e, q, "rx")' + Len(ring'[r]) = got + n
      <4> HIDE DEF r
      <4>1. cnt[e][q].rx + Pending(e, q, "rx")' + Len(ring'[r])
              = cnt[e][q].rx + Pending(e, q, "rx") + (Len(ring[r]) + n)
        BY <1>6, <2>2
      <4>2. \A a, b, c, k \in Nat : a + b + (c + k) = (a + b + c) + k
        OBVIOUS
      <4> QED
        BY <3>3, <4>1, <4>2
    <3>7. cnt[d][q].tx + Pending(d, q, "tx")' = put + n
      BY <3>1
    <3> QED
      <4> HIDE DEF got, put
      <4> QED
        BY <1>1, <3>2, <3>5, <3>6, <3>7 DEF Agree, TxName
  <2>4. CASE ~ (d = x /\ q = y)
    <3>1. TxName(d, q) # r
      BY <2>4, FeedsByRing
    <3>2. ring'[TxName(d, q)] = ring[TxName(d, q)]
      BY <1>1, <3>1 DEF PipeInv, PipeTypeOK
    <3>3. Pending(d, q, "tx")' = Pending(d, q, "tx")
      <4>1. CASE Owner(d) = p
        BY <1>1, <1>7, <2>4, <4>1 DEF Pending, Nothing
      <4>2. CASE Owner(d) # p
        BY <1>1, <4>2, PendingCounts DEF Pending, PipeInv, PipeTypeOK
      <4> QED
        BY <4>1, <4>2
    <3> QED
      BY <1>1, <2>1, <2>2, <3>2, <3>3 DEF Agree, TxName
  <2> QED
    BY <2>3, <2>4
<1> QED
  BY <1>1, <1>8 DEF CountInv, Feeds

(* Counting a burst moves it from what is pending to the counters.         *)
LEMMA CountedOnce ==
  ASSUME PipeInv, NEW p \in Process, Count(p), NEW d \in Dev, NEW q \in Que
  PROVE  /\ (cnt'[d][q].rx + Pending(d, q, "rx")') % Wrap = (cnt[d][q].rx + Pending(d, q, "rx")) % Wrap
         /\ (cnt'[d][q].tx + Pending(d, q, "tx")') % Wrap = (cnt[d][q].tx + Pending(d, q, "tx")) % Wrap
<1>1. PICK x \in Dev, y \in Que, c \in Counts : burst[p] = <<x, y, c>>
  BY DEF Count, PipeInv, PipeTypeOK
<1>2. burst[p] # Nothing /\ Owner(x) = p
  BY <1>1 DEF PipeInv, BurstOK, Nothing
<1>3. cnt' = [cnt EXCEPT ![x][y] = Plus(@, c)] /\ burst' = [burst EXCEPT ![p] = Nothing]
  BY <1>1 DEF Count
<1>4. CASE d = x /\ q = y
  <2>1. cnt'[d][q] = Plus(cnt[d][q], c)
    BY <1>3, <1>4 DEF PipeInv, PipeTypeOK
  <2>2. cnt[d][q] \in Counts
    BY DEF PipeInv, PipeTypeOK
  <2>3. cnt'[d][q].rx = (cnt[d][q].rx + c.rx) % Wrap /\ cnt'[d][q].tx = (cnt[d][q].tx + c.tx) % Wrap
    <3>1. Plus(cnt[d][q], c) =
            [rx |-> (cnt[d][q].rx + c.rx) % Wrap, tx |-> (cnt[d][q].tx + c.tx) % Wrap,
             err |-> (cnt[d][q].err + c.err) % Wrap]
      BY <2>2, CountsAdd
    <3> QED
      BY <2>1, <3>1
  <2>4. Pending(d, q, "rx")' = 0 /\ Pending(d, q, "tx")' = 0
    <3>1. burst'[Owner(d)] = Nothing
      BY <1>2, <1>3, <1>4 DEF PipeInv, PipeTypeOK
    <3> QED
      BY <3>1 DEF Pending, Owner
  <2>5. Pending(d, q, "rx") = c.rx /\ Pending(d, q, "tx") = c.tx
    <3>1. burst[Owner(d)] = <<d, q, c>> /\ burst[Owner(d)] # Nothing
      BY <1>1, <1>2, <1>4
    <3>2. Pending(d, q, "rx") = c["rx"] /\ Pending(d, q, "tx") = c["tx"]
      BY <3>1 DEF Pending
    <3> QED
      BY <3>2
  <2>6. c.rx \in Nat /\ c.tx \in Nat /\ cnt[d][q].rx \in Nat /\ cnt[d][q].tx \in Nat
    BY <2>2 DEF Counts
  <2>7. ASSUME NEW a \in Nat, NEW k \in Nat
        PROVE  (((a + k) % Wrap) + 0) % Wrap = (a + k) % Wrap
    <3>1. a + k \in Nat
      OBVIOUS
    <3>2. (((a + k) % Wrap) + 0) % Wrap = ((a + k) + 0) % Wrap
      BY <3>1, WrappedFirst
    <3> QED
      BY <3>1, <3>2
  <2> QED
    BY <2>3, <2>4, <2>5, <2>6, <2>7
<1>5. CASE ~ (d = x /\ q = y)
  <2>1. cnt'[d][q] = cnt[d][q]
    BY <1>3, <1>5 DEF PipeInv, PipeTypeOK
  <2>2. CASE Owner(d) = p
    <3>1. burst'[Owner(d)] = Nothing /\ burst[Owner(d)] = <<x, y, c>>
      BY <1>1, <1>3, <2>2 DEF PipeInv, PipeTypeOK
    <3>2. /\ Pending(d, q, "rx")' = 0 /\ Pending(d, q, "tx")' = 0
          /\ Pending(d, q, "rx") = 0 /\ Pending(d, q, "tx") = 0
      BY <1>5, <3>1 DEF Pending, Owner
    <3> QED
      BY <2>1, <3>2
  <2>3. CASE Owner(d) # p
    <3>1. burst'[Owner(d)] = burst[Owner(d)]
      BY <1>3, <2>3, PendingCounts DEF PipeInv, PipeTypeOK
    <3>2. Pending(d, q, "rx")' = Pending(d, q, "rx") /\ Pending(d, q, "tx")' = Pending(d, q, "tx")
      BY <3>1 DEF Pending, Owner
    <3> QED
      BY <2>1, <3>2
  <2> QED
    BY <2>2, <2>3
<1> QED
  BY <1>4, <1>5

LEMMA CountAgrees ==
  ASSUME PipeInv, PipeInv', CountInv, OneClientEach, NEW p \in Process, Count(p)
  PROVE  CountInv'
<1> SUFFICES ASSUME deaths = 0 PROVE CountInv'
  BY DEF Count, CountInv
<1>1. UNCHANGED <<ring, stage, deaths>>
  BY DEF Count
<1>2. ASSUME NEW d \in Dev, NEW e \in Dev, NEW q \in Que, Feeds(d, e)
      PROVE  Agree(d, e, q)'
  <2>1. Agree(d, e, q)
    BY <1>2 DEF CountInv
  <2> DEFINE got == cnt[e][q].rx + Pending(e, q, "rx")
             gotNow == cnt'[e][q].rx + Pending(e, q, "rx")'
             len == Len(ring[TxName(d, q)])
  <2>2. gotNow % Wrap = got % Wrap
    BY CountedOnce
  <2>3. /\ cnt[e][q].rx \in Nat /\ Pending(e, q, "rx") \in Nat
        /\ cnt'[e][q].rx \in Nat /\ Pending(e, q, "rx")' \in Nat
    <3>1. (cnt[e][q].rx \in Nat)' /\ (Pending(e, q, "rx") \in Nat)'
      <4>1. /\ (burst \in [Process -> {Nothing} \cup Dev \X Que \X Counts])'
            /\ (cnt \in [Dev -> [Que -> Counts]])'
        BY DEF PipeInv, PipeTypeOK
      <4>2. Owner(e) \in Process
        BY PendingCounts
      <4>3. burst'[Owner(e)] \in {Nothing} \cup Dev \X Que \X Counts /\ cnt'[e][q] \in Counts
        BY <4>1, <4>2
      <4>4. (Pending(e, q, "rx") \in Nat)'
        <5>1. CASE burst'[Owner(e)] = Nothing
          BY <5>1 DEF Pending, Owner
        <5>2. CASE burst'[Owner(e)] # Nothing
          <6>1. PICK x \in Dev, y \in Que, c \in Counts : burst'[Owner(e)] = <<x, y, c>>
            BY <4>3, <5>2
          <6>2. c["rx"] \in Nat
            BY DEF Counts
          <6> QED
            BY <6>1, <6>2 DEF Pending, Owner
        <5> QED
          BY <5>1, <5>2
      <4>5. (cnt[e][q].rx \in Nat)'
        BY <4>3 DEF Counts
      <4> QED
        BY <4>4, <4>5
    <3> QED
      BY <3>1, PendingCounts
  <2>4. len \in Nat
    <3>1. d \in Dev /\ Feeds(d, e)
      BY <1>2
    <3>2. TxName(d, q) \in Name
      <4>1. q \in 0 .. NRing - 1
        BY PipeAssumption DEF Que
      <4> QED
        BY <4>1, PipeAssumption DEF TxName, Name, Side, Dev
    <3> QED
      BY <3>2 DEF PipeInv, PipeTypeOK
  <2>5. (gotNow + len) % Wrap = (got + len) % Wrap
    <3>1. got \in Nat /\ gotNow \in Nat
      BY <2>3
    <3> HIDE DEF got, gotNow, len
    <3> QED
      BY <2>2, <2>4, <3>1, AddedAlike
  <2>6. (cnt'[d][q].tx + Pending(d, q, "tx")') % Wrap = (cnt[d][q].tx + Pending(d, q, "tx")) % Wrap
    BY CountedOnce
  <2> QED
    BY <1>1, <2>1, <2>5, <2>6 DEF Agree, TxName
<1>3. ASSUME NEW d \in Dev, stage[d] \notin {"whole", "up"}
      PROVE  cnt'[d] = cnt[d]
  <2>1. PICK x \in Dev, y \in Que, c \in Counts : burst[p] = <<x, y, c>>
    BY DEF Count, PipeInv, PipeTypeOK
  <2>2. stage[x] = "up"
    BY <2>1 DEF PipeInv, BurstOK, Nothing
  <2>3. cnt' = [cnt EXCEPT ![x][y] = Plus(@, c)] /\ d # x
    BY <1>3, <2>1, <2>2 DEF Count
  <2> QED
    BY <2>3 DEF PipeInv, PipeTypeOK
<1> QED
  BY <1>1, <1>2, <1>3 DEF CountInv, Feeds

LEMMA OthersAgree ==
  ASSUME PipeInv, CountInv,
         \/ deaths' \in Nat \ {0}
         \/ /\ UNCHANGED <<ring, burst, deaths, cnt>>
            /\ \A d \in Dev : stage[d] \in {"whole", "up"} => stage'[d] \in {"whole", "up"}
         \/ \E d \in Dev : FromRings(d)
  PROVE  CountInv'
<1>1. CASE deaths' \in Nat \ {0}
  BY <1>1 DEF CountInv
<1>2. ASSUME UNCHANGED <<ring, burst, deaths, cnt>>,
             \A d \in Dev : stage[d] \in {"whole", "up"} => stage'[d] \in {"whole", "up"}
      PROVE  CountInv'
  <2>1. \A d, e \in Dev, q \in Que : Agree(d, e, q)' <=> Agree(d, e, q)
    BY <1>2 DEF Agree, TxName, Pending, Owner
  <2> QED
    BY <1>2, <2>1 DEF CountInv, Feeds
<1>3. ASSUME NEW d \in Dev, FromRings(d)
      PROVE  CountInv'
  <2> SUFFICES ASSUME deaths = 0 PROVE CountInv'
    BY <1>3 DEF FromRings, CountInv
  <2>1. stage[d] = "rings" /\ cnt[d] = NoCount
    BY <1>3 DEF FromRings, CountInv
  <2>2. cnt' = cnt
    BY <1>3, <2>1 DEF FromRings, PipeInv, PipeTypeOK
  <2>3. UNCHANGED <<ring, burst, deaths, cnt>>
    BY <1>3, <2>2 DEF FromRings
  <2>4. \A e \in Dev : stage[e] \in {"whole", "up"} => stage'[e] \in {"whole", "up"}
    BY <1>3, <2>1 DEF FromRings, FailedAt, PipeInv, PipeTypeOK
  <2> QED
    BY <1>2, <2>3, <2>4
<1> QED
  BY <1>1, <1>2, <1>3

(* Whatever is sent over a pipe, however often its counters wrap and       *)
(* whenever the timer takes the figures, the counters of eth_ring_tx at    *)
(* one end and of eth_ring_rx at the other differ by what is on the way,   *)
(* and the figures of ssn_port_stat_update add up to the counters.         *)
THEOREM CountersAlwaysAgree ==
  ASSUME OneClientEach
  PROVE  PipeSpec => []CountersAgree
<1>1. PipeInit => CountInv /\ FiguresOK
  <2> SUFFICES ASSUME PipeInit PROVE CountInv /\ FiguresOK
    OBVIOUS
  <2>1. CountInv
    <3>1. ASSUME NEW d \in Dev, NEW e \in Dev, NEW q \in Que
          PROVE  Agree(d, e, q)
      <4>1. Pending(d, q, "tx") = 0 /\ Pending(e, q, "rx") = 0
        BY DEF PipeInit, Pending, Owner, Process
      <4>2. cnt[d][q].tx = 0 /\ cnt[e][q].rx = 0
        BY DEF PipeInit, NoCount, Zero
      <4>3. TxName(d, q) \in Name
        <5>1. q \in 0 .. NRing - 1
          BY PipeAssumption DEF Que
        <5> QED
          BY <5>1, PipeAssumption DEF TxName, Name, Side, Dev
      <4>4. Len(ring[TxName(d, q)]) = 0
        BY <4>3 DEF PipeInit
      <4> QED
        BY <4>1, <4>2, <4>4 DEF Agree
    <3> QED
      BY <3>1 DEF CountInv, PipeInit
  <2>2. FiguresOK
    BY TotalsAreCounts DEF PipeInit, FiguresOK, FiguresAddUp
  <2> QED
    BY <2>1, <2>2
<1>2. PipeInv /\ PipeInv' /\ CountInv /\ [PipeNext]_pvars => CountInv'
  <2> SUFFICES ASSUME PipeInv, PipeInv', CountInv, [PipeNext]_pvars PROVE CountInv'
    OBVIOUS
  <2>1. ASSUME NEW d \in Dev,
               Probe(d) \/ MakeRing(d) \/ LookUp(d) \/ ConfigHw(d)
        PROVE  CountInv'
    <3>1. UNCHANGED <<ring, burst, deaths, cnt>>
      BY <2>1 DEF Probe, MakeRing, LookUp, ConfigHw
    <3>2. \A e \in Dev : stage[e] \in {"whole", "up"} => stage'[e] \in {"whole", "up"}
      BY <2>1 DEF Probe, MakeRing, LookUp, FailedAt, ConfigHw, PipeInv, PipeTypeOK
    <3> QED
      BY <3>1, <3>2, OthersAgree
  <2>2. ASSUME NEW d \in Dev, FromRings(d)
        PROVE  CountInv'
    BY <2>2, OthersAgree
  <2>3. ASSUME NEW d \in Dev, NEW q \in Que,
               RxBurst(d, q) \/ \E s \in Sendable(Owner(d)) : TxBurst(d, q, s)
        PROVE  CountInv'
    BY <2>3, RxBurstAgrees, TxBurstAgrees
  <2>4. CASE Die
    <3>1. deaths' \in Nat \ {0}
      BY <2>4 DEF Die, CountInv
    <3> QED
      BY <3>1, OthersAgree
  <2>5. ASSUME NEW p \in Process, Count(p) PROVE CountInv'
    BY <2>5, CountAgrees
  <2>6. ASSUME NEW p \in Process, NEW x \in Pkt, Come(p, x) \/ Go(p, x) PROVE CountInv'
    BY <2>6, OthersAgree DEF Come, Go
  <2>7. ASSUME NEW d \in Net, TakeStats(d) \/ ReadQueue(d) \/ GiveStats(d) PROVE CountInv'
    BY <2>7, OthersAgree DEF TakeStats, ReadQueue, GiveStats
  <2>8. CASE UNCHANGED pvars
    BY <2>8, OthersAgree DEF pvars
  <2> QED
    BY <2>1, <2>2, <2>3, <2>4, <2>5, <2>6, <2>7, <2>8 DEF PipeNext
<1>3. PipeInv /\ CountInv /\ FiguresOK => CountersAgree
  <2> SUFFICES ASSUME PipeInv, CountInv, FiguresOK PROVE CountersAgree
    OBVIOUS
  <2>1. ASSUME deaths = 0, NEW d \in Dev, NEW e \in Dev, NEW q \in Que, d # e,
               stage[d] = "up", stage[e] = "up", dev[d].tx[q + 1] = dev[e].rx[q + 1]
        PROVE  (cnt[e][q].rx + Pending(e, q, "rx") + Len(ring[dev[d].tx[q + 1]])) % Wrap
                 = (cnt[d][q].tx + Pending(d, q, "tx")) % Wrap
    <3>1. dev[d].tx[q + 1] = TxName(d, q) /\ TxName(d, q) = RxName(e, q)
      BY <2>1, QueueHasRings
    <3>2. Agree(d, e, q)
      BY <2>1, <3>1, FeedsByRing DEF CountInv
    <3> QED
      BY <3>1, <3>2 DEF Agree
  <2> QED
    BY <2>1 DEF CountersAgree, FiguresOK
<1>4. PipeSpec => []CountInv /\ []FiguresOK
  BY <1>1, <1>2, FiguresKeep, PipeTypeCorrect, PTL DEF PipeSpec
<1> QED
  BY <1>3, <1>4, PipeTypeCorrect, PTL
=============================================================================
