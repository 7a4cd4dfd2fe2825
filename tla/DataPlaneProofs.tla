--------------------------- MODULE DataPlaneProofs --------------------------
(***************************************************************************)
(* Proofs about the data plane, for any number of VNFs, ports, queues,     *)
(* vcores, packet buffers and flows, and for bursts, rings and descriptor  *)
(* queues of any size: types, owners of packet buffers, figures per second *)
(* and, where every worker has one transmit queue, the order of flows.     *)
(***************************************************************************)
EXTENDS DataPlane, MaAccessProofs, TLAPS

Place == {"off", "poll", "counted", "work", "sent"}
Accessor == Port \X {"rx", "tx"} \X Queue

DataTypeOK ==
  /\ setup \in Setup
  /\ chan \in [Chan -> [Queue -> Seq(Mbuf)]]
  /\ pool \subseteq Mbuf
  /\ rr \in [Accessor -> Nat]
  /\ pc \in [Worker -> Place] /\ pid \in [Worker -> Pid]
  /\ mbufs \in [Worker -> Seq(Mbuf)]
  /\ i \in [Worker -> Nat \ {0}] /\ dst \in [Worker -> Pid] /\ n_send \in [Worker -> Nat]
  /\ reg \in [Worker -> Nat]
  /\ held \in [Worker -> SUBSET Mbuf]
  /\ sum \in Nat /\ ticking \in BOOLEAN /\ owed \in Int /\ raced \in BOOLEAN
  /\ misuse \in BOOLEAN

(* Where a worker is in the loop over its burst.                           *)
Loop(w) ==
  /\ pc[w] # "off" => Active(w)
  /\ pc[w] \in {"poll", "counted", "work"} => n_send[w] = 0
  /\ pc[w] \in {"poll", "counted"} \/ Prog(w) \in {"l2fwd", "l2fwd_numa"} => i[w] = 1
  /\ pc[w] = "poll" => mbufs[w] = <<>>
  /\ pc[w] \in {"work", "sent"} => i[w] <= Len(mbufs[w])
  /\ pc[w] = "sent" => n_send[w] <= IF Prog(w) \in {"l3fwd", "acl"} THEN 1 ELSE Len(mbufs[w])
  /\ pc[w] = "counted" => RxCounter(w) = setup.watch

RoomOK == \A c \in Chan, q \in Queue : Len(chan[c][q]) <= Room(c)

(* An accessor's index stays within its share of the queues.               *)
TurnsOK ==
  \A w \in Worker, x \in Pid, aid \in Queue : Active(w) =>
    /\ rr[<<PortOf[w[1]][x], "rx", aid>>] < Share(NRxAcc(w))
    /\ rr[<<PortOf[w[1]][x], "tx", aid>>] < Share(NTxAcc(w))

DataInv == DataTypeOK /\ (\A w \in Worker : Loop(w)) /\ RoomOK /\ TurnsOK

-----------------------------------------------------------------------------
(* The queue that an accessor's turn gives is one of the port's.           *)
LEMMA TurnIsQueue ==
  ASSUME NEW n \in Nat \ {0}, Divides(n, NQueue), NEW aid \in 0 .. n - 1,
         NEW r \in Nat, r < Share(n)
  PROVE  aid * Share(n) + r \in Queue
<1>1. NQueue \in Nat
  BY DataPlaneAssumption
<1>2. aid \in Accessors(n) /\ aid \in Nat
  BY DEF Accessors
<1>3. Share(n) \in Nat
  BY <1>1, ShareIsExact DEF Share
<1>4. aid * Share(n) + r \in QidsOfAid(aid, n, NQueue)
  <2>1. r \in 0 .. (NQueue \div n) - 1
    BY <1>3 DEF Share
  <2> QED
    BY <2>1 DEF QidsOfAid, Share
<1> QED
  BY <1>1, <1>2, <1>4, RunsAreQueues DEF Queue

LEMMA SharesArePositive ==
  ASSUME NEW n \in Nat \ {0}, Divides(n, NQueue)
  PROVE  Share(n) \in Nat \ {0}
<1>1. NQueue \in Nat \ {0}
  BY DataPlaneAssumption
<1>2. Share(n) \in Nat /\ NQueue = n * Share(n)
  BY <1>1, ShareIsExact DEF Share
<1> QED
  BY <1>1, <1>2

(* What deploying has checked of an active worker's accessors. *)
LEMMA AccessorsOf ==
  ASSUME DataTypeOK, NEW w \in Worker, Active(w)
  PROVE  /\ NRxAcc(w) \in Nat \ {0} /\ Divides(NRxAcc(w), NQueue)
         /\ NTxAcc(w) \in Nat \ {0} /\ Divides(NTxAcc(w), NQueue)
         /\ RxAid(w) \in 0 .. NRxAcc(w) - 1 /\ TxAid(w) \in 0 .. NTxAcc(w) - 1
         /\ RxAid(w) \in Queue /\ TxAid(w) \in Queue
<1>1. w[1] \in Vnf /\ w[2] \in Pid /\ w[3] \in Queue
  BY DEF Worker
<1>2. Cores(w) \in Nat \ {0} /\ w[3] \in Nat /\ w[3] < Cores(w)
  <2>1. Cores(w) \in Nat
    BY <1>1, DataPlaneAssumption DEF DataTypeOK, Cores
  <2>2. w[3] \in Nat
    BY <1>1, DataPlaneAssumption DEF Queue, Queues
  <2> QED
    BY <2>1, <2>2 DEF Active
<1>d. Divides(Cores(w), NQueue) /\ Divides(NTxAcc(w), NQueue)
  <2>1. setup \in Setup /\ w[1] \in Vnf /\ setup.cores[w[1]] > 0
    BY <1>1, <1>2 DEF DataTypeOK, Cores
  <2>2. \A s \in Setup : \A v \in Vnf : s.cores[v] > 0 =>
          /\ Divides(s.cores[v], NQueue)
          /\ Divides(TxAccessors(s.prog[v], s.cores[v]), NQueue)
    BY DataPlaneAssumption
  <2> QED
    BY <2>1, <2>2 DEF NTxAcc, Cores, Prog
<1>3. NRxAcc(w) \in Nat \ {0} /\ Divides(NRxAcc(w), NQueue)
  BY <1>2, <1>d DEF NRxAcc
<1>4. NTxAcc(w) \in Nat \ {0} /\ Divides(NTxAcc(w), NQueue)
  BY <1>2, <1>d DEF NTxAcc, TxAccessors
<1>5. RxAid(w) \in 0 .. NRxAcc(w) - 1
  BY <1>2 DEF RxAid, NRxAcc
<1>6. TxAid(w) \in 0 .. NTxAcc(w) - 1
  <2>1. CASE PerPort(w)
    <3>1. NTxAcc(w) = 2 * Cores(w) /\ TxAid(w) = w[2] * Cores(w) + w[3]
      BY <2>1 DEF NTxAcc, TxAccessors, TxAid, PerPort
    <3>2. w[2] = 0 \/ w[2] = 1
      BY <1>1 DEF Pid
    <3> QED
      BY <1>2, <3>1, <3>2
  <2>2. CASE ~ PerPort(w)
    BY <1>2, <2>2 DEF NTxAcc, TxAccessors, TxAid, PerPort
  <2> QED
    BY <2>1, <2>2
<1>7. ASSUME NEW n \in Nat \ {0}, Divides(n, NQueue), NEW aid \in 0 .. n - 1
      PROVE  aid \in Queue
  <2>1. NQueue \in Nat /\ Share(n) \in Nat \ {0} /\ NQueue = n * Share(n)
    BY <1>7, DataPlaneAssumption, ShareIsExact, SharesArePositive DEF Share
  <2>2. n <= n * Share(n)
    BY <2>1
  <2> QED
    BY <2>1, <2>2 DEF Queue, Queues
<1> QED
  BY <1>3, <1>4, <1>5, <1>6, <1>7

LEMMA RoomIsPositive == \A c : Room(c) \in Nat \ {0}
BY DataPlaneAssumption DEF Room

LEMMA OutPidIsPid ==
  ASSUME DataTypeOK, NEW w \in Worker
  PROVE  OutPid(w) \in Pid
BY DEF DataTypeOK, OutPid, Pid

LEMMA PortsOf ==
  ASSUME NEW w \in Worker, NEW x \in Pid
  PROVE  /\ PortOf[w[1]][x] \in Port
         /\ TxChan(PortOf[w[1]][x]) \in Chan /\ RxChan(PortOf[w[1]][x]) \in Chan
BY DataPlaneAssumption DEF Worker, Chan

(* Taking a turn keeps the index in the share of every worker's accessor.  *)
LEMMA RxTurn ==
  ASSUME DataInv, NEW w \in Worker, Active(w), NEW x \in Pid,
         rr' = NextTurn(<<PortOf[w[1]][x], "rx", RxAid(w)>>, NRxAcc(w)), UNCHANGED setup
  PROVE  /\ Turn(<<PortOf[w[1]][x], "rx", RxAid(w)>>, RxAid(w), NRxAcc(w)) \in Queue
         /\ rr' \in [Accessor -> Nat] /\ TurnsOK'
<1> DEFINE a == <<PortOf[w[1]][x], "rx", RxAid(w)>>
           n == NRxAcc(w)
<1>1. n \in Nat \ {0} /\ Divides(n, NQueue) /\ RxAid(w) \in 0 .. n - 1 /\ RxAid(w) \in Queue
  BY AccessorsOf DEF DataInv
<1>2. a \in Accessor /\ rr[a] \in Nat /\ rr[a] < Share(n)
  <2>1. a \in Accessor
    BY <1>1, PortsOf DEF Accessor
  <2> QED
    BY <1>1, <2>1 DEF DataInv, DataTypeOK, TurnsOK
<1>3. Turn(a, RxAid(w), n) \in Queue
  BY <1>1, <1>2, TurnIsQueue DEF Turn
<1>4. Share(n) \in Nat \ {0}
  BY <1>1, SharesArePositive
<1>5. (rr[a] + 1) % Share(n) \in Nat /\ (rr[a] + 1) % Share(n) < Share(n)
  BY <1>2, <1>4
<1>6. rr' = [rr EXCEPT ![a] = (rr[a] + 1) % Share(n)]
  BY DEF NextTurn
<1>7. rr' \in [Accessor -> Nat]
  BY <1>2, <1>5, <1>6 DEF DataInv, DataTypeOK
<1>8. TurnsOK'
  <2> SUFFICES ASSUME NEW u \in Worker, NEW y \in Pid, NEW aid \in Queue, Active(u)
               PROVE  /\ rr'[<<PortOf[u[1]][y], "rx", aid>>] < Share(NRxAcc(u))
                      /\ rr'[<<PortOf[u[1]][y], "tx", aid>>] < Share(NTxAcc(u))
    BY DEF TurnsOK, Active, NRxAcc, NTxAcc, Cores, Prog, PerPort
  <2>1. <<PortOf[u[1]][y], "rx", aid>> \in Accessor /\ <<PortOf[u[1]][y], "tx", aid>> \in Accessor
    BY PortsOf DEF Accessor
  <2>2. rr[<<PortOf[u[1]][y], "rx", aid>>] < Share(NRxAcc(u))
    BY DEF DataInv, TurnsOK
  <2>3. rr[<<PortOf[u[1]][y], "tx", aid>>] < Share(NTxAcc(u))
    BY DEF DataInv, TurnsOK
  <2>4. CASE <<PortOf[u[1]][y], "rx", aid>> = a
    <3>1. PortOf[u[1]][y] = PortOf[w[1]][x] /\ u[1] \in Vnf /\ w[1] \in Vnf
      BY <2>4 DEF Worker
    <3>2. u[1] = w[1]
      BY <3>1, DataPlaneAssumption
    <3>3. NRxAcc(u) = n
      BY <3>2 DEF NRxAcc, Cores
    <3> HIDE DEF n
    <3>4. rr'[<<PortOf[u[1]][y], "rx", aid>>] < Share(n)
      BY <1>2, <1>5, <1>6, <2>4 DEF DataInv, DataTypeOK
    <3>5. rr'[<<PortOf[u[1]][y], "tx", aid>>] = rr[<<PortOf[u[1]][y], "tx", aid>>]
      BY <1>6, <2>1 DEF DataInv, DataTypeOK
    <3> QED
      BY <2>3, <3>3, <3>4, <3>5
  <2>5. CASE <<PortOf[u[1]][y], "rx", aid>> # a
    <3>1. rr'[<<PortOf[u[1]][y], "rx", aid>>] = rr[<<PortOf[u[1]][y], "rx", aid>>]
      BY <1>6, <2>1, <2>5 DEF DataInv, DataTypeOK
    <3>2. rr'[<<PortOf[u[1]][y], "tx", aid>>] = rr[<<PortOf[u[1]][y], "tx", aid>>]
      BY <1>6, <2>1 DEF DataInv, DataTypeOK
    <3> QED
      BY <2>2, <2>3, <3>1, <3>2
  <2> QED
    BY <2>4, <2>5
<1> QED
  BY <1>3, <1>7, <1>8

LEMMA TxTurn ==
  ASSUME DataInv, NEW w \in Worker, Active(w), NEW x \in Pid,
         rr' = NextTurn(<<PortOf[w[1]][x], "tx", TxAid(w)>>, NTxAcc(w)), UNCHANGED setup
  PROVE  /\ Turn(<<PortOf[w[1]][x], "tx", TxAid(w)>>, TxAid(w), NTxAcc(w)) \in Queue
         /\ rr' \in [Accessor -> Nat] /\ TurnsOK'
<1> DEFINE a == <<PortOf[w[1]][x], "tx", TxAid(w)>>
           n == NTxAcc(w)
<1>1. n \in Nat \ {0} /\ Divides(n, NQueue) /\ TxAid(w) \in 0 .. n - 1 /\ TxAid(w) \in Queue
  BY AccessorsOf DEF DataInv
<1>2. a \in Accessor /\ rr[a] \in Nat /\ rr[a] < Share(n)
  <2>1. a \in Accessor
    BY <1>1, PortsOf DEF Accessor
  <2> QED
    BY <1>1, <2>1 DEF DataInv, DataTypeOK, TurnsOK
<1>3. Turn(a, TxAid(w), n) \in Queue
  BY <1>1, <1>2, TurnIsQueue DEF Turn
<1>4. Share(n) \in Nat \ {0}
  BY <1>1, SharesArePositive
<1>5. (rr[a] + 1) % Share(n) \in Nat /\ (rr[a] + 1) % Share(n) < Share(n)
  BY <1>2, <1>4
<1>6. rr' = [rr EXCEPT ![a] = (rr[a] + 1) % Share(n)]
  BY DEF NextTurn
<1>7. rr' \in [Accessor -> Nat]
  BY <1>2, <1>5, <1>6 DEF DataInv, DataTypeOK
<1>8. TurnsOK'
  <2> SUFFICES ASSUME NEW u \in Worker, NEW y \in Pid, NEW aid \in Queue, Active(u)
               PROVE  /\ rr'[<<PortOf[u[1]][y], "rx", aid>>] < Share(NRxAcc(u))
                      /\ rr'[<<PortOf[u[1]][y], "tx", aid>>] < Share(NTxAcc(u))
    BY DEF TurnsOK, Active, NRxAcc, NTxAcc, Cores, Prog, PerPort
  <2>1. <<PortOf[u[1]][y], "rx", aid>> \in Accessor /\ <<PortOf[u[1]][y], "tx", aid>> \in Accessor
    BY PortsOf DEF Accessor
  <2>2. rr[<<PortOf[u[1]][y], "rx", aid>>] < Share(NRxAcc(u))
    BY DEF DataInv, TurnsOK
  <2>3. rr[<<PortOf[u[1]][y], "tx", aid>>] < Share(NTxAcc(u))
    BY DEF DataInv, TurnsOK
  <2>4. CASE <<PortOf[u[1]][y], "tx", aid>> = a
    <3>1. PortOf[u[1]][y] = PortOf[w[1]][x] /\ u[1] \in Vnf /\ w[1] \in Vnf
      BY <2>4 DEF Worker
    <3>2. u[1] = w[1]
      BY <3>1, DataPlaneAssumption
    <3>3. NTxAcc(u) = n
      BY <3>2 DEF NTxAcc, Cores, Prog
    <3> HIDE DEF n
    <3>4. rr'[<<PortOf[u[1]][y], "tx", aid>>] < Share(n)
      BY <1>2, <1>5, <1>6, <2>4 DEF DataInv, DataTypeOK
    <3>5. rr'[<<PortOf[u[1]][y], "rx", aid>>] = rr[<<PortOf[u[1]][y], "rx", aid>>]
      BY <1>6, <2>1 DEF DataInv, DataTypeOK
    <3> QED
      BY <2>2, <3>3, <3>4, <3>5
  <2>5. CASE <<PortOf[u[1]][y], "tx", aid>> # a
    <3>1. rr'[<<PortOf[u[1]][y], "tx", aid>>] = rr[<<PortOf[u[1]][y], "tx", aid>>]
      BY <1>6, <2>1, <2>5 DEF DataInv, DataTypeOK
    <3>2. rr'[<<PortOf[u[1]][y], "rx", aid>>] = rr[<<PortOf[u[1]][y], "rx", aid>>]
      BY <1>6, <2>1 DEF DataInv, DataTypeOK
    <3> QED
      BY <2>2, <2>3, <3>1, <3>2
  <2> QED
    BY <2>4, <2>5
<1> QED
  BY <1>3, <1>7, <1>8

-----------------------------------------------------------------------------
(* Counting keeps the types of the counters. *)
CountersOK ==
  /\ reg \in [Worker -> Nat]
  /\ sum \in Nat /\ ticking \in BOOLEAN /\ owed \in Int /\ raced \in BOOLEAN

LEMMA LoadKeepsTypes ==
  ASSUME CountersOK, NEW w \in Worker, NEW k, Load(w, k)
  PROVE  CountersOK'
<1>1. CASE k = setup.watch
  <2>1. reg' = [reg EXCEPT ![w] = sum] /\ UNCHANGED <<sum, ticking>>
    BY <1>1 DEF Load
  <2>2. raced' = (raced \/ BeingCounted \/ ticking)
    BY <1>1 DEF Load
  <2>3. owed' = IF raced' THEN 0 ELSE owed
    BY <1>1 DEF Load
  <2>4. reg' \in [Worker -> Nat]
    BY <2>1 DEF CountersOK
  <2>5. raced' \in BOOLEAN
    BY <2>2
  <2> QED
    BY <2>1, <2>3, <2>4, <2>5 DEF CountersOK
<1>2. CASE k # setup.watch
  BY <1>2 DEF Load, CountersOK, countVars
<1> QED
  BY <1>1, <1>2

LEMMA StoreKeepsTypes ==
  ASSUME CountersOK, NEW w \in Worker, NEW k, NEW n \in Nat, Store(w, k, n)
  PROVE  CountersOK'
<1>1. CASE k = setup.watch
  BY <1>1 DEF Store, CountersOK
<1>2. CASE k # setup.watch
  BY <1>2 DEF Store, CountersOK, countVars
<1> QED
  BY <1>1, <1>2

LEMMA OthersLoopOn ==
  ASSUME DataInv, NEW w \in Worker, UNCHANGED setup, Loop(w)',
         \A u \in Worker \ {w} :
           /\ pc'[u] = pc[u] /\ pid'[u] = pid[u] /\ mbufs'[u] = mbufs[u] /\ i'[u] = i[u]
           /\ n_send'[u] = n_send[u]
  PROVE  \A u \in Worker : Loop(u)'
<1> SUFFICES ASSUME NEW u \in Worker, u # w
             PROVE  Loop(u)'
  OBVIOUS
<1> QED
  BY DEF DataInv, Loop, Active, Cores, PerPort, Prog, RxCounter, InPort

(* A part of a queue joins another queue with room for it.                 *)
LEMMA QueueGrows ==
  ASSUME DataInv, NEW c \in Chan, NEW q \in Queue, NEW out \in Seq(Mbuf),
         Len(chan[c][q]) + Len(out) <= Room(c),
         chan' = [chan EXCEPT ![c][q] = @ \o out]
  PROVE  /\ chan' \in [Chan -> [Queue -> Seq(Mbuf)]]
         /\ \A d \in Chan, r \in Queue :
              chan'[d][r] = IF d = c /\ r = q THEN chan[c][q] \o out ELSE chan[d][r]
         /\ RoomOK'
<1>1. chan[c][q] \in Seq(Mbuf) /\ chan[c][q] \o out \in Seq(Mbuf)
  BY DEF DataInv, DataTypeOK
<1>2. chan' \in [Chan -> [Queue -> Seq(Mbuf)]]
  BY <1>1 DEF DataInv, DataTypeOK
<1>3. \A d \in Chan, r \in Queue :
        chan'[d][r] = IF d = c /\ r = q THEN chan[c][q] \o out ELSE chan[d][r]
  BY DEF DataInv, DataTypeOK
<1>4. Len(chan[c][q] \o out) = Len(chan[c][q]) + Len(out)
  BY <1>1
<1> QED
  BY <1>2, <1>3, <1>4 DEF DataInv, RoomOK, Room

(* The front of a queue leaves it. *)
LEMMA QueueShrinks ==
  ASSUME DataInv, NEW c \in Chan, NEW q \in Queue, NEW n \in 0 .. Len(chan[c][q]),
         chan' = [chan EXCEPT ![c][q] = SubSeq(chan[c][q], n + 1, Len(chan[c][q]))]
  PROVE  /\ chan' \in [Chan -> [Queue -> Seq(Mbuf)]]
         /\ \A d \in Chan, r \in Queue :
              chan'[d][r] = IF d = c /\ r = q THEN SubSeq(chan[c][q], n + 1, Len(chan[c][q]))
                            ELSE chan[d][r]
         /\ SubSeq(chan[c][q], 1, n) \in Seq(Mbuf) /\ Len(SubSeq(chan[c][q], 1, n)) = n
         /\ RoomOK'
<1>1. chan[c][q] \in Seq(Mbuf) /\ Len(chan[c][q]) \in Nat
  BY DEF DataInv, DataTypeOK
<1>2. SubSeq(chan[c][q], n + 1, Len(chan[c][q])) \in Seq(Mbuf)
  BY <1>1
<1>3. Len(SubSeq(chan[c][q], n + 1, Len(chan[c][q]))) = Len(chan[c][q]) - n
  BY <1>1
<1>4. SubSeq(chan[c][q], 1, n) \in Seq(Mbuf) /\ Len(SubSeq(chan[c][q], 1, n)) = n
  BY <1>1
<1>5. chan' \in [Chan -> [Queue -> Seq(Mbuf)]]
  BY <1>2 DEF DataInv, DataTypeOK
<1>6. \A d \in Chan, r \in Queue :
        chan'[d][r] = IF d = c /\ r = q THEN SubSeq(chan[c][q], n + 1, Len(chan[c][q]))
                      ELSE chan[d][r]
  BY DEF DataInv, DataTypeOK
<1>7. RoomOK'
  <2> SUFFICES ASSUME NEW d \in Chan, NEW r \in Queue
               PROVE  Len(chan'[d][r]) <= Room(d)
    BY DEF RoomOK, Room
  <2>1. CASE d = c /\ r = q
    <3>1. Len(chan'[d][r]) = Len(chan[c][q]) - n
      BY <1>3, <1>6, <2>1
    <3>2. Len(chan[c][q]) <= Room(d)
      BY <2>1 DEF DataInv, RoomOK
    <3>3. Room(d) \in Nat /\ Len(chan[c][q]) \in Nat /\ n \in Nat
      BY <1>1, RoomIsPositive
    <3>4. \A x, y \in Nat : x <= y => x - n <= y
      BY <3>3
    <3> QED
      BY <3>1, <3>2, <3>3, <3>4
  <2>2. CASE ~ (d = c /\ r = q)
    <3>1. chan'[d][r] = chan[d][r]
      BY <1>6, <2>2
    <3> QED
      BY <3>1 DEF DataInv, RoomOK
  <2> QED
    BY <2>1, <2>2
<1> QED
  BY <1>4, <1>5, <1>6, <1>7

-----------------------------------------------------------------------------
(* What a tx_burst of s sends where: its first n packets.                  *)
TxTo(w) == TxChan(PortOf[w[1]][OutPid(w)])
TxQueue(w) == Turn(<<PortOf[w[1]][OutPid(w)], "tx", TxAid(w)>>, TxAid(w), NTxAcc(w))

LEMMA TxBurstMoves ==
  ASSUME DataInv, NEW w \in Worker, pc[w] = "work", NEW s \in Seq(Mbuf), TxBurst(w, s)
  PROVE  /\ TxTo(w) \in Chan /\ TxQueue(w) \in Queue
         /\ \E n \in 0 .. Len(s) :
              /\ Len(SubSeq(s, 1, n)) = n /\ SubSeq(s, 1, n) \in Seq(Mbuf)
              /\ Len(chan[TxTo(w)][TxQueue(w)]) + n <= Room(TxTo(w))
              /\ chan' = [chan EXCEPT ![TxTo(w)][TxQueue(w)] = @ \o SubSeq(s, 1, n)]
              /\ n_send' = [n_send EXCEPT ![w] = n]
              /\ held' = [held EXCEPT ![w] = @ \ ToSet(SubSeq(s, 1, n))]
         /\ rr' \in [Accessor -> Nat] /\ TurnsOK'
<1>1. Active(w)
  BY DEF DataInv, Loop
<1>2. OutPid(w) \in Pid
  BY OutPidIsPid DEF DataInv
<1>3. rr' = NextTurn(<<PortOf[w[1]][OutPid(w)], "tx", TxAid(w)>>, NTxAcc(w)) /\ UNCHANGED setup
  BY DEF TxBurst
<1>4. TxTo(w) \in Chan
  BY <1>2, PortsOf DEF TxTo
<1>5. TxQueue(w) \in Queue /\ rr' \in [Accessor -> Nat] /\ TurnsOK'
  BY <1>1, <1>2, <1>3, TxTurn DEF TxQueue
<1> DEFINE free == Room(TxTo(w)) - Len(chan[TxTo(w)][TxQueue(w)])
           n == IF Len(s) < free THEN Len(s) ELSE free
<1>6. Len(chan[TxTo(w)][TxQueue(w)]) \in Nat /\ Room(TxTo(w)) \in Nat
  BY <1>4, <1>5, RoomIsPositive DEF DataInv, DataTypeOK
<1>7. Len(chan[TxTo(w)][TxQueue(w)]) <= Room(TxTo(w))
  BY <1>4, <1>5 DEF DataInv, RoomOK
<1>8. free \in Nat /\ Len(s) \in Nat
  BY <1>6, <1>7
<1>9. n \in 0 .. Len(s) /\ n <= free
  BY <1>8
<1>10. Len(chan[TxTo(w)][TxQueue(w)]) + n <= Room(TxTo(w))
  BY <1>6, <1>9
<1>11. Len(SubSeq(s, 1, n)) = n /\ SubSeq(s, 1, n) \in Seq(Mbuf)
  BY <1>9
<1>12. /\ chan' = [chan EXCEPT ![TxTo(w)][TxQueue(w)] = @ \o SubSeq(s, 1, n)]
       /\ n_send' = [n_send EXCEPT ![w] = n]
       /\ held' = [held EXCEPT ![w] = @ \ ToSet(SubSeq(s, 1, n))]
  BY DEF TxBurst, TxTo, TxQueue
<1> HIDE DEF n
<1> QED
  BY <1>4, <1>5, <1>9, <1>10, <1>11, <1>12

LEMMA TxBurstKeepsTypes ==
  ASSUME DataInv, NEW w \in Worker, pc[w] = "work", NEW s \in Seq(Mbuf), TxBurst(w, s),
         Len(s) <= IF Prog(w) \in {"l3fwd", "acl"} THEN 1 ELSE Len(mbufs[w])
  PROVE  DataInv'
<1>1. PICK n \in 0 .. Len(s) :
        /\ Len(SubSeq(s, 1, n)) = n /\ SubSeq(s, 1, n) \in Seq(Mbuf)
        /\ Len(chan[TxTo(w)][TxQueue(w)]) + n <= Room(TxTo(w))
        /\ chan' = [chan EXCEPT ![TxTo(w)][TxQueue(w)] = @ \o SubSeq(s, 1, n)]
        /\ n_send' = [n_send EXCEPT ![w] = n]
        /\ held' = [held EXCEPT ![w] = @ \ ToSet(SubSeq(s, 1, n))]
  BY TxBurstMoves
<1>2. TxTo(w) \in Chan /\ TxQueue(w) \in Queue /\ rr' \in [Accessor -> Nat] /\ TurnsOK'
  BY TxBurstMoves
<1>3. chan' \in [Chan -> [Queue -> Seq(Mbuf)]] /\ RoomOK'
  BY <1>1, <1>2, QueueGrows
<1>4. CountersOK'
  <2>1. CountersOK
    BY DEF DataInv, DataTypeOK, CountersOK
  <2> QED
    BY <2>1, LoadKeepsTypes DEF TxBurst
<1>5. /\ UNCHANGED <<setup, pool, pkt, pid, mbufs, i, wireVars>>
      /\ pc' = [pc EXCEPT ![w] = "sent"] /\ dst' = [dst EXCEPT ![w] = OutPid(w)]
  BY DEF TxBurst
<1>6. misuse' \in BOOLEAN
  BY DEF TxBurst, DataInv, DataTypeOK
<1>7. OutPid(w) \in Pid /\ n \in Nat /\ Len(s) \in Nat
  BY OutPidIsPid DEF DataInv
<1>8. DataTypeOK'
  <2>1. pc' \in [Worker -> Place]
    BY <1>5 DEF DataInv, DataTypeOK, Place
  <2>2. dst' \in [Worker -> Pid] /\ n_send' \in [Worker -> Nat]
    BY <1>1, <1>5, <1>7 DEF DataInv, DataTypeOK
  <2>3. held' \in [Worker -> SUBSET Mbuf]
    BY <1>1 DEF DataInv, DataTypeOK
  <2> QED
    BY <1>2, <1>3, <1>4, <1>5, <1>6, <2>1, <2>2, <2>3 DEF DataInv, DataTypeOK, CountersOK
<1>9. Loop(w)'
  <2>1. pc'[w] = "sent" /\ n_send'[w] = n
    BY <1>1, <1>5 DEF DataInv, DataTypeOK
  <2>2. n <= IF Prog(w) \in {"l3fwd", "acl"} THEN 1 ELSE Len(mbufs[w])
    BY <1>7 DEF DataInv, DataTypeOK
  <2> QED
    BY <1>5, <2>1, <2>2 DEF DataInv, Loop, Active, Cores, PerPort, Prog
<1>10. \A u \in Worker : Loop(u)'
  <2>1. \A u \in Worker \ {w} :
          /\ pc'[u] = pc[u] /\ pid'[u] = pid[u] /\ mbufs'[u] = mbufs[u] /\ i'[u] = i[u]
          /\ n_send'[u] = n_send[u]
    BY <1>1, <1>5 DEF DataInv, DataTypeOK
  <2> QED
    BY <1>5, <1>9, <2>1, OthersLoopOn
<1> QED
  BY <1>2, <1>3, <1>8, <1>10 DEF DataInv

-----------------------------------------------------------------------------
(* The other steps of a worker. *)
LoopTypes ==
  /\ pc \in [Worker -> Place] /\ pid \in [Worker -> Pid]
  /\ mbufs \in [Worker -> Seq(Mbuf)]
  /\ i \in [Worker -> Nat \ {0}] /\ dst \in [Worker -> Pid] /\ n_send \in [Worker -> Nat]

LEMMA NextPollLoops ==
  ASSUME DataInv, NEW w \in Worker, Active(w), NextPoll(w), UNCHANGED setup
  PROVE  LoopTypes' /\ \A u \in Worker : Loop(u)'
<1>1. pid' \in [Worker -> Pid]
  BY DEF NextPoll, DataInv, DataTypeOK, Pid
<1>2. LoopTypes'
  BY <1>1 DEF NextPoll, DataInv, DataTypeOK, LoopTypes, Place, Pid
<1>3. Loop(w)'
  BY DEF NextPoll, DataInv, DataTypeOK, Loop, Active, Cores, PerPort, Prog
<1>4. \A u \in Worker \ {w} :
        /\ pc'[u] = pc[u] /\ pid'[u] = pid[u] /\ mbufs'[u] = mbufs[u] /\ i'[u] = i[u]
        /\ n_send'[u] = n_send[u]
  BY DEF NextPoll, DataInv, DataTypeOK
<1> QED
  BY <1>2, <1>3, <1>4, OthersLoopOn

LEMMA NextPacketLoops ==
  ASSUME DataInv, NEW w \in Worker, pc[w] \in {"work", "sent"}, Prog(w) \in {"l3fwd", "acl"},
         NextPacket(w), UNCHANGED setup
  PROVE  LoopTypes' /\ \A u \in Worker : Loop(u)'
<1>1. Active(w)
  BY DEF DataInv, Loop
<1>2. CASE i[w] < Len(mbufs[w])
  <2>1. /\ i' = [i EXCEPT ![w] = @ + 1] /\ dst' = [dst EXCEPT ![w] = 0]
        /\ n_send' = [n_send EXCEPT ![w] = 0] /\ pc' = [pc EXCEPT ![w] = "work"]
        /\ UNCHANGED <<pid, mbufs>>
    BY <1>2 DEF NextPacket
  <2>2. LoopTypes'
    BY <2>1 DEF DataInv, DataTypeOK, LoopTypes, Place, Pid
  <2>3. i'[w] <= Len(mbufs'[w])
    BY <1>2, <2>1 DEF DataInv, DataTypeOK
  <2>4. Loop(w)'
    BY <1>1, <2>1, <2>3 DEF DataInv, DataTypeOK, Loop, Active, Cores, PerPort, Prog
  <2>5. \A u \in Worker \ {w} :
          /\ pc'[u] = pc[u] /\ pid'[u] = pid[u] /\ mbufs'[u] = mbufs[u] /\ i'[u] = i[u]
          /\ n_send'[u] = n_send[u]
    BY <2>1 DEF DataInv, DataTypeOK
  <2> QED
    BY <2>2, <2>4, <2>5, OthersLoopOn
<1>3. CASE ~ (i[w] < Len(mbufs[w]))
  BY <1>1, <1>3, NextPollLoops DEF NextPacket
<1> QED
  BY <1>2, <1>3

LEMMA ReceivedLoops ==
  ASSUME DataInv, NEW w \in Worker, pc[w] \in {"poll", "counted"}, NEW s \in Seq(Mbuf),
         Received(w, s), UNCHANGED setup
  PROVE  LoopTypes' /\ \A u \in Worker : Loop(u)'
<1>1. Active(w) /\ n_send[w] = 0 /\ i[w] = 1
  BY DEF DataInv, Loop
<1>2. CASE s = <<>>
  BY <1>1, <1>2, NextPollLoops DEF Received
<1>3. CASE s # <<>>
  <2>1. /\ mbufs' = [mbufs EXCEPT ![w] = s] /\ pc' = [pc EXCEPT ![w] = "work"]
        /\ UNCHANGED <<pid, i, dst, n_send>>
    BY <1>3 DEF Received
  <2>2. LoopTypes'
    BY <2>1 DEF DataInv, DataTypeOK, LoopTypes, Place
  <2>3. 1 <= Len(s)
    BY <1>3
  <2>4. Loop(w)'
    BY <1>1, <2>1, <2>3 DEF DataInv, DataTypeOK, Loop, Active, Cores, PerPort, Prog
  <2>5. \A u \in Worker \ {w} :
          /\ pc'[u] = pc[u] /\ pid'[u] = pid[u] /\ mbufs'[u] = mbufs[u] /\ i'[u] = i[u]
          /\ n_send'[u] = n_send[u]
    BY <2>1 DEF DataInv, DataTypeOK
  <2> QED
    BY <2>2, <2>4, <2>5, OthersLoopOn
<1> QED
  BY <1>2, <1>3

(* What a poll takes from where: the first n packets. *)
RxFrom(w) == RxChan(InPort(w))
RxQueue(w) == Turn(<<InPort(w), "rx", RxAid(w)>>, RxAid(w), NRxAcc(w))

LEMMA PollMoves ==
  ASSUME DataInv, NEW w \in Worker, Poll(w)
  PROVE  /\ RxFrom(w) \in Chan /\ RxQueue(w) \in Queue
         /\ \E n \in 0 .. Len(chan[RxFrom(w)][RxQueue(w)]) :
              LET s == chan[RxFrom(w)][RxQueue(w)]
                  burst == SubSeq(s, 1, n)
              IN /\ chan' = [chan EXCEPT ![RxFrom(w)][RxQueue(w)] = SubSeq(s, n + 1, Len(s))]
                 /\ held' = [held EXCEPT ![w] = ToSet(burst)]
                 /\ burst \in Seq(Mbuf) /\ Len(burst) = n
                 /\ IF RxCounter(w) = setup.watch
                    THEN /\ pc' = [pc EXCEPT ![w] = "counted"]
                         /\ mbufs' = [mbufs EXCEPT ![w] = burst]
                         /\ UNCHANGED <<pid, i, dst, n_send>>
                    ELSE Received(w, burst)
         /\ rr' \in [Accessor -> Nat] /\ TurnsOK'
<1>1. Active(w)
  BY DEF Poll, DataInv, Loop
<1>2. pid[w] \in Pid /\ InPort(w) = PortOf[w[1]][pid[w]]
  BY DEF DataInv, DataTypeOK, InPort
<1>3. rr' = NextTurn(<<InPort(w), "rx", RxAid(w)>>, NRxAcc(w)) /\ UNCHANGED setup
  BY DEF Poll
<1>4. RxFrom(w) \in Chan
  BY <1>2, PortsOf DEF RxFrom
<1>5. RxQueue(w) \in Queue /\ rr' \in [Accessor -> Nat] /\ TurnsOK'
  BY <1>1, <1>2, <1>3, RxTurn DEF RxQueue
<1> DEFINE s == chan[RxFrom(w)][RxQueue(w)]
           n == IF Len(s) < Burst THEN Len(s) ELSE Burst
<1>6. s \in Seq(Mbuf) /\ Len(s) \in Nat /\ Burst \in Nat
  BY <1>4, <1>5, DataPlaneAssumption DEF DataInv, DataTypeOK
<1>7. n \in 0 .. Len(s)
  BY <1>6
<1>8. SubSeq(s, 1, n) \in Seq(Mbuf) /\ Len(SubSeq(s, 1, n)) = n
  BY <1>6, <1>7
<1>9. /\ chan' = [chan EXCEPT ![RxFrom(w)][RxQueue(w)] = SubSeq(s, n + 1, Len(s))]
      /\ held' = [held EXCEPT ![w] = ToSet(SubSeq(s, 1, n))]
      /\ IF RxCounter(w) = setup.watch
         THEN /\ pc' = [pc EXCEPT ![w] = "counted"]
              /\ mbufs' = [mbufs EXCEPT ![w] = SubSeq(s, 1, n)]
              /\ UNCHANGED <<pid, i, dst, n_send>>
         ELSE Received(w, SubSeq(s, 1, n))
  BY DEF Poll, RxFrom, RxQueue
<1> HIDE DEF n
<1> QED
  BY <1>4, <1>5, <1>7, <1>8, <1>9

LEMMA PollKeepsTypes ==
  ASSUME DataInv, NEW w \in Worker, Poll(w)
  PROVE  DataInv'
<1> DEFINE s == chan[RxFrom(w)][RxQueue(w)]
<1>1. PICK n \in 0 .. Len(s) :
        /\ chan' = [chan EXCEPT ![RxFrom(w)][RxQueue(w)] = SubSeq(s, n + 1, Len(s))]
        /\ held' = [held EXCEPT ![w] = ToSet(SubSeq(s, 1, n))]
        /\ SubSeq(s, 1, n) \in Seq(Mbuf) /\ Len(SubSeq(s, 1, n)) = n
        /\ IF RxCounter(w) = setup.watch
           THEN /\ pc' = [pc EXCEPT ![w] = "counted"]
                /\ mbufs' = [mbufs EXCEPT ![w] = SubSeq(s, 1, n)]
                /\ UNCHANGED <<pid, i, dst, n_send>>
           ELSE Received(w, SubSeq(s, 1, n))
  BY PollMoves
<1>2. /\ RxFrom(w) \in Chan /\ RxQueue(w) \in Queue
      /\ rr' \in [Accessor -> Nat] /\ TurnsOK'
  BY PollMoves
<1>3. chan' \in [Chan -> [Queue -> Seq(Mbuf)]] /\ RoomOK'
  BY <1>1, <1>2, QueueShrinks
<1>4. CountersOK'
  <2>1. CountersOK
    BY DEF DataInv, DataTypeOK, CountersOK
  <2> QED
    BY <2>1, LoadKeepsTypes DEF Poll
<1>5. UNCHANGED <<setup, pool, pkt, wireVars, misuse>> /\ pc[w] = "poll"
  BY DEF Poll
<1> DEFINE burst == SubSeq(s, 1, n)
<1> HIDE DEF s, burst
<1>6. held' \in [Worker -> SUBSET Mbuf]
  <2>1. ToSet(burst) \subseteq Mbuf
    BY <1>1 DEF ToSet, burst
  <2> QED
    BY <1>1, <2>1 DEF DataInv, DataTypeOK, burst
<1>7. LoopTypes' /\ \A u \in Worker : Loop(u)'
  <2>1. CASE RxCounter(w) = setup.watch
    <3>1. /\ pc' = [pc EXCEPT ![w] = "counted"]
          /\ mbufs' = [mbufs EXCEPT ![w] = burst]
          /\ UNCHANGED <<pid, i, dst, n_send>>
      BY <1>1, <2>1 DEF burst
    <3>2. LoopTypes'
      BY <1>1, <3>1 DEF DataInv, DataTypeOK, LoopTypes, Place, burst
    <3>3. Loop(w)'
      BY <1>5, <2>1, <3>1
         DEF DataInv, DataTypeOK, Loop, Active, Cores, PerPort, Prog, RxCounter, InPort
    <3>4. \A u \in Worker \ {w} :
            /\ pc'[u] = pc[u] /\ pid'[u] = pid[u] /\ mbufs'[u] = mbufs[u] /\ i'[u] = i[u]
            /\ n_send'[u] = n_send[u]
      BY <3>1 DEF DataInv, DataTypeOK
    <3> QED
      BY <1>5, <3>2, <3>3, <3>4, OthersLoopOn
  <2>2. CASE RxCounter(w) # setup.watch
    BY <1>1, <1>5, <2>2, ReceivedLoops DEF burst
  <2> QED
    BY <2>1, <2>2
<1> QED
  BY <1>2, <1>3, <1>4, <1>5, <1>6, <1>7 DEF DataInv, DataTypeOK, CountersOK, LoopTypes

LEMMA CountRxKeepsTypes ==
  ASSUME DataInv, NEW w \in Worker, CountRx(w)
  PROVE  DataInv'
<1>1. /\ pc[w] = "counted" /\ Received(w, mbufs[w])
      /\ UNCHANGED <<setup, chan, pool, pkt, rr, held, wireVars, misuse>>
  BY DEF CountRx
<1>2. mbufs[w] \in Seq(Mbuf) /\ Len(mbufs[w]) \in Nat
  BY DEF DataInv, DataTypeOK
<1>3. LoopTypes' /\ \A u \in Worker : Loop(u)'
  BY <1>1, <1>2, ReceivedLoops
<1>4. CountersOK'
  <2>1. CountersOK
    BY DEF DataInv, DataTypeOK, CountersOK
  <2> QED
    BY <1>2, <2>1, StoreKeepsTypes DEF CountRx
<1>5. TurnsOK' /\ RoomOK'
  BY <1>1 DEF DataInv, TurnsOK, RoomOK, Active, NRxAcc, NTxAcc, Cores, Prog, PerPort
<1> QED
  BY <1>1, <1>3, <1>4, <1>5 DEF DataInv, DataTypeOK, CountersOK, LoopTypes

LEMMA PacketOf ==
  ASSUME DataInv, NEW w \in Worker, pc[w] \in {"work", "sent"}
  PROVE  /\ i[w] \in 1 .. Len(mbufs[w]) /\ mbufs[w][i[w]] \in Mbuf
         /\ <<mbufs[w][i[w]]>> \in Seq(Mbuf) /\ Len(<<mbufs[w][i[w]]>>) = 1
<1>1. mbufs[w] \in Seq(Mbuf) /\ i[w] \in Nat \ {0} /\ i[w] <= Len(mbufs[w])
  BY DEF DataInv, DataTypeOK, Loop
<1>2. i[w] \in 1 .. Len(mbufs[w])
  BY <1>1
<1>3. mbufs[w][i[w]] \in Mbuf
  BY <1>1, <1>2
<1> QED
  BY <1>2, <1>3

LEMMA FreeKeepsTypes ==
  ASSUME DataInv, NEW w \in Worker, NEW S \in SUBSET Mbuf, Free(w, S)
  PROVE  /\ pool' \subseteq Mbuf /\ held' \in [Worker -> SUBSET Mbuf] /\ misuse' \in BOOLEAN
BY DEF Free, DataInv, DataTypeOK

LEMMA ForwardKeepsTypes ==
  ASSUME DataInv, NEW w \in Worker, Forward(w)
  PROVE  DataInv'
<1>1. mbufs[w] \in Seq(Mbuf) /\ Len(mbufs[w]) <= Len(mbufs[w])
  BY DEF DataInv, DataTypeOK
<1> QED
  BY <1>1, TxBurstKeepsTypes DEF Forward

LEMMA RouteKeepsTypes ==
  ASSUME DataInv, NEW w \in Worker, Route(w)
  PROVE  DataInv'
<1> DEFINE m == mbufs[w][i[w]]
<1>1. m \in Mbuf /\ <<m>> \in Seq(Mbuf) /\ Len(<<m>>) = 1
  BY PacketOf DEF Route
<1>2. CASE pkt[m].flow.ip4
  <2>1. TxBurst(w, <<m>>) /\ pc[w] = "work" /\ Prog(w) = "l3fwd"
    BY <1>2 DEF Route
  <2> HIDE DEF m
  <2>2. Len(<<m>>) <= IF Prog(w) \in {"l3fwd", "acl"} THEN 1 ELSE Len(mbufs[w])
    BY <1>1, <2>1
  <2> QED
    BY <1>1, <2>1, <2>2, TxBurstKeepsTypes
<1>3. CASE ~ pkt[m].flow.ip4
  <2>1. /\ pool' = pool \cup {m} /\ held' = [held EXCEPT ![w] = @ \ {m}] /\ misuse' = TRUE
        /\ UNCHANGED <<setup, chan, pkt, rr, pc, pid, mbufs, i, dst, n_send, reg, countVars,
                       wireVars>>
    BY <1>3 DEF Route
  <2>2. held' \in [Worker -> SUBSET Mbuf] /\ pool' \subseteq Mbuf
    BY <1>1, <2>1 DEF DataInv, DataTypeOK
  <2>3. TurnsOK' /\ RoomOK'
    BY <2>1 DEF DataInv, TurnsOK, RoomOK, Active, NRxAcc, NTxAcc, Cores, Prog, PerPort
  <2>4. \A u \in Worker : Loop(u)'
    BY <2>1 DEF DataInv, Loop, Active, Cores, PerPort, Prog, RxCounter, InPort
  <2> QED
    BY <2>1, <2>2, <2>3, <2>4 DEF DataInv, DataTypeOK, countVars
<1> QED
  BY <1>2, <1>3

LEMMA FilterKeepsTypes ==
  ASSUME DataInv, NEW w \in Worker, Filter(w)
  PROVE  DataInv'
<1> DEFINE m == mbufs[w][i[w]]
<1>1. /\ m \in Mbuf /\ <<m>> \in Seq(Mbuf) /\ Len(<<m>>) = 1 
      /\ pc[w] = "work" /\ Prog(w) = "acl"
  BY PacketOf DEF Filter
<1>2. CASE m \in held[w] /\ ~ pkt[m].flow.pass
  <2>1. Free(w, {m}) /\ NextPacket(w) /\ UNCHANGED <<setup, chan, rr, reg, countVars, wireVars>>
    BY <1>2 DEF Filter
  <2>2. pool' \subseteq Mbuf /\ held' \in [Worker -> SUBSET Mbuf] /\ misuse' \in BOOLEAN
    BY <1>1, <2>1, FreeKeepsTypes
  <2>3. LoopTypes' /\ \A u \in Worker : Loop(u)'
    BY <1>1, <2>1, NextPacketLoops
  <2>4. TurnsOK' /\ RoomOK'
    BY <2>1 DEF DataInv, TurnsOK, RoomOK, Active, NRxAcc, NTxAcc, Cores, Prog, PerPort
  <2> QED
    BY <2>1, <2>2, <2>3, <2>4 DEF DataInv, DataTypeOK, LoopTypes, countVars
<1>3. CASE ~ (m \in held[w] /\ ~ pkt[m].flow.pass)
  <2>1. TxBurst(w, <<m>>)
    BY <1>3 DEF Filter
  <2> HIDE DEF m
  <2>2. Len(<<m>>) <= IF Prog(w) \in {"l3fwd", "acl"} THEN 1 ELSE Len(mbufs[w])
    BY <1>1
  <2> QED
    BY <1>1, <2>1, <2>2, TxBurstKeepsTypes
<1> QED
  BY <1>2, <1>3

LEMMA UnsentAreMbufs ==
  ASSUME DataInv, NEW w \in Worker, pc[w] = "sent"
  PROVE  Unsent(w) \in SUBSET Mbuf
<1>1. mbufs[w] \in Seq(Mbuf) /\ n_send[w] \in Nat
  BY DEF DataInv, DataTypeOK
<1>2. \A j \in n_send[w] + 1 .. Len(mbufs[w]) : mbufs[w][j] \in Mbuf
  BY <1>1
<1>3. mbufs[w][i[w]] \in Mbuf
  BY PacketOf
<1> QED
  BY <1>2, <1>3 DEF Unsent

LEMMA AfterTxKeepsTypes ==
  ASSUME DataInv, NEW w \in Worker, AfterTx(w)
  PROVE  DataInv'
<1>1. pc[w] = "sent" /\ Free(w, Unsent(w)) /\ UNCHANGED <<setup, chan, rr, wireVars>>
  BY DEF AfterTx
<1>2. pool' \subseteq Mbuf /\ held' \in [Worker -> SUBSET Mbuf] /\ misuse' \in BOOLEAN
  BY <1>1, UnsentAreMbufs, FreeKeepsTypes
<1>3. LoopTypes' /\ \A u \in Worker : Loop(u)'
  <2>1. CASE Prog(w) \in {"l3fwd", "acl"}
    BY <1>1, <2>1, NextPacketLoops DEF AfterTx
  <2>2. CASE Prog(w) \notin {"l3fwd", "acl"}
    <3>1. NextPoll(w) /\ Active(w)
      BY <1>1, <2>2 DEF AfterTx, DataInv, Loop
    <3> QED
      BY <1>1, <3>1, NextPollLoops
  <2> QED
    BY <2>1, <2>2
<1>4. CountersOK'
  <2>1. CountersOK /\ n_send[w] \in Nat
    BY DEF DataInv, DataTypeOK, CountersOK
  <2> QED
    BY <2>1, StoreKeepsTypes DEF AfterTx
<1>5. TurnsOK' /\ RoomOK'
  BY <1>1 DEF DataInv, TurnsOK, RoomOK, Active, NRxAcc, NTxAcc, Cores, Prog, PerPort
<1> QED
  BY <1>1, <1>2, <1>3, <1>4, <1>5 DEF DataInv, DataTypeOK, CountersOK, LoopTypes

-----------------------------------------------------------------------------
(* The NICs and the timer. *)
LEMMA WorkersLoopOn ==
  ASSUME DataInv, UNCHANGED <<setup, workVars>>
  PROVE  (\A u \in Worker : Loop(u)') /\ LoopTypes'
BY DEF DataInv, DataTypeOK, Loop, LoopTypes, Active, Cores, PerPort, Prog, RxCounter, InPort,
       workVars

LEMMA ArriveMoves ==
  ASSUME DataInv, NEW f \in Flow, Arrive(f)
  PROVE  /\ RxChan(f.in) = <<f.in, "rx">> /\ RxChan(f.in) \in Chan /\ f.que \in Queue
         /\ \E m \in pool :
              /\ pool' = pool \ {m}
              /\ pkt' = [pkt EXCEPT ![m] = [flow |-> f, n |-> seq'[f]]]
              /\ chan' = [chan EXCEPT ![RxChan(f.in)][f.que] = @ \o <<m>>]
              /\ Len(chan[RxChan(f.in)][f.que]) + Len(<<m>>) <= Room(RxChan(f.in))
<1>1. f.in \in Nic /\ f.in \notin Virt /\ f.que \in Queue
  BY DataPlaneAssumption
<1>2. RxChan(f.in) = <<f.in, "rx">> /\ RxChan(f.in) \in Chan
  BY <1>1 DEF RxChan, Chan, Port
<1> DEFINE m == CHOOSE m \in pool : TRUE
<1>3. m \in pool
  BY DEF Arrive
<1>4. pool' = pool \ {m}
  BY DEF Arrive
<1>5. chan' = [chan EXCEPT ![RxChan(f.in)][f.que] = Append(@, m)]
  BY DEF Arrive
<1>6. pkt' = [pkt EXCEPT ![m] = [flow |-> f, n |-> seq'[f]]]
  BY DEF Arrive
<1>7. chan[RxChan(f.in)][f.que] \in Seq(Mbuf)
  BY <1>1, <1>2 DEF DataInv, DataTypeOK
<1> HIDE DEF m
<1>8. Append(chan[RxChan(f.in)][f.que], m) = chan[RxChan(f.in)][f.que] \o <<m>>
  <2>1. m \in Mbuf
    BY <1>3 DEF DataInv, DataTypeOK
  <2>2. \A s \in Seq(Mbuf) : Append(s, m) = s \o <<m>>
    BY <2>1
  <2> QED
    BY <1>7, <2>2
<1>9. chan' = [chan EXCEPT ![RxChan(f.in)][f.que] = @ \o <<m>>]
  BY <1>5, <1>8
<1>10. Len(chan[RxChan(f.in)][f.que]) + Len(<<m>>) <= Room(RxChan(f.in))
  <2>1. Len(chan[RxChan(f.in)][f.que]) < Desc /\ Desc \in Nat
    BY DataPlaneAssumption DEF Arrive
  <2>2. Room(RxChan(f.in)) = Desc
    BY <1>1, <1>2 DEF Room
  <2>3. Len(chan[RxChan(f.in)][f.que]) \in Nat
    BY <1>7
  <2> QED
    BY <2>1, <2>2, <2>3
<1> QED
  BY <1>1, <1>2, <1>3, <1>4, <1>6, <1>9, <1>10

LEMMA ArriveKeepsTypes ==
  ASSUME DataInv, NEW f \in Flow, Arrive(f)
  PROVE  DataInv'
<1>1. RxChan(f.in) \in Chan /\ f.que \in Queue
  BY ArriveMoves
<1>2. PICK m \in pool :
        /\ pool' = pool \ {m}
        /\ chan' = [chan EXCEPT ![RxChan(f.in)][f.que] = @ \o <<m>>]
        /\ Len(chan[RxChan(f.in)][f.que]) + Len(<<m>>) <= Room(RxChan(f.in))
  BY ArriveMoves
<1>3. m \in Mbuf /\ <<m>> \in Seq(Mbuf)
  BY DEF DataInv, DataTypeOK
<1>4. chan' \in [Chan -> [Queue -> Seq(Mbuf)]] /\ RoomOK'
  BY <1>1, <1>2, <1>3, QueueGrows
<1>5. UNCHANGED <<setup, rr, workVars, countVars, misuse>>
  BY DEF Arrive
<1>6. TurnsOK'
  BY <1>5 DEF DataInv, TurnsOK, Active, NRxAcc, NTxAcc, Cores, Prog, PerPort
<1> QED
  BY <1>2, <1>4, <1>5, <1>6, WorkersLoopOn DEF DataInv, DataTypeOK, workVars, countVars

LEMMA DepartMoves ==
  ASSUME DataInv, NEW p \in Nic, NEW q \in Queue, Depart(p, q)
  PROVE  LET s == chan[TxChan(p)][q]
         IN /\ TxChan(p) \in Chan /\ s \in Seq(Mbuf) /\ 1 \in 1 .. Len(s) /\ s[1] \in Mbuf
            /\ pool' = pool \cup {s[1]}
            /\ chan' = [chan EXCEPT ![TxChan(p)][q] = SubSeq(s, 1 + 1, Len(s))]
            /\ pkt' = [pkt EXCEPT ![s[1]] = Empty]
            /\ last' = [last EXCEPT ![pkt[s[1]].flow] = pkt[s[1]].n]
            /\ late' = IF pkt[s[1]].n < last[pkt[s[1]].flow] THEN late \cup {pkt[s[1]].flow}
                       ELSE late
<1> DEFINE s == chan[TxChan(p)][q]
<1>1. TxChan(p) \in Chan
  BY DEF Chan, Port
<1>2. s \in Seq(Mbuf) /\ s # <<>>
  BY <1>1 DEF DataInv, DataTypeOK, Depart
<1>3. 1 \in 1 .. Len(s) /\ s[1] \in Mbuf /\ Head(s) = s[1]
  BY <1>2
<1>4. /\ pool' = pool \cup {Head(s)} /\ chan' = [chan EXCEPT ![TxChan(p)][q] = Tail(s)]
      /\ pkt' = [pkt EXCEPT ![Head(s)] = Empty]
      /\ last' = [last EXCEPT ![pkt[Head(s)].flow] = pkt[Head(s)].n]
      /\ late' = IF pkt[Head(s)].n < last[pkt[Head(s)].flow] THEN late \cup {pkt[Head(s)].flow}
                 ELSE late
  BY DEF Depart
<1> HIDE DEF s
<1>5. Tail(s) = SubSeq(s, 1 + 1, Len(s))
  BY <1>2
<1>6. chan' = [chan EXCEPT ![TxChan(p)][q] = SubSeq(s, 1 + 1, Len(s))]
  BY <1>4, <1>5
<1> QED
  BY <1>1, <1>2, <1>3, <1>4, <1>6 DEF s

LEMMA DepartKeepsTypes ==
  ASSUME DataInv, NEW p \in Nic, NEW q \in Queue, Depart(p, q)
  PROVE  DataInv'
<1> DEFINE s == chan[TxChan(p)][q]
<1>1. /\ TxChan(p) \in Chan /\ s \in Seq(Mbuf) /\ 1 \in 0 .. Len(s) /\ s[1] \in Mbuf
      /\ pool' = pool \cup {s[1]}
      /\ chan' = [chan EXCEPT ![TxChan(p)][q] = SubSeq(s, 1 + 1, Len(s))]
  BY DepartMoves
<1>2. chan' \in [Chan -> [Queue -> Seq(Mbuf)]] /\ RoomOK'
  BY <1>1, QueueShrinks
<1>3. UNCHANGED <<setup, rr, workVars, countVars, misuse>>
  BY DEF Depart
<1>4. TurnsOK'
  BY <1>3 DEF DataInv, TurnsOK, Active, NRxAcc, NTxAcc, Cores, Prog, PerPort
<1> QED
  BY <1>1, <1>2, <1>3, <1>4, WorkersLoopOn DEF DataInv, DataTypeOK, workVars, countVars

LEMMA TickKeepsTypes ==
  ASSUME DataInv, TickRead \/ TickZero
  PROVE  DataInv'
<1>1. UNCHANGED <<setup, chan, pool, rr, workVars, misuse>>
  BY DEF TickRead, TickZero
<1>2. TurnsOK' /\ RoomOK'
  BY <1>1 DEF DataInv, TurnsOK, RoomOK, Active, NRxAcc, NTxAcc, Cores, Prog, PerPort
<1>3. sum' \in Nat /\ ticking' \in BOOLEAN /\ owed' \in Int /\ raced' \in BOOLEAN
  <2>1. CASE TickRead
    <3>1. raced' = (raced \/ BeingCounted) /\ owed' = IF raced' THEN 0 ELSE owed - sum
      BY <2>1 DEF TickRead
    <3> QED
      BY <2>1, <3>1 DEF TickRead, DataInv, DataTypeOK
  <2>2. CASE TickZero
    BY <2>2 DEF TickZero, DataInv, DataTypeOK
  <2> QED
    BY <2>1, <2>2
<1> QED
  BY <1>1, <1>2, <1>3, WorkersLoopOn DEF DataInv, DataTypeOK, workVars

LEMMA DataInit ==
  ASSUME Init
  PROVE  DataInv
<1>1. \A c \in Chan : chan[c] = [q \in Queue |-> <<>>]
  BY DEF Init
<1>2. chan \in [Chan -> [Queue -> Seq(Mbuf)]]
  BY DEF Init
<1>3. RoomOK
  BY <1>1, RoomIsPositive DEF RoomOK
<1>4. rr \in [Accessor -> Nat]
  BY DEF Init, Accessor
<1>5. LoopTypes /\ pc = [w \in Worker |-> IF Active(w) THEN "poll" ELSE "off"]
  BY DEF Init, LoopTypes, Place, Pid, Worker
<1>6. \A w \in Worker : Loop(w)
  BY <1>5 DEF Init, Loop
<1>7. CountersOK
  <2>1. sum \in {0, Junk} /\ raced = (sum # 0)
    BY DEF Init
  <2>2. sum \in Nat /\ raced \in BOOLEAN
    BY <2>1, DataPlaneAssumption
  <2>3. reg = [w \in Worker |-> 0] /\ ticking = FALSE /\ owed = 0
    BY DEF Init
  <2>4. reg \in [Worker -> Nat]
    BY <2>3
  <2>5. ticking \in BOOLEAN
    BY <2>3
  <2>6. owed \in Int
    BY <2>3
  <2> QED
    BY <2>2, <2>4, <2>5, <2>6 DEF CountersOK
<1>8. DataTypeOK
  BY <1>2, <1>4, <1>5, <1>7 DEF Init, DataTypeOK, LoopTypes, CountersOK
<1>9. TurnsOK
  <2> SUFFICES ASSUME NEW w \in Worker, NEW x \in Pid, NEW aid \in Queue, Active(w)
               PROVE  /\ rr[<<PortOf[w[1]][x], "rx", aid>>] < Share(NRxAcc(w))
                      /\ rr[<<PortOf[w[1]][x], "tx", aid>>] < Share(NTxAcc(w))
    BY DEF TurnsOK
  <2>1. <<PortOf[w[1]][x], "rx", aid>> \in Accessor /\ <<PortOf[w[1]][x], "tx", aid>> \in Accessor
    BY PortsOf DEF Accessor
  <2>2. Share(NRxAcc(w)) \in Nat \ {0} /\ Share(NTxAcc(w)) \in Nat \ {0}
    BY <1>8, AccessorsOf, SharesArePositive
  <2> QED
    BY <2>1, <2>2 DEF Init, Accessor
<1> QED
  BY <1>3, <1>6, <1>8, <1>9 DEF DataInv

LEMMA DataStep ==
  ASSUME DataInv, [Next]_vars
  PROVE  DataInv'
<1>1. ASSUME NEW w \in Worker, Work(w)
      PROVE  DataInv'
  BY <1>1, PollKeepsTypes, CountRxKeepsTypes, ForwardKeepsTypes, RouteKeepsTypes,
     FilterKeepsTypes, AfterTxKeepsTypes DEF Work
<1>2. CASE UNCHANGED vars
  <2>1. UNCHANGED <<setup, chan, pool, rr, workVars, countVars, misuse>>
    BY <1>2 DEF vars
  <2>2. TurnsOK' /\ RoomOK'
    BY <2>1 DEF DataInv, TurnsOK, RoomOK, Active, NRxAcc, NTxAcc, Cores, Prog, PerPort
  <2> QED
    BY <2>1, <2>2, WorkersLoopOn DEF DataInv, DataTypeOK, workVars, countVars
<1> QED
  BY <1>1, <1>2, ArriveKeepsTypes, DepartKeepsTypes, TickKeepsTypes DEF Next

(* Every queue that an accessor gives exists and no queue is overfilled,   *)
(* for any division of queues among vcores that deploying accepts: what    *)
(* set_coremask, configure_acc and accessor::get compute fits together.    *)
THEOREM DataTypeCorrect == Spec => []DataInv
BY DataInit, DataStep, PTL DEF Spec

-----------------------------------------------------------------------------
(* The figures per second.  A worker that has read the watched counter and *)
(* not yet written it back: *)
Counting(w) ==
  \/ pc[w] = "counted"
  \/ pc[w] = "sent" /\ TxCounter(w) = setup.watch

(* Unless accesses have overlapped, the counter holds what is owed, and    *)
(* whoever is counting is alone and has read what the counter still holds. *)
FiguresInv ==
  /\ raced => owed = 0
  /\ ~ raced => owed = IF ticking THEN 0 ELSE sum
  /\ ~ raced => \A w \in Worker : Counting(w) => ~ ticking /\ reg[w] = sum
  /\ ~ raced => \A w, u \in Worker : Counting(w) /\ Counting(u) => w = u

LEMMA NoneCounts == BeingCounted <=> \E w \in Worker : Counting(w)
BY Zenon DEF BeingCounted, Counting

(* What the others count is theirs. *)
Apart(w) == \A u \in Worker \ {w} : Counting(u)' <=> Counting(u)

LEMMA LoadKeepsFigures ==
  ASSUME DataInv, FiguresInv, NEW w \in Worker, NEW k, Load(w, k), ~ Counting(w), Apart(w),
         Counting(w)' => k = setup.watch
  PROVE  FiguresInv'
<1>1. CASE k = setup.watch
  <2>1. reg' = [reg EXCEPT ![w] = sum] /\ sum' = sum /\ ticking' = ticking
    BY <1>1 DEF Load
  <2>2. raced' = (raced \/ BeingCounted \/ ticking)
    BY <1>1 DEF Load
  <2>3. owed' = IF raced' THEN 0 ELSE owed
    BY <1>1 DEF Load
  <2>4. ASSUME ~ raced'
        PROVE  /\ ~ raced /\ ~ ticking /\ owed' = owed
               /\ \A u \in Worker : Counting(u)' => u = w
    BY <2>2, <2>3, <2>4, NoneCounts DEF Apart
  <2>5. reg'[w] = sum
    BY <2>1 DEF DataInv, DataTypeOK
  <2> QED
    BY <2>1, <2>3, <2>4, <2>5 DEF FiguresInv
<1>2. CASE k # setup.watch
  <2>1. UNCHANGED <<reg, sum, ticking, owed, raced>>
    BY <1>2 DEF Load, countVars
  <2>2. \A u \in Worker : Counting(u)' => Counting(u)
    BY <1>2 DEF Apart
  <2> QED
    BY <2>1, <2>2 DEF FiguresInv
<1> QED
  BY <1>1, <1>2

LEMMA StoreKeepsFigures ==
  ASSUME DataInv, FiguresInv, NEW w \in Worker, NEW k, NEW n \in Nat, Store(w, k, n), Apart(w),
         k = setup.watch => Counting(w), ~ Counting(w)'
  PROVE  FiguresInv'
<1>1. CASE k = setup.watch
  <2>1. reg' = [reg EXCEPT ![w] = 0] /\ sum' = reg[w] + n /\ ticking' = ticking /\ raced' = raced
    BY <1>1 DEF Store
  <2>2. owed' = IF raced THEN 0 ELSE owed + n
    BY <1>1 DEF Store
  <2>3. Counting(w)
    BY <1>1
  <2>4. ASSUME ~ raced
        PROVE  /\ ~ ticking /\ owed' = sum' /\ \A u \in Worker : ~ Counting(u)'
    BY <2>1, <2>2, <2>3, <2>4 DEF FiguresInv, Apart
  <2> QED
    BY <2>1, <2>2, <2>4 DEF FiguresInv
<1>2. CASE k # setup.watch
  <2>1. UNCHANGED <<reg, sum, ticking, owed, raced>>
    BY <1>2 DEF Store, countVars
  <2>2. \A u \in Worker : Counting(u)' => Counting(u)
    BY DEF Apart
  <2> QED
    BY <2>1, <2>2 DEF FiguresInv
<1> QED
  BY <1>1, <1>2

LEMMA UncountedKeepsFigures ==
  ASSUME FiguresInv, UNCHANGED <<reg, countVars>>, \A u \in Worker : Counting(u)' => Counting(u)
  PROVE  FiguresInv'
BY DEF FiguresInv, countVars

LEMMA OthersCount ==
  ASSUME NEW w \in Worker, UNCHANGED setup,
         \A u \in Worker \ {w} : pc'[u] = pc[u] /\ dst'[u] = dst[u]
  PROVE  Apart(w)
BY DEF Apart, Counting, TxCounter, OutPort

LEMMA ReceivedCounts ==
  ASSUME DataInv, NEW w \in Worker, NEW s, Received(w, s), UNCHANGED setup
  PROVE  Apart(w) /\ pc'[w] \in {"poll", "work"}
<1>1. \A u \in Worker \ {w} : pc'[u] = pc[u] /\ dst'[u] = dst[u]
  BY DEF Received, NextPoll, DataInv, DataTypeOK
<1> QED
  BY <1>1, OthersCount DEF Received, NextPoll, DataInv, DataTypeOK

LEMMA NextPacketCounts ==
  ASSUME DataInv, NEW w \in Worker, NextPacket(w) \/ NextPoll(w), UNCHANGED setup
  PROVE  Apart(w) /\ pc'[w] \in {"poll", "work"}
<1>1. \A u \in Worker \ {w} : pc'[u] = pc[u] /\ dst'[u] = dst[u]
  BY DEF NextPacket, NextPoll, DataInv, DataTypeOK
<1> QED
  BY <1>1, OthersCount DEF NextPacket, NextPoll, DataInv, DataTypeOK

LEMMA TxBurstKeepsFigures ==
  ASSUME DataInv, FiguresInv, NEW w \in Worker, pc[w] = "work", NEW s, TxBurst(w, s)
  PROVE  FiguresInv'
<1>1. /\ pc' = [pc EXCEPT ![w] = "sent"] /\ dst' = [dst EXCEPT ![w] = OutPid(w)]
      /\ Load(w, ProdSum(TxTo(w))) /\ UNCHANGED setup
  BY DEF TxBurst, TxTo
<1>2. Apart(w)
  <2>1. \A u \in Worker \ {w} : pc'[u] = pc[u] /\ dst'[u] = dst[u]
    BY <1>1 DEF DataInv, DataTypeOK
  <2> QED
    BY <1>1, <2>1, OthersCount
<1>3. Counting(w)' => ProdSum(TxTo(w)) = setup.watch
  BY <1>1 DEF DataInv, DataTypeOK, Counting, TxCounter, OutPort, TxTo
<1>4. ~ Counting(w)
  BY DEF Counting
<1> QED
  BY <1>1, <1>2, <1>3, <1>4, LoadKeepsFigures

LEMMA WorkKeepsFigures ==
  ASSUME DataInv, FiguresInv, NEW w \in Worker, Work(w)
  PROVE  FiguresInv'
<1>1. CASE Poll(w)
  <2>1. Load(w, RxCounter(w)) /\ UNCHANGED setup /\ ~ Counting(w)
    BY <1>1 DEF Poll, Counting
  <2>2. PICK n :
          IF RxCounter(w) = setup.watch
          THEN /\ pc' = [pc EXCEPT ![w] = "counted"] /\ UNCHANGED dst
          ELSE Received(w, SubSeq(chan[RxFrom(w)][RxQueue(w)], 1, n))
    BY <1>1, PollMoves
  <2>3. CASE RxCounter(w) = setup.watch
    <3>1. \A u \in Worker \ {w} : pc'[u] = pc[u] /\ dst'[u] = dst[u]
      BY <2>2, <2>3 DEF DataInv, DataTypeOK
    <3>2. Apart(w)
      BY <2>1, <3>1, OthersCount
    <3> QED
      BY <2>1, <2>3, <3>2, LoadKeepsFigures
  <2>4. CASE RxCounter(w) # setup.watch
    <3>1. Apart(w) /\ ~ Counting(w)'
      BY <2>1, <2>2, <2>4, ReceivedCounts DEF Counting
    <3> QED
      BY <2>1, <3>1, LoadKeepsFigures
  <2> QED
    BY <2>3, <2>4
<1>2. CASE CountRx(w)
  <2>1. Store(w, RxCounter(w), Len(mbufs[w])) /\ Received(w, mbufs[w]) /\ UNCHANGED setup
    BY <1>2 DEF CountRx
  <2>2. Counting(w)
    BY <1>2 DEF CountRx, Counting
  <2>3. mbufs[w] \in Seq(Mbuf) /\ Len(mbufs[w]) \in Nat
    BY DEF DataInv, DataTypeOK
  <2>4. Apart(w) /\ ~ Counting(w)'
    BY <2>1, ReceivedCounts DEF Counting
  <2> QED
    BY <2>1, <2>2, <2>3, <2>4, StoreKeepsFigures
<1>3. CASE Forward(w)
  BY <1>3, TxBurstKeepsFigures DEF Forward
<1>4. CASE Route(w)
  <2>1. CASE \E s : TxBurst(w, s)
    BY <1>4, <2>1, TxBurstKeepsFigures DEF Route
  <2>2. CASE ~ \E s : TxBurst(w, s)
    <3>1. UNCHANGED <<setup, pc, dst, reg, countVars>>
      BY <1>4, <2>2 DEF Route
    <3> QED
      BY <3>1, UncountedKeepsFigures DEF Counting, TxCounter, OutPort
  <2> QED
    BY <2>1, <2>2
<1>5. CASE Filter(w)
  <2>1. CASE \E s : TxBurst(w, s)
    BY <1>5, <2>1, TxBurstKeepsFigures DEF Filter
  <2>2. CASE ~ \E s : TxBurst(w, s)
    <3>1. NextPacket(w) /\ UNCHANGED <<setup, reg, countVars>>
      BY <1>5, <2>2 DEF Filter
    <3>2. \A u \in Worker : Counting(u)' => Counting(u)
      BY <3>1, NextPacketCounts DEF Apart, Counting
    <3> QED
      BY <3>1, <3>2, UncountedKeepsFigures
  <2> QED
    BY <2>1, <2>2
<1>6. CASE AfterTx(w)
  <2>1. /\ pc[w] = "sent" /\ Store(w, TxCounter(w), n_send[w])
        /\ NextPacket(w) \/ NextPoll(w)
    BY <1>6 DEF AfterTx
  <2>2. UNCHANGED setup /\ n_send[w] \in Nat
    BY <1>6 DEF AfterTx, DataInv, DataTypeOK
  <2>3. Apart(w) /\ ~ Counting(w)'
    BY <2>1, <2>2, NextPacketCounts DEF Counting
  <2>4. TxCounter(w) = setup.watch => Counting(w)
    BY <2>1 DEF Counting
  <2> QED
    BY <2>1, <2>2, <2>3, <2>4, StoreKeepsFigures
<1> QED
  BY <1>1, <1>2, <1>3, <1>4, <1>5, <1>6 DEF Work

LEMMA TickKeepsFigures ==
  ASSUME DataInv, FiguresInv, TickRead \/ TickZero
  PROVE  FiguresInv'
<1>1. UNCHANGED <<setup, pc, dst, reg>>
  BY DEF TickRead, TickZero, workVars
<1>2. \A u \in Worker : Counting(u)' <=> Counting(u)
  BY <1>1 DEF Counting, TxCounter, OutPort
<1>3. CASE TickRead
  <2>1. ~ ticking /\ ticking' = TRUE /\ sum' = sum
    BY <1>3 DEF TickRead
  <2>2. raced' = (raced \/ BeingCounted) /\ owed' = IF raced' THEN 0 ELSE owed - sum
    BY <1>3 DEF TickRead
  <2>3. ASSUME ~ raced'
        PROVE  owed' = 0 /\ \A u \in Worker : ~ Counting(u)'
    <3>1. ~ raced /\ owed = sum /\ \A u \in Worker : ~ Counting(u)
      BY <2>1, <2>2, <2>3, NoneCounts DEF FiguresInv
    <3> QED
      BY <1>2, <2>2, <2>3, <3>1 DEF DataInv, DataTypeOK
  <2> QED
    BY <2>1, <2>2, <2>3 DEF FiguresInv
<1>4. CASE TickZero
  <2>1. ticking /\ ticking' = FALSE /\ sum' = 0 /\ owed' = owed
    BY <1>4 DEF TickZero
  <2>2. raced' = (raced /\ BeingCounted)
    BY <1>4 DEF TickZero
  <2>3. owed = 0
    BY <2>1 DEF FiguresInv
  <2>4. ASSUME ~ raced'
        PROVE  \A u \in Worker : ~ Counting(u)'
    BY <1>2, <2>1, <2>2, <2>4, NoneCounts DEF FiguresInv
  <2> QED
    BY <2>1, <2>3, <2>4 DEF FiguresInv
<1> QED
  BY <1>3, <1>4

LEMMA FiguresStep ==
  ASSUME DataInv, FiguresInv, [Next]_vars
  PROVE  FiguresInv'
<1>1. ASSUME UNCHANGED <<setup, workVars, countVars>>
      PROVE  FiguresInv'
  <2>1. \A u \in Worker : Counting(u)' => Counting(u)
    BY <1>1 DEF Counting, TxCounter, OutPort, workVars
  <2> QED
    BY <1>1, <2>1, UncountedKeepsFigures DEF workVars
<1>2. ASSUME NEW f \in Flow, Arrive(f)
      PROVE  FiguresInv'
  BY <1>1, <1>2 DEF Arrive
<1>3. ASSUME NEW p \in Nic, NEW q \in Queue, Depart(p, q)
      PROVE  FiguresInv'
  BY <1>1, <1>3 DEF Depart
<1>4. CASE UNCHANGED vars
  BY <1>1, <1>4 DEF vars
<1> QED
  BY <1>2, <1>3, <1>4, WorkKeepsFigures, TickKeepsFigures DEF Next

(* ssn_ma_ring::update_stats and the bursts: what the timer takes is what  *)
(* was counted since it last zeroed the counter, for any number of workers *)
(* and whatever they send, as long as no two accesses overlap.             *)
THEOREM FiguresStayExact == Spec => []FiguresAreExact
<1>1. Init => FiguresInv
  BY DEF Init, FiguresInv, Counting
<1>2. FiguresInv => FiguresAreExact
  BY DEF FiguresInv, FiguresAreExact
<1> QED
  BY <1>1, <1>2, DataInit, DataStep, FiguresStep, PTL DEF Spec

-----------------------------------------------------------------------------
(* Owners of packet buffers. *)
Queued(m) == \E c \in Chan, q \in Queue : \E k \in 1 .. Len(chan[c][q]) : chan[c][q][k] = m

QueuedOnce ==
  \A c, d \in Chan, q, r \in Queue :
    \A j \in 1 .. Len(chan[c][q]), k \in 1 .. Len(chan[d][r]) :
      chan[c][q][j] = chan[d][r][k] => c = d /\ q = r /\ j = k

NoRepeat(s) == \A j, k \in 1 .. Len(s) : s[j] = s[k] => j = k

LEMMA ElementsOf ==
  ASSUME NEW s \in Seq(Mbuf), NEW m
  PROVE  m \in ToSet(s) <=> \E k \in 1 .. Len(s) : s[k] = m
BY DEF ToSet

LEMMA GrownQueue ==
  ASSUME DataInv, NEW c \in Chan, NEW q \in Queue, NEW out \in Seq(Mbuf),
         \A d \in Chan, r \in Queue :
           chan'[d][r] = IF d = c /\ r = q THEN chan[c][q] \o out ELSE chan[d][r]
  PROVE  /\ \A m : Queued(m)' <=> Queued(m) \/ m \in ToSet(out)
         /\ QueuedOnce /\ NoRepeat(out) /\ (\A m \in ToSet(out) : ~ Queued(m)) => QueuedOnce'
<1> DEFINE s == chan[c][q]
           t == s \o out
<1>1. s \in Seq(Mbuf) /\ Len(s) \in Nat /\ Len(out) \in Nat
  BY DEF DataInv, DataTypeOK
<1>2. /\ Len(t) = Len(s) + Len(out)
      /\ \A k \in 1 .. Len(t) : t[k] = IF k <= Len(s) THEN s[k] ELSE out[k - Len(s)]
  BY <1>1
<1>3. chan'[c][q] = t /\ \A d \in Chan, r \in Queue : ~ (d = c /\ r = q) => chan'[d][r] = chan[d][r]
  OBVIOUS
<1>9. Len(t) \in Nat
  BY <1>1, <1>2
<1> HIDE DEF t
<1>4. \A k \in 1 .. Len(s) : k \in 1 .. Len(t) /\ t[k] = s[k]
  BY <1>1, <1>2
<1>5. \A k \in 1 .. Len(out) : Len(s) + k \in 1 .. Len(t) /\ t[Len(s) + k] = out[k]
  <2> SUFFICES ASSUME NEW k \in 1 .. Len(out)
               PROVE  Len(s) + k \in 1 .. Len(t) /\ t[Len(s) + k] = out[k]
    OBVIOUS
  <2>1. Len(s) + k \in 1 .. Len(t) /\ ~ (Len(s) + k <= Len(s)) /\ (Len(s) + k) - Len(s) = k
    BY <1>1, <1>2
  <2> QED
    BY <1>2, <2>1
<1>6. \A k \in 1 .. Len(t) : \/ k \in 1 .. Len(s) /\ t[k] = s[k]
                             \/ k - Len(s) \in 1 .. Len(out) /\ t[k] = out[k - Len(s)]
  BY <1>1, <1>2
<1>7. ASSUME NEW m
      PROVE  Queued(m)' <=> Queued(m) \/ m \in ToSet(out)
  <2>1. ASSUME Queued(m)
        PROVE  Queued(m)'
    <3>1. PICK d \in Chan, r \in Queue : \E k \in 1 .. Len(chan[d][r]) : chan[d][r][k] = m
      BY <2>1 DEF Queued
    <3>2. \E k \in 1 .. Len(chan'[d][r]) : chan'[d][r][k] = m
      BY <1>3, <1>4, <3>1
    <3> QED
      BY <3>2 DEF Queued
  <2>2. ASSUME m \in ToSet(out)
        PROVE  Queued(m)'
    <3>1. PICK k \in 1 .. Len(out) : out[k] = m
      BY <2>2, ElementsOf
    <3>2. Len(s) + k \in 1 .. Len(chan'[c][q]) /\ chan'[c][q][Len(s) + k] = m
      BY <1>3, <1>5, <3>1
    <3> QED
      BY <3>2 DEF Queued
  <2>3. ASSUME Queued(m)'
        PROVE  Queued(m) \/ m \in ToSet(out)
    <3>1. PICK d \in Chan, r \in Queue : \E k \in 1 .. Len(chan'[d][r]) : chan'[d][r][k] = m
      BY <2>3 DEF Queued
    <3>2. PICK k \in 1 .. Len(chan'[d][r]) : chan'[d][r][k] = m
      BY <3>1
    <3>3. CASE d = c /\ r = q
      <4>1. (\E j \in 1 .. Len(s) : s[j] = m) \/ (\E j \in 1 .. Len(out) : out[j] = m)
        BY <1>3, <1>6, <3>2, <3>3
      <4> QED
        BY <4>1, ElementsOf DEF Queued
    <3>4. CASE ~ (d = c /\ r = q)
      BY <1>3, <3>2, <3>4 DEF Queued
    <3> QED
      BY <3>3, <3>4
  <2> QED
    BY <2>1, <2>2, <2>3
<1>8. ASSUME QueuedOnce, NoRepeat(out), \A m \in ToSet(out) : ~ Queued(m)
      PROVE  QueuedOnce'
  <2>1. \A k \in 1 .. Len(out), d \in Chan, r \in Queue : \A j \in 1 .. Len(chan[d][r]) :
          chan[d][r][j] # out[k]
    BY <1>8, ElementsOf DEF Queued
  <2>6. \A x, y \in 1 .. Len(s) : s[x] = s[y] => x = y
    BY <1>8 DEF QueuedOnce
  <2>7. \A k \in 1 .. Len(out), j \in 1 .. Len(s) : s[j] # out[k]
    BY <2>1
  <2> SUFFICES ASSUME NEW d \in Chan, NEW e \in Chan, NEW r \in Queue, NEW p \in Queue,
                      NEW j \in 1 .. Len(chan'[d][r]), NEW k \in 1 .. Len(chan'[e][p]),
                      chan'[d][r][j] = chan'[e][p][k]
               PROVE  d = e /\ r = p /\ j = k
    BY DEF QueuedOnce
  <2>2. CASE d = c /\ r = q /\ e = c /\ p = q
    <3>1. \A x, y \in 1 .. Len(t) : t[x] = t[y] => x = y
      <4> SUFFICES ASSUME NEW x \in 1 .. Len(t), NEW y \in 1 .. Len(t), t[x] = t[y]
                   PROVE  x = y
        OBVIOUS
      <4>1. CASE x \in 1 .. Len(s) /\ t[x] = s[x] /\ y \in 1 .. Len(s) /\ t[y] = s[y]
        BY <2>6, <4>1
      <4>2. CASE /\ x - Len(s) \in 1 .. Len(out) /\ t[x] = out[x - Len(s)]
                 /\ y - Len(s) \in 1 .. Len(out) /\ t[y] = out[y - Len(s)]
        <5>1. \A a, b \in 1 .. Len(out) : out[a] = out[b] => a = b
          BY <1>8 DEF NoRepeat
        <5>2. x - Len(s) = y - Len(s)
          BY <4>2, <5>1
        <5> QED
          BY <1>1, <1>9, <5>2
      <4> HIDE DEF s
      <4>3. \/ x \in 1 .. Len(s) /\ t[x] = s[x]
            \/ x - Len(s) \in 1 .. Len(out) /\ t[x] = out[x - Len(s)]
        BY <1>6
      <4>4. \/ y \in 1 .. Len(s) /\ t[y] = s[y]
            \/ y - Len(s) \in 1 .. Len(out) /\ t[y] = out[y - Len(s)]
        BY <1>6
      <4>5. ASSUME NEW a \in 1 .. Len(s), NEW b \in 1 .. Len(out), s[a] = out[b]
            PROVE  FALSE
        BY <2>7, <4>5
      <4>6. ~ /\ x \in 1 .. Len(s) /\ t[x] = s[x]
              /\ y - Len(s) \in 1 .. Len(out) /\ t[y] = out[y - Len(s)]
        BY <4>5
      <4>7. ~ /\ y \in 1 .. Len(s) /\ t[y] = s[y]
              /\ x - Len(s) \in 1 .. Len(out) /\ t[x] = out[x - Len(s)]
        BY <4>5
      <4> QED
        BY <4>1, <4>2, <4>3, <4>4, <4>6, <4>7
    <3> QED
      BY <1>3, <2>2, <3>1
  <2>3. CASE d = c /\ r = q /\ ~ (e = c /\ p = q)
    <3>1. chan'[e][p] = chan[e][p] /\ chan'[d][r] = t
      BY <1>3, <2>3
    <3>2. j \in 1 .. Len(s) /\ t[j] = s[j]
      <4>1. j \in 1 .. Len(t) /\ k \in 1 .. Len(chan[e][p]) /\ t[j] = chan[e][p][k]
        BY <3>1
      <4>2. ASSUME NEW x \in 1 .. Len(out), t[j] = out[x]
            PROVE  FALSE
        <5>1. chan[e][p][k] # out[x]
          BY <2>1, <4>1
        <5> QED
          BY <4>1, <4>2, <5>1
      <4> HIDE DEF s
      <4> QED
        BY <1>6, <4>1, <4>2
    <3> QED
      BY <1>8, <2>3, <3>1, <3>2 DEF QueuedOnce
  <2>4. CASE ~ (d = c /\ r = q) /\ e = c /\ p = q
    <3>1. chan'[d][r] = chan[d][r] /\ chan'[e][p] = t
      BY <1>3, <2>4
    <3>2. k \in 1 .. Len(s) /\ t[k] = s[k]
      <4>1. k \in 1 .. Len(t) /\ j \in 1 .. Len(chan[d][r]) /\ t[k] = chan[d][r][j]
        BY <3>1
      <4>2. ASSUME NEW x \in 1 .. Len(out), t[k] = out[x]
            PROVE  FALSE
        <5>1. chan[d][r][j] # out[x]
          BY <2>1, <4>1
        <5> QED
          BY <4>1, <4>2, <5>1
      <4> HIDE DEF s
      <4> QED
        BY <1>6, <4>1, <4>2
    <3> QED
      BY <1>8, <2>4, <3>1, <3>2 DEF QueuedOnce
  <2>5. CASE ~ (d = c /\ r = q) /\ ~ (e = c /\ p = q)
    <3>1. chan'[d][r] = chan[d][r] /\ chan'[e][p] = chan[e][p]
      BY <1>3, <2>5
    <3> QED
      BY <1>8, <3>1 DEF QueuedOnce
  <2> QED
    BY <2>2, <2>3, <2>4, <2>5
<1> QED
  BY <1>7, <1>8

LEMMA ShrunkQueue ==
  ASSUME DataInv, QueuedOnce, NEW c \in Chan, NEW q \in Queue, NEW n \in 0 .. Len(chan[c][q]),
         \A d \in Chan, r \in Queue :
           chan'[d][r] = IF d = c /\ r = q THEN SubSeq(chan[c][q], n + 1, Len(chan[c][q]))
                         ELSE chan[d][r]
  PROVE  LET front == SubSeq(chan[c][q], 1, n)
         IN /\ \A m : Queued(m) <=> Queued(m)' \/ m \in ToSet(front)
            /\ \A m \in ToSet(front) : ~ Queued(m)'
            /\ QueuedOnce' /\ NoRepeat(front)
<1> DEFINE s == chan[c][q]
           t == SubSeq(s, n + 1, Len(s))
           front == SubSeq(s, 1, n)
<1>1. s \in Seq(Mbuf) /\ Len(s) \in Nat /\ n \in Nat /\ n <= Len(s)
  BY DEF DataInv, DataTypeOK
<1>2. t \in Seq(Mbuf) /\ Len(t) = Len(s) - n /\ \A k \in 1 .. Len(t) : t[k] = s[n + k]
  BY <1>1
<1>3. front \in Seq(Mbuf) /\ Len(front) = n /\ \A k \in 1 .. n : front[k] = s[k]
  BY <1>1
<1>4. chan'[c][q] = t /\ \A d \in Chan, r \in Queue : ~ (d = c /\ r = q) => chan'[d][r] = chan[d][r]
  OBVIOUS
<1>5. \A x, y \in 1 .. Len(s) : s[x] = s[y] => x = y
  BY DEF QueuedOnce
<1>6. \A d \in Chan, r \in Queue : ~ (d = c /\ r = q) =>
        \A x \in 1 .. Len(s), y \in 1 .. Len(chan[d][r]) : s[x] # chan[d][r][y]
  BY DEF QueuedOnce
<1> HIDE DEF t, front
<1>7. \A k \in 1 .. Len(t) : n + k \in 1 .. Len(s) /\ t[k] = s[n + k] /\ ~ (n + k <= n)
  BY <1>1, <1>2
<1>8. \A k \in 1 .. Len(s) : \/ k \in 1 .. n /\ front[k] = s[k]
                             \/ k - n \in 1 .. Len(t) /\ t[k - n] = s[k]
  <2> SUFFICES ASSUME NEW k \in 1 .. Len(s), ~ (k \in 1 .. n)
               PROVE  k - n \in 1 .. Len(t) /\ t[k - n] = s[k]
    BY <1>3
  <2>1. k - n \in 1 .. Len(t) /\ n + (k - n) = k
    BY <1>1, <1>2
  <2> QED
    BY <1>2, <2>1
<1>9. \A k \in 1 .. n : k \in 1 .. Len(s) /\ front[k] = s[k]
  BY <1>1, <1>3
<1>10. ASSUME NEW m
       PROVE  m \in ToSet(front) <=> \E k \in 1 .. n : front[k] = m
  BY <1>3, ElementsOf
<1>11. ASSUME NEW m, Queued(m)
       PROVE  Queued(m)' \/ m \in ToSet(front)
  <2>1. PICK d \in Chan, r \in Queue : \E k \in 1 .. Len(chan[d][r]) : chan[d][r][k] = m
    BY <1>11 DEF Queued
  <2>2. CASE d = c /\ r = q
    <3>1. PICK k \in 1 .. Len(s) : s[k] = m
      BY <2>1, <2>2
    <3>2. CASE k \in 1 .. n /\ front[k] = s[k]
      BY <1>10, <3>1, <3>2
    <3>3. CASE k - n \in 1 .. Len(t) /\ t[k - n] = s[k]
      BY <1>4, <3>1, <3>3 DEF Queued
    <3> QED
      BY <1>8, <3>2, <3>3
  <2>3. CASE ~ (d = c /\ r = q)
    BY <1>4, <2>1, <2>3 DEF Queued
  <2> QED
    BY <2>2, <2>3
<1>12. ASSUME NEW m, m \in ToSet(front)
       PROVE  Queued(m) /\ ~ Queued(m)'
  <2>1. PICK k \in 1 .. n : k \in 1 .. Len(s) /\ s[k] = m
    BY <1>9, <1>10, <1>12
  <2>2. Queued(m)
    BY <2>1 DEF Queued
  <2>3. ASSUME NEW d \in Chan, NEW r \in Queue, NEW j \in 1 .. Len(chan'[d][r])
        PROVE  chan'[d][r][j] # m
    <3>1. CASE d = c /\ r = q
      <4>1. j \in 1 .. Len(t) /\ chan'[d][r][j] = t[j]
        BY <1>4, <3>1
      <4>2. n + j \in 1 .. Len(s) /\ t[j] = s[n + j] /\ ~ (n + j <= n)
        BY <1>7, <4>1
      <4>3. n + j # k
        BY <1>1, <4>2
      <4> QED
        BY <1>5, <2>1, <4>1, <4>2, <4>3
    <3>2. CASE ~ (d = c /\ r = q)
      <4>1. chan'[d][r] = chan[d][r]
        BY <1>4, <3>2
      <4> QED
        BY <1>6, <2>1, <3>2, <4>1
    <3> QED
      BY <3>1, <3>2
  <2> QED
    BY <2>2, <2>3 DEF Queued
<1>13. ASSUME NEW m, Queued(m)'
       PROVE  Queued(m)
  <2>1. PICK d \in Chan, r \in Queue : \E k \in 1 .. Len(chan'[d][r]) : chan'[d][r][k] = m
    BY <1>13 DEF Queued
  <2>2. PICK k \in 1 .. Len(chan'[d][r]) : chan'[d][r][k] = m
    BY <2>1
  <2>3. CASE d = c /\ r = q
    <3>1. \E j \in 1 .. Len(s) : s[j] = m
      BY <1>4, <1>7, <2>2, <2>3
    <3> QED
      BY <3>1 DEF Queued
  <2>4. CASE ~ (d = c /\ r = q)
    BY <1>4, <2>2, <2>4 DEF Queued
  <2> QED
    BY <2>3, <2>4
<1>14. QueuedOnce'
  <2> SUFFICES ASSUME NEW d \in Chan, NEW e \in Chan, NEW r \in Queue, NEW p \in Queue,
                      NEW j \in 1 .. Len(chan'[d][r]), NEW k \in 1 .. Len(chan'[e][p]),
                      chan'[d][r][j] = chan'[e][p][k]
               PROVE  d = e /\ r = p /\ j = k
    BY DEF QueuedOnce
  <2>1. CASE d = c /\ r = q /\ e = c /\ p = q
    <3>1. j \in 1 .. Len(t) /\ k \in 1 .. Len(t) /\ t[j] = t[k]
      BY <1>4, <2>1
    <3>2. n + j = n + k
      BY <1>5, <1>7, <3>1
    <3> QED
      BY <1>1, <2>1, <3>1, <3>2
  <2>2. CASE d = c /\ r = q /\ ~ (e = c /\ p = q)
    <3>1. j \in 1 .. Len(t) /\ t[j] = chan[e][p][k] /\ k \in 1 .. Len(chan[e][p])
      BY <1>4, <2>2
    <3>2. n + j \in 1 .. Len(s) /\ t[j] = s[n + j]
      BY <1>7, <3>1
    <3>3. \A x \in 1 .. Len(s), y \in 1 .. Len(chan[e][p]) : s[x] # chan[e][p][y]
      BY <1>6, <2>2
    <3> DEFINE x == n + j
    <3> HIDE DEF s, t, x
    <3>4. x \in 1 .. Len(s) /\ s[x] = chan[e][p][k]
      BY <3>1, <3>2 DEF x
    <3> QED
      BY <3>1, <3>3, <3>4
  <2>3. CASE ~ (d = c /\ r = q) /\ e = c /\ p = q
    <3>1. k \in 1 .. Len(t) /\ t[k] = chan[d][r][j] /\ j \in 1 .. Len(chan[d][r])
      BY <1>4, <2>3
    <3>2. n + k \in 1 .. Len(s) /\ t[k] = s[n + k]
      BY <1>7, <3>1
    <3>3. \A x \in 1 .. Len(s), y \in 1 .. Len(chan[d][r]) : s[x] # chan[d][r][y]
      BY <1>6, <2>3
    <3> DEFINE x == n + k
    <3> HIDE DEF s, t, x
    <3>4. x \in 1 .. Len(s) /\ s[x] = chan[d][r][j]
      BY <3>1, <3>2 DEF x
    <3> QED
      BY <3>1, <3>3, <3>4
  <2>4. CASE ~ (d = c /\ r = q) /\ ~ (e = c /\ p = q)
    <3>1. chan'[d][r] = chan[d][r] /\ chan'[e][p] = chan[e][p]
      BY <1>4, <2>4
    <3> QED
      BY <3>1 DEF QueuedOnce
  <2> QED
    BY <2>1, <2>2, <2>3, <2>4
<1>15. NoRepeat(front)
  BY <1>3, <1>5, <1>9 DEF NoRepeat
<1> QED
  BY <1>11, <1>12, <1>13, <1>14, <1>15 DEF front

(* Each buffer is free, queued once or held by one worker. *)
OwnerInv ==
  /\ QueuedOnce
  /\ \A m \in Mbuf : m \in pool \/ Queued(m) \/ \E w \in Worker : m \in held[w]
  /\ \A m \in pool : ~ Queued(m) /\ \A w \in Worker : m \notin held[w]
  /\ \A w \in Worker : \A m \in held[w] :
       ~ Queued(m) /\ \A u \in Worker : m \in held[u] => u = w

(* Buffers go from worker w to a queue, from a queue to w, and so on.      *)
LEMMA Queueing ==
  ASSUME DataInv, OwnerInv, NEW w \in Worker, NEW c \in Chan, NEW q \in Queue,
         NEW out \in Seq(Mbuf), NoRepeat(out), ToSet(out) \subseteq held[w],
         \A d \in Chan, r \in Queue :
           chan'[d][r] = IF d = c /\ r = q THEN chan[c][q] \o out ELSE chan[d][r],
         held' = [held EXCEPT ![w] = @ \ ToSet(out)], UNCHANGED pool
  PROVE  OwnerInv'
<1>1. \A m : Queued(m)' <=> Queued(m) \/ m \in ToSet(out)
  BY GrownQueue
<1>2. \A m \in ToSet(out) : ~ Queued(m)
  BY DEF OwnerInv
<1>3. QueuedOnce'
  BY <1>2, GrownQueue DEF OwnerInv
<1>4. \A u \in Worker : held'[u] = IF u = w THEN held[w] \ ToSet(out) ELSE held[u]
  BY DEF DataInv, DataTypeOK
<1>5. \A m \in Mbuf : m \in pool' \/ Queued(m)' \/ \E u \in Worker : m \in held'[u]
  BY <1>1, <1>4 DEF OwnerInv
<1>6. \A m \in pool' : ~ Queued(m)' /\ \A u \in Worker : m \notin held'[u]
  BY <1>1, <1>4 DEF OwnerInv
<1>7. \A u \in Worker : \A m \in held'[u] :
        ~ Queued(m)' /\ \A x \in Worker : m \in held'[x] => x = u
  BY <1>1, <1>4 DEF OwnerInv
<1> QED
  BY <1>3, <1>5, <1>6, <1>7 DEF OwnerInv

LEMMA Taking ==
  ASSUME DataInv, OwnerInv, NEW w \in Worker, held[w] = {}, NEW c \in Chan, NEW q \in Queue,
         NEW n \in 0 .. Len(chan[c][q]),
         \A d \in Chan, r \in Queue :
           chan'[d][r] = IF d = c /\ r = q THEN SubSeq(chan[c][q], n + 1, Len(chan[c][q]))
                         ELSE chan[d][r],
         held' = [held EXCEPT ![w] = ToSet(SubSeq(chan[c][q], 1, n))], UNCHANGED pool
  PROVE  OwnerInv' /\ NoRepeat(SubSeq(chan[c][q], 1, n))
<1> DEFINE front == SubSeq(chan[c][q], 1, n)
<1>0. QueuedOnce
  BY DEF OwnerInv
<1>1. /\ \A m : Queued(m) <=> Queued(m)' \/ m \in ToSet(front)
      /\ \A m \in ToSet(front) : ~ Queued(m)'
      /\ QueuedOnce' /\ NoRepeat(front)
  BY <1>0, ShrunkQueue
<1>2. \A u \in Worker : held'[u] = IF u = w THEN ToSet(front) ELSE held[u]
  BY DEF DataInv, DataTypeOK
<1> HIDE DEF front
<1>3. \A m \in Mbuf : m \in pool' \/ Queued(m)' \/ \E u \in Worker : m \in held'[u]
  BY <1>1, <1>2 DEF OwnerInv
<1>4. \A m \in pool' : ~ Queued(m)' /\ \A u \in Worker : m \notin held'[u]
  BY <1>1, <1>2 DEF OwnerInv
<1>5. \A u \in Worker : \A m \in held'[u] :
        ~ Queued(m)' /\ \A x \in Worker : m \in held'[x] => x = u
  BY <1>1, <1>2 DEF OwnerInv
<1> QED
  BY <1>1, <1>3, <1>4, <1>5 DEF OwnerInv, front

LEMMA Freeing ==
  ASSUME DataInv, OwnerInv, NEW w \in Worker, NEW S \in SUBSET held[w],
         held' = [held EXCEPT ![w] = @ \ S], pool' = pool \cup S, UNCHANGED chan
  PROVE  OwnerInv'
<1>1. \A m : Queued(m)' <=> Queued(m)
  BY DEF Queued
<1>2. \A u \in Worker : held'[u] = IF u = w THEN held[w] \ S ELSE held[u]
  BY DEF DataInv, DataTypeOK
<1>3. QueuedOnce'
  BY DEF OwnerInv, QueuedOnce
<1>4. \A m \in Mbuf : m \in pool' \/ Queued(m)' \/ \E u \in Worker : m \in held'[u]
  BY <1>1, <1>2 DEF OwnerInv
<1>5. \A m \in pool' : ~ Queued(m)' /\ \A u \in Worker : m \notin held'[u]
  BY <1>1, <1>2 DEF OwnerInv
<1>6. \A u \in Worker : \A m \in held'[u] :
        ~ Queued(m)' /\ \A x \in Worker : m \in held'[x] => x = u
  BY <1>1, <1>2 DEF OwnerInv
<1> QED
  BY <1>3, <1>4, <1>5, <1>6 DEF OwnerInv

LEMMA Arriving ==
  ASSUME DataInv, OwnerInv, NEW f \in Flow, Arrive(f)
  PROVE  OwnerInv'
<1> DEFINE c == RxChan(f.in)
<1>1. c \in Chan /\ f.que \in Queue
  BY ArriveMoves
<1>2. PICK m \in pool :
        /\ pool' = pool \ {m}
        /\ chan' = [chan EXCEPT ![c][f.que] = @ \o <<m>>]
        /\ Len(chan[c][f.que]) + Len(<<m>>) <= Room(c)
  BY ArriveMoves
<1> HIDE DEF c
<1>3. m \in Mbuf /\ <<m>> \in Seq(Mbuf) /\ ToSet(<<m>>) = {m} /\ NoRepeat(<<m>>)
  <2>1. m \in Mbuf /\ <<m>> \in Seq(Mbuf)
    BY DEF DataInv, DataTypeOK
  <2>2. Len(<<m>>) = 1 /\ <<m>>[1] = m /\ DOMAIN <<m>> = {1}
    OBVIOUS
  <2>3. ToSet(<<m>>) = {m}
    BY <2>2 DEF ToSet
  <2>4. NoRepeat(<<m>>)
    BY <2>2 DEF NoRepeat
  <2> QED
    BY <2>1, <2>3, <2>4
<1> DEFINE out == <<m>>
           q == f.que
<1> HIDE DEF out, q
<1>4. \A d \in Chan, r \in Queue :
        chan'[d][r] = IF d = c /\ r = q THEN chan[c][q] \o out ELSE chan[d][r]
  <2>1. /\ c \in Chan /\ q \in Queue /\ out \in Seq(Mbuf)
        /\ Len(chan[c][q]) + Len(out) <= Room(c) /\ chan' = [chan EXCEPT ![c][q] = @ \o out]
    BY <1>1, <1>2, <1>3 DEF out, q
  <2> QED
    BY <2>1, QueueGrows
<1>5. \A x : Queued(x)' <=> Queued(x) \/ x = m
  <2>1. c \in Chan /\ q \in Queue /\ out \in Seq(Mbuf) /\ ToSet(out) = {m}
    BY <1>1, <1>3 DEF out, q
  <2>2. \A x : Queued(x)' <=> Queued(x) \/ x \in ToSet(out)
    BY <1>4, <2>1, GrownQueue
  <2> QED
    BY <2>1, <2>2
<1>6. QueuedOnce'
  <2>1. QueuedOnce /\ NoRepeat(out) /\ \A x \in ToSet(out) : ~ Queued(x)
    BY <1>3 DEF OwnerInv, out
  <2>2. c \in Chan /\ q \in Queue /\ out \in Seq(Mbuf)
    BY <1>1, <1>3 DEF out, q
  <2> QED
    BY <1>4, <2>1, <2>2, GrownQueue
<1>7. held' = held
  BY DEF Arrive, workVars
<1>8. \A x \in Mbuf : x \in pool' \/ Queued(x)' \/ \E u \in Worker : x \in held'[u]
  BY <1>2, <1>5, <1>7 DEF OwnerInv
<1>9. \A x \in pool' : ~ Queued(x)' /\ \A u \in Worker : x \notin held'[u]
  BY <1>2, <1>5, <1>7 DEF OwnerInv
<1>10. \A u \in Worker : \A x \in held'[u] :
         ~ Queued(x)' /\ \A v \in Worker : x \in held'[v] => v = u
  BY <1>2, <1>5, <1>7 DEF OwnerInv
<1> QED
  BY <1>6, <1>8, <1>9, <1>10 DEF OwnerInv

LEMMA Departing ==
  ASSUME DataInv, OwnerInv, NEW p \in Nic, NEW q \in Queue, Depart(p, q)
  PROVE  OwnerInv'
<1> DEFINE c == TxChan(p)
           s == chan[c][q]
<1>1. /\ c \in Chan /\ s \in Seq(Mbuf) /\ 1 \in 0 .. Len(s) /\ s[1] \in Mbuf /\ 1 \in 1 .. Len(s)
      /\ pool' = pool \cup {s[1]}
      /\ chan' = [chan EXCEPT ![c][q] = SubSeq(s, 1 + 1, Len(s))]
  BY DepartMoves
<1>2. \A d \in Chan, r \in Queue :
        chan'[d][r] = IF d = c /\ r = q THEN SubSeq(s, 1 + 1, Len(s)) ELSE chan[d][r]
  BY <1>1, QueueShrinks
<1>3. ToSet(SubSeq(s, 1, 1)) = {s[1]}
  <2>1. SubSeq(s, 1, 1) \in Seq(Mbuf) /\ Len(SubSeq(s, 1, 1)) = 1 /\ SubSeq(s, 1, 1)[1] = s[1]
    BY <1>1
  <2>2. \A m : m \in ToSet(SubSeq(s, 1, 1)) <=> \E k \in 1 .. 1 : SubSeq(s, 1, 1)[k] = m
    BY <2>1, ElementsOf
  <2> QED
    BY <2>1, <2>2
<1>4. QueuedOnce
  BY DEF OwnerInv
<1>5. /\ \A m : Queued(m) <=> Queued(m)' \/ m \in {s[1]}
      /\ \A m \in {s[1]} : ~ Queued(m)'
      /\ QueuedOnce'
  BY <1>1, <1>2, <1>3, <1>4, ShrunkQueue
<1>6. held' = held
  BY DEF Depart, workVars
<1> DEFINE x == s[1]
<1> HIDE DEF s, x
<1>7. \A m \in Mbuf : m \in pool' \/ Queued(m)' \/ \E u \in Worker : m \in held'[u]
  BY <1>1, <1>5, <1>6 DEF OwnerInv, x
<1>8. \A m \in pool' : ~ Queued(m)' /\ \A u \in Worker : m \notin held'[u]
  BY <1>1, <1>5, <1>6 DEF OwnerInv, x
<1>9. \A u \in Worker : \A m \in held'[u] :
        ~ Queued(m)' /\ \A v \in Worker : m \in held'[v] => v = u
  BY <1>1, <1>5, <1>6 DEF OwnerInv, x
<1> QED
  BY <1>5, <1>7, <1>8, <1>9 DEF OwnerInv

-----------------------------------------------------------------------------
(* What is left of a burst: those from the place on where the worker is.   *)
(* After acl has freed the rest of a burst there is nothing left, though   *)
(* it goes on.                                                             *)
From(w, k) == {mbufs[w][j] : j \in k .. Len(mbufs[w])}
Spent(w) == Prog(w) = "acl" /\ Len(mbufs[w]) > 1 /\ held[w] = {} /\ pc[w] = "work"

Holding(w) ==
  /\ NoRepeat(mbufs[w])
  /\ held[w] = From(w, i[w] + n_send[w]) \/ Spent(w)

LEMMA OthersHold ==
  ASSUME DataInv, \A u \in Worker : Holding(u), NEW w \in Worker, UNCHANGED setup, Holding(w)',
         \A u \in Worker \ {w} :
           /\ pc'[u] = pc[u] /\ mbufs'[u] = mbufs[u] /\ i'[u] = i[u] /\ n_send'[u] = n_send[u]
           /\ held'[u] = held[u]
  PROVE  \A u \in Worker : Holding(u)'
<1> SUFFICES ASSUME NEW u \in Worker, u # w
             PROVE  Holding(u)'
  OBVIOUS
<1>1. From(u, i[u] + n_send[u])' = From(u, i[u] + n_send[u])
  BY DEF From
<1>2. Spent(u)' <=> Spent(u)
  BY DEF Spent, Prog
<1> QED
  BY <1>1, <1>2 DEF Holding

(* Without the packet in front, and without the first n. *)
LEMMA FromNext ==
  ASSUME DataInv, NEW w \in Worker, NoRepeat(mbufs[w]), NEW k \in 1 .. Len(mbufs[w])
  PROVE  From(w, k) \ {mbufs[w][k]} = From(w, k + 1)
<1>1. mbufs[w] \in Seq(Mbuf) /\ Len(mbufs[w]) \in Nat
  BY DEF DataInv, DataTypeOK
<1>2. \A j \in k .. Len(mbufs[w]) : j = k \/ j \in k + 1 .. Len(mbufs[w])
  BY <1>1
<1>3. \A j \in k + 1 .. Len(mbufs[w]) :
        j \in k .. Len(mbufs[w]) /\ j \in 1 .. Len(mbufs[w]) /\ j # k
  BY <1>1
<1>4. \A j \in k + 1 .. Len(mbufs[w]) : mbufs[w][j] # mbufs[w][k]
  BY <1>3 DEF NoRepeat
<1> QED
  BY <1>2, <1>3, <1>4 DEF From

LEMMA FromLater ==
  ASSUME DataInv, NEW w \in Worker, NoRepeat(mbufs[w]), NEW s \in Seq(Mbuf),
         i[w] \in Nat \ {0}, i[w] + Len(s) - 1 <= Len(mbufs[w]),
         \A k \in 1 .. Len(s) : s[k] = mbufs[w][i[w] + k - 1], NEW n \in 0 .. Len(s)
  PROVE  /\ From(w, i[w]) \ ToSet(SubSeq(s, 1, n)) = From(w, i[w] + n)
         /\ NoRepeat(SubSeq(s, 1, n))
<1> DEFINE b == mbufs[w]
           out == SubSeq(s, 1, n)
           a == i[w]
<1>1. b \in Seq(Mbuf) /\ Len(b) \in Nat /\ Len(s) \in Nat /\ a \in Nat /\ a >= 1 /\ n \in Nat
  BY DEF DataInv, DataTypeOK
<1>2. out \in Seq(Mbuf) /\ Len(out) = n /\ \A k \in 1 .. n : out[k] = s[k]
  BY <1>1
<1>3. \A k \in 1 .. n : out[k] = b[a + k - 1]
  BY <1>1, <1>2
<1>4. \A x, y \in 1 .. Len(b) : b[x] = b[y] => x = y
  BY DEF NoRepeat
<1> HIDE DEF out, b, a
<1>5. \A k \in 1 .. n : a + k - 1 \in 1 .. Len(b) /\ a + k - 1 \in a .. Len(b)
  BY <1>1 DEF a, b
<1>6. NoRepeat(out)
  <2> SUFFICES ASSUME NEW j \in 1 .. n, NEW k \in 1 .. n, out[j] = out[k]
               PROVE  j = k
    BY <1>2 DEF NoRepeat
  <2>1. a + j - 1 = a + k - 1
    <3>1. b[a + j - 1] = b[a + k - 1]
      BY <1>3
    <3>2. a + j - 1 \in 1 .. Len(b) /\ a + k - 1 \in 1 .. Len(b)
      BY <1>5
    <3> QED
      BY <1>4, <3>1, <3>2
  <2> QED
    BY <1>1, <2>1
<1>7. \A j \in a .. Len(b) : \/ j - a + 1 \in 1 .. n /\ a + (j - a + 1) - 1 = j
                             \/ j \in a + n .. Len(b)
  <2> SUFFICES ASSUME NEW j \in a .. Len(b)
               PROVE  \/ j - a + 1 \in 1 .. n /\ a + (j - a + 1) - 1 = j
                      \/ j \in a + n .. Len(b)
    OBVIOUS
  <2>1. a \in Nat /\ j \in Int /\ a <= j /\ j <= Len(b) /\ n \in Nat /\ Len(b) \in Nat
    BY <1>1
  <2>2. CASE j < a + n
    BY <2>1, <2>2
  <2>3. CASE j >= a + n
    BY <2>1, <2>3
  <2> QED
    BY <2>1, <2>2, <2>3
<1>8. \A j \in a + n .. Len(b) : j \in a .. Len(b) /\ j \in 1 .. Len(b)
  BY <1>1
<1>9. \A j \in a + n .. Len(b), k \in 1 .. n : a + k - 1 # j
  BY <1>1
<1>10. {b[j] : j \in a .. Len(b)} \ ToSet(out) = {b[j] : j \in a + n .. Len(b)}
  <2>1. ASSUME NEW j \in a .. Len(b), b[j] \notin ToSet(out)
        PROVE  j \in a + n .. Len(b)
    <3>1. \A k \in 1 .. n : out[k] # b[j]
      BY <1>2, <2>1, ElementsOf
    <3>2. CASE j - a + 1 \in 1 .. n /\ a + (j - a + 1) - 1 = j
      BY <1>3, <3>1, <3>2
    <3> QED
      BY <1>7, <3>2
  <2>2. ASSUME NEW j \in a + n .. Len(b)
        PROVE  b[j] \notin ToSet(out)
    <3>1. \A k \in 1 .. n : b[a + k - 1] # b[j]
      BY <1>4, <1>5, <1>8, <1>9
    <3>2. \A k \in 1 .. n : out[k] # b[j]
      BY <1>3, <3>1
    <3> QED
      BY <1>2, <3>2, ElementsOf
  <2> QED
    BY <1>8, <2>1, <2>2
<1> QED
  BY <1>6, <1>10 DEF From, out, a, b

(* s is the part of w's burst that it sends next. *)
Part(w, s) ==
  /\ s \in Seq(Mbuf) /\ Len(s) >= 1 /\ i[w] + Len(s) - 1 <= Len(mbufs[w])
  /\ \A k \in 1 .. Len(s) : s[k] = mbufs[w][i[w] + k - 1]

LEMMA Parts ==
  ASSUME DataInv, NEW w \in Worker, pc[w] = "work"
  PROVE  /\ Prog(w) \in {"l2fwd", "l2fwd_numa"} => Part(w, mbufs[w])
         /\ Part(w, <<mbufs[w][i[w]]>>)
<1>1. i[w] \in Nat \ {0} /\ i[w] <= Len(mbufs[w]) /\ mbufs[w] \in Seq(Mbuf) /\ Len(mbufs[w]) \in Nat
  BY DEF DataInv, DataTypeOK, Loop
<1>2. ASSUME Prog(w) \in {"l2fwd", "l2fwd_numa"}
      PROVE  Part(w, mbufs[w])
  <2>1. i[w] = 1
    BY <1>2 DEF DataInv, Loop
  <2>2. \A k \in 1 .. Len(mbufs[w]) : i[w] + k - 1 = k
    BY <1>1, <2>1
  <2> QED
    BY <1>1, <2>1, <2>2 DEF Part
<1>3. Part(w, <<mbufs[w][i[w]]>>)
  <2> DEFINE m == mbufs[w][i[w]]
  <2>1. <<m>> \in Seq(Mbuf) /\ Len(<<m>>) = 1
    BY PacketOf
  <2>2. \A k \in 1 .. 1 : <<m>>[k] = m /\ i[w] + k - 1 = i[w]
    BY <1>1
  <2>3. \A k \in 1 .. Len(<<m>>) : <<m>>[k] = mbufs[w][i[w] + k - 1]
    BY <2>1, <2>2
  <2>4. i[w] + Len(<<m>>) - 1 <= Len(mbufs[w])
    BY <1>1, <2>1
  <2> HIDE DEF m
  <2> QED
    BY <2>1, <2>3, <2>4 DEF Part, m
<1> QED
  BY <1>2, <1>3

LEMMA TxBurstOwns ==
  ASSUME DataInv, OwnerInv, \A u \in Worker : Holding(u), NEW w \in Worker, pc[w] = "work",
         NEW s, Part(w, s), TxBurst(w, s), ~ misuse'
  PROVE  OwnerInv' /\ \A u \in Worker : Holding(u)'
<1>1. /\ s \in Seq(Mbuf) /\ Len(s) \in Nat /\ 1 \in 1 .. Len(s) /\ i[w] \in Nat \ {0}
      /\ n_send[w] = 0 /\ NoRepeat(mbufs[w])
  BY DEF Part, DataInv, DataTypeOK, Loop, Holding
<1>2. PICK n \in 0 .. Len(s) :
        /\ Len(SubSeq(s, 1, n)) = n /\ SubSeq(s, 1, n) \in Seq(Mbuf)
        /\ Len(chan[TxTo(w)][TxQueue(w)]) + n <= Room(TxTo(w))
        /\ chan' = [chan EXCEPT ![TxTo(w)][TxQueue(w)] = @ \o SubSeq(s, 1, n)]
        /\ n_send' = [n_send EXCEPT ![w] = n]
        /\ held' = [held EXCEPT ![w] = @ \ ToSet(SubSeq(s, 1, n))]
  BY <1>1, TxBurstMoves
<1>3. TxTo(w) \in Chan /\ TxQueue(w) \in Queue
  BY <1>1, TxBurstMoves
<1> DEFINE out == SubSeq(s, 1, n)
<1> HIDE DEF out
<1>4. \A d \in Chan, r \in Queue :
        chan'[d][r] = IF d = TxTo(w) /\ r = TxQueue(w) THEN chan[TxTo(w)][TxQueue(w)] \o out
                      ELSE chan[d][r]
  BY <1>2, <1>3, QueueGrows DEF out
<1>5. ToSet(s) \subseteq held[w]
  BY DEF TxBurst
<1>6. held[w] = From(w, i[w])
  <2>1. s[1] \in ToSet(s)
    BY <1>1, ElementsOf
  <2>2. ~ Spent(w)
    BY <1>5, <2>1 DEF Spent
  <2>3. i[w] + n_send[w] = i[w]
    BY <1>1
  <2> QED
    BY <2>2, <2>3 DEF Holding
<1>7. ToSet(out) \subseteq held[w]
  <2>1. \A k \in 1 .. n : out[k] = s[k] /\ k \in 1 .. Len(s)
    BY <1>1 DEF out
  <2>2. \A k \in 1 .. n : out[k] \in ToSet(s)
    BY <1>1, <2>1, ElementsOf
  <2>3. \A m \in ToSet(out) : \E k \in 1 .. n : out[k] = m
    BY <1>2, ElementsOf DEF out
  <2> QED
    BY <1>5, <2>2, <2>3
<1>8. From(w, i[w]) \ ToSet(out) = From(w, i[w] + n) /\ NoRepeat(out)
  BY <1>1, FromLater DEF Part, out
<1>9. OwnerInv'
  <2>1. out \in Seq(Mbuf) /\ held' = [held EXCEPT ![w] = @ \ ToSet(out)] /\ UNCHANGED pool
    BY <1>2 DEF out, TxBurst
  <2> QED
    BY <1>3, <1>4, <1>7, <1>8, <2>1, Queueing
<1>10. UNCHANGED <<setup, mbufs, i>> /\ pc' = [pc EXCEPT ![w] = "sent"]
  BY DEF TxBurst
<1>11. Holding(w)'
  <2>1. held'[w] = From(w, i[w] + n) /\ n_send'[w] = n
    BY <1>2, <1>6, <1>8 DEF DataInv, DataTypeOK, out
  <2>2. From(w, i[w] + n)' = From(w, i'[w] + n)
    BY <1>10 DEF From
  <2> QED
    BY <1>1, <1>10, <2>1 DEF Holding, From
<1>12. \A u \in Worker \ {w} :
         /\ pc'[u] = pc[u] /\ mbufs'[u] = mbufs[u] /\ i'[u] = i[u] /\ n_send'[u] = n_send[u]
         /\ held'[u] = held[u]
  BY <1>2, <1>10 DEF DataInv, DataTypeOK
<1> QED
  BY <1>9, <1>10, <1>11, <1>12, OthersHold

(* Only acl sends what it does not hold. *)
LEMMA TxBurstMisuses ==
  ASSUME DataInv, \A u \in Worker : Holding(u), ~ misuse, NEW w \in Worker, pc[w] = "work",
         NEW s, Part(w, s), TxBurst(w, s), misuse'
  PROVE  MayMisuse(w)
<1>1. ~ (ToSet(s) \subseteq held[w])
  BY DEF TxBurst
<1>2. i[w] + n_send[w] = i[w] /\ i[w] \in Nat \ {0} /\ s \in Seq(Mbuf)
  BY DEF DataInv, DataTypeOK, Loop, Part
<1>3. ToSet(s) \subseteq From(w, i[w])
  <2>1. \A k \in 1 .. Len(s) : i[w] + k - 1 \in i[w] .. Len(mbufs[w])
    <3>1. i[w] + Len(s) - 1 <= Len(mbufs[w]) /\ i[w] \in Nat
      BY <1>2 DEF Part
    <3>2. Len(s) \in Nat /\ Len(mbufs[w]) \in Nat
      BY <1>2 DEF DataInv, DataTypeOK
    <3> QED
      BY <3>1, <3>2
  <2>2. \A k \in 1 .. Len(s) : s[k] \in From(w, i[w])
    BY <2>1 DEF Part, From
  <2> QED
    BY <1>2, <2>2, ElementsOf
<1>4. Spent(w)
  BY <1>1, <1>2, <1>3 DEF Holding
<1> QED
  BY <1>4 DEF Spent, MayMisuse

LEMMA NextPollHolds ==
  ASSUME DataInv, \A u \in Worker : Holding(u), NEW w \in Worker, NextPoll(w), UNCHANGED setup,
         held'[w] = {}, \A u \in Worker \ {w} : held'[u] = held[u]
  PROVE  \A u \in Worker : Holding(u)'
<1>1. mbufs'[w] = <<>> /\ i'[w] = 1 /\ n_send'[w] = 0
  BY DEF NextPoll, DataInv, DataTypeOK
<1>2. From(w, i[w] + n_send[w])' = {}
  BY <1>1 DEF From
<1>3. Holding(w)'
  BY <1>1, <1>2 DEF Holding, NoRepeat
<1>4. \A u \in Worker \ {w} :
        /\ pc'[u] = pc[u] /\ mbufs'[u] = mbufs[u] /\ i'[u] = i[u] /\ n_send'[u] = n_send[u]
        /\ held'[u] = held[u]
  BY DEF NextPoll, DataInv, DataTypeOK
<1> QED
  BY <1>3, <1>4, OthersHold

LEMMA NextPacketHolds ==
  ASSUME DataInv, \A u \in Worker : Holding(u), NEW w \in Worker, pc[w] \in {"work", "sent"},
         NextPacket(w), UNCHANGED setup,
         \/ held'[w] = From(w, i[w] + 1)
         \/ Prog(w) = "acl" /\ held'[w] = {},
         \A u \in Worker \ {w} : held'[u] = held[u]
  PROVE  \A u \in Worker : Holding(u)'
<1>1. i[w] \in Nat \ {0} /\ i[w] <= Len(mbufs[w]) /\ Len(mbufs[w]) \in Nat
  BY DEF DataInv, DataTypeOK, Loop
<1>2. CASE i[w] < Len(mbufs[w])
  <2>1. /\ i' = [i EXCEPT ![w] = @ + 1] /\ n_send' = [n_send EXCEPT ![w] = 0]
        /\ pc' = [pc EXCEPT ![w] = "work"] /\ UNCHANGED mbufs
    BY <1>2 DEF NextPacket
  <2>2. i'[w] = i[w] + 1 /\ n_send'[w] = 0 /\ pc'[w] = "work" /\ i'[w] + n_send'[w] = i[w] + 1
    BY <1>1, <2>1 DEF DataInv, DataTypeOK
  <2>3. From(w, i[w] + n_send[w])' = From(w, i[w] + 1)
    BY <2>1, <2>2 DEF From
  <2>4. Len(mbufs[w]) > 1
    BY <1>1, <1>2
  <2>5. Holding(w)'
    BY <2>1, <2>2, <2>3, <2>4 DEF Holding, Spent, Prog
  <2>6. \A u \in Worker \ {w} :
          /\ pc'[u] = pc[u] /\ mbufs'[u] = mbufs[u] /\ i'[u] = i[u] /\ n_send'[u] = n_send[u]
          /\ held'[u] = held[u]
    BY <2>1 DEF DataInv, DataTypeOK
  <2> QED
    BY <2>5, <2>6, OthersHold
<1>3. CASE ~ (i[w] < Len(mbufs[w]))
  <2>1. NextPoll(w)
    BY <1>3 DEF NextPacket
  <2>2. From(w, i[w] + 1) = {}
    BY <1>1, <1>3 DEF From
  <2> QED
    BY <2>1, <2>2, NextPollHolds
<1> QED
  BY <1>2, <1>3

(* What is freed after a tx_burst is the rest, but for acl. *)
LEMMA UnsentIsRest ==
  ASSUME DataInv, NEW w \in Worker, Holding(w), pc[w] = "sent", Prog(w) # "acl"
  PROVE  /\ Unsent(w) \subseteq held[w]
         /\ Prog(w) = "l3fwd" => held[w] \ Unsent(w) = From(w, i[w] + 1)
         /\ Prog(w) # "l3fwd" => held[w] \ Unsent(w) = {}
<1>1. /\ i[w] \in Nat \ {0} /\ n_send[w] \in Nat /\ NoRepeat(mbufs[w])
      /\ i[w] \in 1 .. Len(mbufs[w])
      /\ Prog(w) \in Program
  BY PacketOf, DataPlaneAssumption DEF DataInv, DataTypeOK, Holding, Prog, Worker
<1>2. held[w] = From(w, i[w] + n_send[w])
  BY DEF Holding, Spent
<1>3. CASE Prog(w) = "l3fwd"
  <2>1. n_send[w] = 0 \/ n_send[w] = 1
    BY <1>1, <1>3 DEF DataInv, Loop
  <2>2. CASE n_send[w] = 0
    <3>1. Unsent(w) = {mbufs[w][i[w]]} /\ i[w] + n_send[w] = i[w]
      BY <1>1, <1>3, <2>2 DEF Unsent
    <3>2. mbufs[w][i[w]] \in From(w, i[w])
      BY <1>1 DEF From
    <3> QED
      BY <1>1, <1>2, <1>3, <3>1, <3>2, FromNext
  <2>3. CASE n_send[w] = 1
    <3>1. Unsent(w) = {} /\ i[w] + n_send[w] = i[w] + 1
      BY <1>1, <1>3, <2>3 DEF Unsent
    <3> QED
      BY <1>2, <1>3, <3>1
  <2> QED
    BY <2>1, <2>2, <2>3
<1>4. CASE Prog(w) # "l3fwd"
  <2>1. i[w] = 1
    BY <1>1, <1>4 DEF DataInv, Loop, Program
  <2>2. i[w] + n_send[w] = n_send[w] + 1
    BY <1>1, <2>1
  <2>3. Unsent(w) = From(w, n_send[w] + 1)
    BY <1>4 DEF Unsent, From
  <2> QED
    BY <1>2, <1>4, <2>2, <2>3
<1> QED
  BY <1>3, <1>4

(* acl frees what it holds only with its first packet, and then all of it. *)
LEMMA AclFreesAll ==
  ASSUME DataInv, NEW w \in Worker, Holding(w), pc[w] = "sent", Prog(w) = "acl"
  PROVE  /\ Unsent(w) \subseteq held[w] => held[w] \ Unsent(w) = {}
         /\ Len(mbufs[w]) = 1 => Unsent(w) \subseteq held[w]
<1>1. /\ i[w] \in Nat \ {0} /\ n_send[w] \in Nat /\ NoRepeat(mbufs[w])
      /\ i[w] \in 1 .. Len(mbufs[w]) /\ Len(mbufs[w]) \in Nat
  BY PacketOf DEF DataInv, DataTypeOK, Holding
<1>2. held[w] = From(w, i[w] + n_send[w])
  BY DEF Holding, Spent
<1>3. n_send[w] = 0 \/ n_send[w] = 1
  BY <1>1 DEF DataInv, Loop
<1>4. Unsent(w) = From(w, n_send[w] + 1)
  BY DEF Unsent, From
<1>5. CASE i[w] = 1
  <2>1. i[w] + n_send[w] = n_send[w] + 1
    BY <1>1, <1>5
  <2> QED
    BY <1>2, <1>4, <2>1
<1>6. CASE i[w] # 1
  <2>1. n_send[w] + 1 \in n_send[w] + 1 .. Len(mbufs[w]) /\ n_send[w] + 1 \in 1 .. Len(mbufs[w])
    BY <1>1, <1>3, <1>6
  <2>2. \A j \in i[w] + n_send[w] .. Len(mbufs[w]) : j \in 1 .. Len(mbufs[w]) /\ j # n_send[w] + 1
    BY <1>1, <1>6
  <2>3. mbufs[w][n_send[w] + 1] \in Unsent(w)
    BY <1>4, <2>1 DEF From
  <2>4. mbufs[w][n_send[w] + 1] \notin held[w]
    BY <1>1, <1>2, <2>1, <2>2 DEF From, NoRepeat
  <2>5. Len(mbufs[w]) # 1
    <3>1. \A j \in Nat \ {0, 1}, n \in Nat : j \in 1 .. n => n # 1
      OBVIOUS
    <3> QED
      BY <1>1, <1>6, <3>1
  <2> QED
    BY <2>3, <2>4, <2>5
<1> QED
  BY <1>5, <1>6

-----------------------------------------------------------------------------
(* Each step of a worker keeps the owners, or is one that may misuse.      *)
Owned == OwnerInv /\ \A w \in Worker : Holding(w)

LEMMA PollOwns ==
  ASSUME DataInv, Owned, NEW w \in Worker, Poll(w)
  PROVE  Owned'
<1> DEFINE s == chan[RxFrom(w)][RxQueue(w)]
<1>1. PICK n \in 0 .. Len(s) :
        /\ chan' = [chan EXCEPT ![RxFrom(w)][RxQueue(w)] = SubSeq(s, n + 1, Len(s))]
        /\ held' = [held EXCEPT ![w] = ToSet(SubSeq(s, 1, n))]
        /\ SubSeq(s, 1, n) \in Seq(Mbuf) /\ Len(SubSeq(s, 1, n)) = n
        /\ IF RxCounter(w) = setup.watch
           THEN /\ pc' = [pc EXCEPT ![w] = "counted"]
                /\ mbufs' = [mbufs EXCEPT ![w] = SubSeq(s, 1, n)]
                /\ UNCHANGED <<pid, i, dst, n_send>>
           ELSE Received(w, SubSeq(s, 1, n))
  BY PollMoves
<1>2. RxFrom(w) \in Chan /\ RxQueue(w) \in Queue
  BY PollMoves
<1>3. \A d \in Chan, r \in Queue :
        chan'[d][r] = IF d = RxFrom(w) /\ r = RxQueue(w) THEN SubSeq(s, n + 1, Len(s))
                      ELSE chan[d][r]
  BY <1>1, <1>2, QueueShrinks
<1>4. UNCHANGED <<setup, pool>> /\ pc[w] = "poll"
  BY DEF Poll
<1>5. mbufs[w] = <<>> /\ i[w] = 1 /\ n_send[w] = 0
  BY <1>4 DEF DataInv, Loop
<1>6. held[w] = {}
  <2>1. From(w, i[w] + n_send[w]) = {}
    BY <1>5 DEF From
  <2> QED
    BY <1>4, <2>1 DEF Owned, Holding, Spent
<1>7. OwnerInv' /\ NoRepeat(SubSeq(s, 1, n))
  BY <1>1, <1>2, <1>3, <1>4, <1>6, Taking DEF Owned
<1> DEFINE burst == SubSeq(s, 1, n)
<1> HIDE DEF s, burst
<1>8. /\ held'[w] = {burst[k] : k \in 1 .. Len(burst)}
      /\ \A u \in Worker \ {w} : held'[u] = held[u]
  <2>1. ToSet(burst) = {burst[k] : k \in 1 .. Len(burst)}
    BY DEF ToSet
  <2>2. held' = [held EXCEPT ![w] = ToSet(burst)]
    BY <1>1 DEF burst
  <2> QED
    BY <2>1, <2>2 DEF DataInv, DataTypeOK
<1>9. \A u \in Worker : Holding(u)'
  <2>1. ASSUME mbufs' = [mbufs EXCEPT ![w] = burst], UNCHANGED <<i, n_send>>,
               \A u \in Worker \ {w} : pc'[u] = pc[u]
        PROVE  \A u \in Worker : Holding(u)'
    <3>1. mbufs'[w] = burst /\ i'[w] + n_send'[w] = 1
      BY <1>5, <2>1 DEF DataInv, DataTypeOK
    <3>2. From(w, i[w] + n_send[w])' = held'[w]
      BY <1>8, <3>1 DEF From
    <3>3. Holding(w)'
      BY <1>7, <3>1, <3>2 DEF Holding, NoRepeat, burst
    <3>4. \A u \in Worker \ {w} :
            /\ pc'[u] = pc[u] /\ mbufs'[u] = mbufs[u] /\ i'[u] = i[u] /\ n_send'[u] = n_send[u]
            /\ held'[u] = held[u]
      BY <1>8, <2>1 DEF DataInv, DataTypeOK
    <3> QED
      BY <1>4, <3>3, <3>4, OthersHold DEF Owned
  <2>2. CASE RxCounter(w) = setup.watch
    BY <1>1, <2>1, <2>2 DEF burst, DataInv, DataTypeOK
  <2>3. CASE RxCounter(w) # setup.watch
    <3>1. CASE burst = <<>>
      <4>1. NextPoll(w)
        BY <1>1, <2>3, <3>1 DEF Received, burst
      <4>2. held'[w] = {}
        BY <1>8, <3>1
      <4> QED
        BY <1>4, <1>8, <4>1, <4>2, NextPollHolds DEF Owned
    <3>2. CASE burst # <<>>
      BY <1>1, <2>1, <2>3, <3>2 DEF Received, burst, DataInv, DataTypeOK
    <3> QED
      BY <3>1, <3>2
  <2> QED
    BY <2>2, <2>3
<1> QED
  BY <1>7, <1>9 DEF Owned

LEMMA CountRxOwns ==
  ASSUME DataInv, Owned, NEW w \in Worker, CountRx(w)
  PROVE  Owned'
<1>1. /\ pc[w] = "counted" /\ Received(w, mbufs[w])
      /\ UNCHANGED <<setup, chan, pool, held>>
  BY DEF CountRx
<1>2. OwnerInv'
  BY <1>1 DEF Owned, OwnerInv, QueuedOnce, Queued
<1>3. i[w] = 1 /\ n_send[w] = 0
  BY <1>1 DEF DataInv, Loop
<1>4. \A u \in Worker : Holding(u)'
  <2>1. CASE mbufs[w] = <<>>
    <3>1. From(w, i[w] + n_send[w]) = {}
      BY <1>3, <2>1 DEF From
    <3>2. held[w] = {}
      BY <1>1, <3>1 DEF Owned, Holding, Spent
    <3> QED
      BY <1>1, <2>1, <3>2, NextPollHolds DEF Received, Owned
  <2>2. CASE mbufs[w] # <<>>
    <3>1. /\ mbufs' = [mbufs EXCEPT ![w] = mbufs[w]] /\ pc' = [pc EXCEPT ![w] = "work"]
          /\ UNCHANGED <<pid, i, dst, n_send>>
      BY <1>1, <2>2 DEF Received
    <3>2. UNCHANGED mbufs
      BY <3>1 DEF DataInv, DataTypeOK
    <3>3. held[w] = From(w, i[w] + n_send[w]) /\ NoRepeat(mbufs[w])
      BY <1>1 DEF Owned, Holding, Spent
    <3>4. Holding(w)'
      BY <1>1, <3>1, <3>2, <3>3 DEF Holding, From
    <3>5. \A u \in Worker \ {w} :
            /\ pc'[u] = pc[u] /\ mbufs'[u] = mbufs[u] /\ i'[u] = i[u] /\ n_send'[u] = n_send[u]
            /\ held'[u] = held[u]
      BY <1>1, <3>1, <3>2 DEF DataInv, DataTypeOK
    <3> QED
      BY <1>1, <3>4, <3>5, OthersHold DEF Owned
  <2> QED
    BY <2>1, <2>2
<1> QED
  BY <1>2, <1>4 DEF Owned

LEMMA BurstOwns ==
  ASSUME DataInv, Owned, ~ misuse, NEW w \in Worker, pc[w] = "work",
         NEW s, Part(w, s), TxBurst(w, s)
  PROVE  (~ misuse' => Owned') /\ (misuse' => MayMisuse(w))
<1>1. ~ misuse' => Owned'
  BY TxBurstOwns DEF Owned
<1>2. misuse' => MayMisuse(w)
  BY TxBurstMisuses DEF Owned
<1> QED
  BY <1>1, <1>2

LEMMA ForwardOwns ==
  ASSUME DataInv, Owned, ~ misuse, NEW w \in Worker, Forward(w)
  PROVE  (~ misuse' => Owned') /\ (misuse' => MayMisuse(w))
<1>1. pc[w] = "work" /\ Part(w, mbufs[w]) /\ TxBurst(w, mbufs[w])
  BY Parts DEF Forward
<1> QED
  BY <1>1, BurstOwns

LEMMA RouteOwns ==
  ASSUME DataInv, Owned, ~ misuse, NEW w \in Worker, Route(w)
  PROVE  (~ misuse' => Owned') /\ (misuse' => MayMisuse(w))
<1> DEFINE m == mbufs[w][i[w]]
<1>1. pc[w] = "work" /\ Prog(w) = "l3fwd" /\ Part(w, <<m>>) /\ i[w] \in 1 .. Len(mbufs[w])
  BY Parts, PacketOf DEF Route
<1>2. CASE pkt[m].flow.ip4
  <2>1. TxBurst(w, <<m>>)
    BY <1>2 DEF Route
  <2> QED
    BY <1>1, <2>1, BurstOwns
<1>3. CASE ~ pkt[m].flow.ip4
  <2>1. misuse'
    BY <1>3 DEF Route
  <2>2. MayMisuse(w)
    BY <1>1, <1>3 DEF MayMisuse
  <2> QED
    BY <2>1, <2>2
<1> QED
  BY <1>2, <1>3

(* Freeing what it holds changes the set of one worker only. *)
LEMMA FreeOwns ==
  ASSUME DataInv, OwnerInv, NEW w \in Worker, NEW S, Free(w, S), ~ misuse', UNCHANGED chan
  PROVE  /\ OwnerInv' /\ S \subseteq held[w]
         /\ held'[w] = held[w] \ S /\ \A u \in Worker \ {w} : held'[u] = held[u]
<1>1. held' = [held EXCEPT ![w] = @ \ S] /\ pool' = pool \cup S /\ S \subseteq held[w]
  BY DEF Free
<1>2. OwnerInv'
  <2>1. S \in SUBSET held[w]
    BY <1>1
  <2> QED
    BY <1>1, <2>1, Freeing
<1> QED
  BY <1>1, <1>2 DEF DataInv, DataTypeOK

LEMMA FilterOwns ==
  ASSUME DataInv, Owned, ~ misuse, NEW w \in Worker, Filter(w)
  PROVE  (~ misuse' => Owned') /\ (misuse' => MayMisuse(w))
<1> DEFINE m == mbufs[w][i[w]]
<1>1. pc[w] = "work" /\ Prog(w) = "acl" /\ Part(w, <<m>>) /\ i[w] \in 1 .. Len(mbufs[w])
  BY Parts, PacketOf DEF Filter
<1>2. CASE m \in held[w] /\ ~ pkt[m].flow.pass
  <2>1. Free(w, {m}) /\ NextPacket(w) /\ UNCHANGED <<setup, chan>>
    BY <1>2 DEF Filter
  <2>2. ~ misuse'
    BY <1>2, <2>1 DEF Free
  <2>3. OwnerInv' /\ held'[w] = held[w] \ {m} /\ \A u \in Worker \ {w} : held'[u] = held[u]
    BY <2>1, <2>2, FreeOwns DEF Owned
  <2>4. held'[w] = From(w, i[w] + 1)
    <3>1. n_send[w] = 0 /\ i[w] \in Nat
      BY <1>1 DEF DataInv, DataTypeOK, Loop
    <3>2. i[w] + n_send[w] = i[w]
      BY <3>1
    <3>3. held[w] = From(w, i[w]) /\ NoRepeat(mbufs[w])
      BY <1>2, <3>2 DEF Owned, Holding, Spent
    <3> QED
      BY <1>1, <2>3, <3>3, FromNext
  <2>5. \A u \in Worker : Holding(u)'
    BY <1>1, <2>1, <2>3, <2>4, NextPacketHolds DEF Owned
  <2> QED
    BY <2>2, <2>3, <2>5 DEF Owned
<1>3. CASE ~ (m \in held[w] /\ ~ pkt[m].flow.pass)
  <2>1. TxBurst(w, <<m>>)
    BY <1>3 DEF Filter
  <2> QED
    BY <1>1, <2>1, BurstOwns
<1> QED
  BY <1>2, <1>3

LEMMA AfterTxOwns ==
  ASSUME DataInv, Owned, ~ misuse, NEW w \in Worker, AfterTx(w)
  PROVE  (~ misuse' => Owned') /\ (misuse' => MayMisuse(w))
<1>1. /\ pc[w] = "sent" /\ Free(w, Unsent(w)) /\ Holding(w) /\ UNCHANGED <<setup, chan>>
      /\ IF Prog(w) \in {"l3fwd", "acl"} THEN NextPacket(w) ELSE NextPoll(w)
  BY DEF AfterTx, Owned
<1>2. ASSUME misuse'
      PROVE  MayMisuse(w)
  <2>1. ~ (Unsent(w) \subseteq held[w])
    BY <1>1, <1>2 DEF Free
  <2>2. Prog(w) = "acl"
    BY <1>1, <2>1, UnsentIsRest
  <2>3. Len(mbufs[w]) # 1
    BY <1>1, <2>1, <2>2, AclFreesAll
  <2>4. Len(mbufs[w]) \in Nat /\ i[w] \in 1 .. Len(mbufs[w])
    BY <1>1, PacketOf DEF DataInv, DataTypeOK
  <2>5. Len(mbufs[w]) > 1
    <3>1. \A j \in Nat, n \in Nat : j \in 1 .. n /\ n # 1 => n > 1
      OBVIOUS
    <3>2. i[w] \in Nat
      BY DEF DataInv, DataTypeOK
    <3> QED
      BY <2>3, <2>4, <3>1, <3>2
  <2> QED
    BY <2>2, <2>5 DEF MayMisuse
<1>3. ASSUME ~ misuse'
      PROVE  Owned'
  <2>1. /\ OwnerInv' /\ Unsent(w) \subseteq held[w] /\ held'[w] = held[w] \ Unsent(w)
        /\ \A u \in Worker \ {w} : held'[u] = held[u]
    BY <1>1, <1>3, FreeOwns DEF Owned
  <2>2. \A u \in Worker : Holding(u)'
    <3>1. CASE Prog(w) = "acl"
      <4>1. held'[w] = {}
        BY <1>1, <2>1, <3>1, AclFreesAll
      <4> QED
        BY <1>1, <2>1, <3>1, <4>1, NextPacketHolds DEF Owned
    <3>2. CASE Prog(w) = "l3fwd"
      <4>1. held'[w] = From(w, i[w] + 1)
        BY <1>1, <2>1, <3>2, UnsentIsRest
      <4> QED
        BY <1>1, <2>1, <3>2, <4>1, NextPacketHolds DEF Owned
    <3>3. CASE Prog(w) \notin {"acl", "l3fwd"}
      <4>1. held'[w] = {}
        BY <1>1, <2>1, <3>3, UnsentIsRest
      <4> QED
        BY <1>1, <2>1, <3>3, <4>1, NextPollHolds DEF Owned
    <3> QED
      BY <3>1, <3>2, <3>3
  <2> QED
    BY <2>1, <2>2 DEF Owned
<1> QED
  BY <1>2, <1>3

LEMMA OwnersRest ==
  ASSUME DataInv, Owned, UNCHANGED <<setup, workVars>>, OwnerInv'
  PROVE  Owned'
<1>1. \A w \in Worker : Holding(w)'
  <2> SUFFICES ASSUME NEW w \in Worker
               PROVE  Holding(w)'
    OBVIOUS
  <2>1. From(w, i[w] + n_send[w])' = From(w, i[w] + n_send[w])
    BY DEF From, workVars
  <2>2. Spent(w)' <=> Spent(w)
    BY DEF Spent, Prog, workVars
  <2> QED
    BY <2>1, <2>2 DEF Owned, Holding, workVars
<1> QED
  BY <1>1 DEF Owned

LEMMA OwnersStep ==
  ASSUME DataInv, Owned, ~ misuse, [Next]_vars
  PROVE  (~ misuse' => Owned') /\ (misuse' => \E w \in Worker : MayMisuse(w))
<1>1. ASSUME NEW w \in Worker, Work(w)
      PROVE  (~ misuse' => Owned') /\ (misuse' => MayMisuse(w))
  <2>1. CASE Poll(w)
    <3>1. ~ misuse'
      BY <2>1 DEF Poll
    <3> QED
      BY <2>1, <3>1, PollOwns
  <2>2. CASE CountRx(w)
    <3>1. ~ misuse'
      BY <2>2 DEF CountRx
    <3> QED
      BY <2>2, <3>1, CountRxOwns
  <2>3. CASE Forward(w)
    BY <2>3, ForwardOwns
  <2>4. CASE Route(w)
    BY <2>4, RouteOwns
  <2>5. CASE Filter(w)
    BY <2>5, FilterOwns
  <2>6. CASE AfterTx(w)
    BY <2>6, AfterTxOwns
  <2> QED
    BY <1>1, <2>1, <2>2, <2>3, <2>4, <2>5, <2>6 DEF Work
<1>2. ASSUME NEW f \in Flow, Arrive(f)
      PROVE  ~ misuse' /\ Owned'
  <2>1. ~ misuse' /\ UNCHANGED <<setup, workVars>>
    BY <1>2 DEF Arrive
  <2>2. OwnerInv'
    BY <1>2, Arriving DEF Owned
  <2> QED
    BY <2>1, <2>2, OwnersRest
<1>3. ASSUME NEW p \in Nic, NEW q \in Queue, Depart(p, q)
      PROVE  ~ misuse' /\ Owned'
  <2>1. ~ misuse' /\ UNCHANGED <<setup, workVars>>
    BY <1>3 DEF Depart
  <2>2. OwnerInv'
    BY <1>3, Departing DEF Owned
  <2> QED
    BY <2>1, <2>2, OwnersRest
<1>4. ASSUME UNCHANGED <<setup, chan, pool, workVars, misuse>>
      PROVE  ~ misuse' /\ Owned'
  <2>1. OwnerInv'
    BY <1>4 DEF Owned, OwnerInv, QueuedOnce, Queued, workVars
  <2> QED
    BY <1>4, <2>1, OwnersRest
<1>5. CASE TickRead \/ TickZero
  BY <1>4, <1>5 DEF TickRead, TickZero
<1>6. CASE UNCHANGED vars
  BY <1>4, <1>6 DEF vars
<1> QED
  BY <1>1, <1>2, <1>3, <1>5, <1>6 DEF Next

LEMMA OwnersInit == Init => Owned
<1> SUFFICES ASSUME Init
             PROVE  Owned
  OBVIOUS
<1>1. pool = Mbuf /\ held = [w \in Worker |-> {}] /\ mbufs = [w \in Worker |-> <<>>]
  BY DEF Init
<1>2. \A c \in Chan, q \in Queue : chan[c][q] = <<>>
  BY DEF Init
<1>3. OwnerInv
  BY <1>1, <1>2 DEF OwnerInv, QueuedOnce, Queued
<1>4. i = [w \in Worker |-> 1] /\ n_send = [w \in Worker |-> 0]
  BY DEF Init
<1>5. \A w \in Worker : Holding(w)
  <2> SUFFICES ASSUME NEW w \in Worker
               PROVE  Holding(w)
    OBVIOUS
  <2>1. mbufs[w] = <<>> /\ held[w] = {} /\ i[w] + n_send[w] = 1
    BY <1>1, <1>4
  <2>2. From(w, i[w] + n_send[w]) = {}
    BY <2>1 DEF From
  <2> QED
    BY <2>1, <2>2 DEF Holding, NoRepeat
<1> QED
  BY <1>3, <1>5 DEF Owned

(* Owned is Exclusive: a buffer has one place. *)
LEMMA OwnedIsExclusive ==
  ASSUME DataInv, Owned
  PROVE  Exclusive
<1>1. ASSUME NEW w \in Worker, pc[w] = "poll"
      PROVE  held[w] = {}
  <2>1. mbufs[w] = <<>> /\ i[w] = 1 /\ n_send[w] = 0
    BY <1>1 DEF DataInv, Loop
  <2>2. From(w, i[w] + n_send[w]) = {}
    BY <2>1 DEF From
  <2> QED
    BY <1>1, <2>2 DEF Owned, Holding, Spent
<1>2. ASSUME NEW m \in Mbuf
      PROVE  \E x \in Places(m) : Places(m) = {x}
  <2> DEFINE Free1 == {<<"pool">> : x \in pool \cap {m}}
             Held1 == {w \in Worker : m \in held[w]}
             Chan1 == {x \in Chan \X Queue \X (1 .. RingRoom + Desc) :
                         /\ x[3] <= Len(chan[x[1]][x[2]])
                         /\ chan[x[1]][x[2]][x[3]] = m}
  <2>0. Places(m) = Free1 \cup Held1 \cup Chan1
    BY DEF Places
  <2>1. \A x \in Chan1 : Queued(m)
    <3> SUFFICES ASSUME NEW x \in Chan1
                 PROVE  Queued(m)
      OBVIOUS
    <3>1. x[1] \in Chan /\ x[2] \in Queue /\ x[3] \in 1 .. RingRoom + Desc
      OBVIOUS
    <3>2. chan[x[1]][x[2]] \in Seq(Mbuf)
      BY <3>1 DEF DataInv, DataTypeOK
    <3>3. x[3] \in 1 .. Len(chan[x[1]][x[2]])
      BY <3>1, <3>2
    <3> QED
      BY <3>1, <3>3 DEF Queued
  <2>2. CASE m \in pool
    <3>1. Free1 = {<<"pool">>} /\ Held1 = {} /\ Chan1 = {}
      BY <2>1, <2>2 DEF Owned, OwnerInv
    <3> QED
      BY <2>0, <3>1
  <2>3. ASSUME NEW w \in Worker, m \in held[w]
        PROVE  \E x \in Places(m) : Places(m) = {x}
    <3>1. Free1 = {} /\ Held1 = {w} /\ Chan1 = {}
      BY <2>1, <2>3 DEF Owned, OwnerInv
    <3> QED
      BY <2>0, <3>1
  <2>4. ASSUME NEW c \in Chan, NEW q \in Queue, NEW k \in 1 .. Len(chan[c][q]), chan[c][q][k] = m
        PROVE  \E x \in Places(m) : Places(m) = {x}
    <3>1. Queued(m)
      BY <2>4 DEF Queued
    <3>2. Free1 = {} /\ Held1 = {}
      BY <3>1 DEF Owned, OwnerInv
    <3>3. k \in 1 .. RingRoom + Desc /\ k <= Len(chan[c][q])
      <4>1. Len(chan[c][q]) \in Nat /\ Len(chan[c][q]) <= Room(c)
        BY DEF DataInv, DataTypeOK, RoomOK
      <4>2. RingRoom \in Nat /\ Desc \in Nat /\ Room(c) \in {RingRoom, Desc}
        BY DataPlaneAssumption DEF Room
      <4> QED
        BY <4>1, <4>2
    <3>4. <<c, q, k>> \in Chan1
      BY <2>4, <3>3
    <3>5. ASSUME NEW x \in Chan1
          PROVE  x = <<c, q, k>>
      <4>1. x[1] \in Chan /\ x[2] \in Queue /\ x[3] \in 1 .. RingRoom + Desc
        OBVIOUS
      <4>2. chan[x[1]][x[2]] \in Seq(Mbuf)
        BY <4>1 DEF DataInv, DataTypeOK
      <4>3. x[3] \in 1 .. Len(chan[x[1]][x[2]])
        BY <4>1, <4>2
      <4>4. x[1] = c /\ x[2] = q /\ x[3] = k
        BY <2>4, <4>1, <4>3 DEF Owned, OwnerInv, QueuedOnce
      <4> QED
        BY <4>4
    <3>6. Chan1 = {<<c, q, k>>}
      BY <3>4, <3>5
    <3> QED
      BY <2>0, <3>2, <3>6
  <2> QED
    BY <2>2, <2>3, <2>4 DEF Owned, OwnerInv, Queued
<1> QED
  BY <1>1, <1>2 DEF Exclusive

(* For every service and every instance: bursts, whatever a full queue     *)
(* refuses, keep each mbuf in one place, and only l3fwd and acl, with the  *)
(* bursts MayMisuse names, use an mbuf that is not theirs.                 *)
THEOREM OwnersStayExclusive == Spec => OneOwner
<1>1. Init => Owned
  BY OwnersInit
<1>2. DataInv /\ (~ misuse => Owned) /\ [Next]_vars => (~ misuse => Owned)'
  <2>1. misuse /\ [Next]_vars => misuse'
    BY DEF Next, Work, Arrive, Depart, TickRead, TickZero, vars
  <2> QED
    BY <2>1, OwnersStep
<1>3. DataInv /\ (~ misuse => Owned) => (~ misuse => Exclusive)
  BY OwnedIsExclusive
<1>4. /\ DataInv /\ (~ misuse => Owned) /\ [Next]_vars
      => [misuse' /\ ~ misuse => \E w \in Worker : MayMisuse(w)]_vars
  BY OwnersStep
<1>5. Spec => []DataInv
  BY DataTypeCorrect
<1> QED
  BY <1>1, <1>2, <1>3, <1>4, <1>5, PTL DEF Spec, OneOwner

-----------------------------------------------------------------------------
(* The order of flows.  A packet moves from queue to hand to queue.  Each  *)
(* place of a flow has one next place (Hop), so of two packets of a flow   *)
(* the older is in a place the younger still comes to, or before it in the *)
(* same place.  A packet is in a queue or in the hands of a worker who     *)
(* received it from a port:                                                *)
InQueue(c, q) == <<"queue", c, q>>
InHand(w, x) == <<"hand", w, x>>

Among(s, m) == \E k \in 1 .. Len(s) : s[k] = m

At(m, a) ==
  \/ \E c \in Chan, q \in Queue : a = InQueue(c, q) /\ Among(chan[c][q], m)
  \/ \E w \in Worker : a = InHand(w, pid[w]) /\ m \in held[w]

(* In one place, m before k. *)
Precedes(s, m, k) == \E j, l \in 1 .. Len(s) : j < l /\ s[j] = m /\ s[l] = k
Ahead(m, k) ==
  \/ \E c \in Chan, q \in Queue : Precedes(chan[c][q], m, k)
  \/ \E w \in Worker : m \in held[w] /\ k \in held[w] /\ Precedes(mbufs[w], m, k)

(* Where packets of flow f go next.  An accessor receives from each of its *)
(* queues, and where every worker has one transmit queue he sends to that. *)
Sends(f, v, x) ==
  IF setup.prog[v] = "l3fwd" THEN IF f.out \in Pid THEN f.out ELSE x ELSE 1 - x
Hop(f, a, b) ==
  \E w \in Worker, x \in Pid :
    /\ Active(w) /\ (PerPort(w) => x = w[2])
    /\ \/ \E q \in QidsOfAid(RxAid(w), NRxAcc(w), NQueue) :
            a = InQueue(RxChan(PortOf[w[1]][x]), q) /\ b = InHand(w, x)
       \/ a = InHand(w, x) /\ b = InQueue(TxChan(PortOf[w[1]][Sends(f, w[1], x)]), TxAid(w))

Start(f) == InQueue(RxChan(f.in), f.que)

(* Every set of places that packets do not leave has b if it has a.        *)
Closed(f, S) == \A a \in S : \A b : Hop(f, a, b) => b \in S
Leads(f, a, b) == \A S : Closed(f, S) /\ a \in S => b \in S

(* Packets that leave a do not come back to it.                            *)
Once(f, a) == \E S : Closed(f, S) /\ a \notin S /\ \A b : Hop(f, a, b) => b \in S

Narrow == \A w \in Worker : Active(w) => NTxAcc(w) = NQueue
Carried == Mbuf \ pool

PacketsOK ==
  /\ pkt = [m \in Mbuf |-> pkt[m]]
  /\ seq \in [Flow -> Nat] /\ last \in [Flow -> Nat]
  /\ \A f \in Flow : last[f] <= seq[f]
  /\ \A m \in Carried : /\ pkt[m].flow \in Flow /\ pkt[m].n \in Nat
                        /\ last[pkt[m].flow] <= pkt[m].n /\ pkt[m].n <= seq[pkt[m].flow]

(* A packet is on the way of its flow, and none overtakes an older one: the *)
(* older is where the younger will come, and before it if that is the same *)
(* place, unless the flow goes in circles there.                           *)
Older(m, k) == pkt[m].flow = pkt[k].flow /\ pkt[m].n < pkt[k].n
OnTheWay == \A m \in Carried : \A a : At(m, a) => Leads(pkt[m].flow, Start(pkt[m].flow), a)
Follows == \A m, k \in Carried : \A a, b :
  Older(m, k) /\ At(m, a) /\ At(k, b) => Leads(pkt[m].flow, b, a)
InLine == \A m, k \in Carried : \A a :
  Older(m, k) /\ At(m, a) /\ At(k, a) /\ Once(pkt[m].flow, a) => Ahead(m, k)
OrderInv == PacketsOK /\ OnTheWay /\ Follows /\ InLine

-----------------------------------------------------------------------------
LEMMA PlacesDiffer ==
  /\ \A c, q, d, r : InQueue(c, q) = InQueue(d, r) <=> c = d /\ q = r
  /\ \A w, x, u, y : InHand(w, x) = InHand(u, y) <=> w = u /\ x = y
  /\ \A c, q, w, x : InQueue(c, q) # InHand(w, x)
BY DEF InQueue, InHand

LEMMA RxChansDiffer ==
  ASSUME NEW p \in Port, NEW r \in Port, RxChan(p) = RxChan(r)
  PROVE  p = r
BY DataPlaneAssumption DEF RxChan, TxChan, Port, Virt

LEMMA OnePollsQueue ==
  ASSUME DataInv, NEW w \in Worker, NEW u \in Worker, Active(w), Active(u),
         NEW x \in Pid, NEW y \in Pid, PerPort(w) => x = w[2], PerPort(u) => y = u[2],
         PortOf[w[1]][x] = PortOf[u[1]][y],
         NEW q, q \in QidsOfAid(RxAid(w), NRxAcc(w), NQueue),
         q \in QidsOfAid(RxAid(u), NRxAcc(u), NQueue)
  PROVE  w = u /\ x = y
<1>1. /\ w = <<w[1], w[2], w[3]>> /\ u = <<u[1], u[2], u[3]>>
      /\ w[1] \in Vnf /\ u[1] \in Vnf /\ w[2] \in Pid /\ u[2] \in Pid
  BY DEF Worker
<1>2. w[1] = u[1] /\ x = y
  BY <1>1, DataPlaneAssumption
<1>3. PerPort(w) <=> PerPort(u)
  BY <1>2 DEF PerPort, Prog
<1>4. w[2] = u[2]
  BY <1>2, <1>3 DEF Active
<1>5. NRxAcc(w) = NRxAcc(u)
  BY <1>2 DEF NRxAcc, Cores
<1>6. /\ NRxAcc(w) \in Nat \ {0} /\ Divides(NRxAcc(w), NQueue)
      /\ RxAid(w) \in Accessors(NRxAcc(w)) /\ RxAid(u) \in Accessors(NRxAcc(w)) /\ NQueue \in Nat
  BY <1>5, AccessorsOf, DataPlaneAssumption DEF DataInv, Accessors
<1>7. RxAid(w) = RxAid(u)
  BY <1>5, <1>6, RunsAreDisjoint
<1> QED
  BY <1>1, <1>2, <1>4, <1>7 DEF RxAid

(* From each place packets of a flow go to one other at most. *)
LEMMA OneHop ==
  ASSUME DataInv, NEW f, NEW a, NEW b, NEW d, Hop(f, a, b), Hop(f, a, d)
  PROVE  b = d
<1>1. PICK w \in Worker, x \in Pid :
        /\ Active(w) /\ (PerPort(w) => x = w[2])
        /\ \/ \E q \in QidsOfAid(RxAid(w), NRxAcc(w), NQueue) :
                a = InQueue(RxChan(PortOf[w[1]][x]), q) /\ b = InHand(w, x)
           \/ a = InHand(w, x) /\ b = InQueue(TxChan(PortOf[w[1]][Sends(f, w[1], x)]), TxAid(w))
  BY DEF Hop
<1>2. PICK u \in Worker, y \in Pid :
        /\ Active(u) /\ (PerPort(u) => y = u[2])
        /\ \/ \E q \in QidsOfAid(RxAid(u), NRxAcc(u), NQueue) :
                a = InQueue(RxChan(PortOf[u[1]][y]), q) /\ d = InHand(u, y)
           \/ a = InHand(u, y) /\ d = InQueue(TxChan(PortOf[u[1]][Sends(f, u[1], y)]), TxAid(u))
  BY DEF Hop
<1>3. CASE a = InHand(w, x)
  <2>1. w = u /\ x = y
    BY <1>2, <1>3, PlacesDiffer
  <2> QED
    BY <1>1, <1>2, <1>3, <2>1, PlacesDiffer
<1>4. CASE a # InHand(w, x)
  <2>1. PICK q \in QidsOfAid(RxAid(w), NRxAcc(w), NQueue) :
               a = InQueue(RxChan(PortOf[w[1]][x]), q) /\ b = InHand(w, x)
    BY <1>1, <1>4
  <2>2. PICK r \in QidsOfAid(RxAid(u), NRxAcc(u), NQueue) :
               a = InQueue(RxChan(PortOf[u[1]][y]), r) /\ d = InHand(u, y)
    BY <1>2, <2>1, PlacesDiffer
  <2>6. InQueue(RxChan(PortOf[w[1]][x]), q) = InQueue(RxChan(PortOf[u[1]][y]), r)
    BY <2>1, <2>2
  <2>3. q = r /\ RxChan(PortOf[w[1]][x]) = RxChan(PortOf[u[1]][y])
    BY <2>6, PlacesDiffer
  <2>4. PortOf[w[1]][x] = PortOf[u[1]][y]
    BY <2>3, RxChansDiffer, PortsOf
  <2>5. w = u /\ x = y
    BY <1>1, <1>2, <2>3, <2>4, OnePollsQueue
  <2> QED
    BY <2>1, <2>2, <2>5
<1> QED
  BY <1>3, <1>4

(* What can be reached from where a packet goes. *)
LEMMA ClosedWith ==
  ASSUME DataInv, NEW f, NEW a, NEW b, Hop(f, a, b), NEW S, Closed(f, S), b \in S
  PROVE  Closed(f, S \cup {a})
BY OneHop DEF Closed

LEMMA LeadsOn ==
  ASSUME NEW f, NEW a, NEW b, NEW d, Leads(f, a, b), Hop(f, b, d)
  PROVE  Leads(f, a, d)
BY DEF Leads, Closed

LEMMA LeadsBehind ==
  ASSUME DataInv, NEW f, NEW a, NEW b, NEW d, Leads(f, a, d), Hop(f, a, b), a # d \/ ~ Once(f, a)
  PROVE  Leads(f, b, d)
<1> SUFFICES ASSUME NEW S, Closed(f, S), b \in S PROVE d \in S
  BY DEF Leads
<1>1. d \in S \cup {a}
  BY ClosedWith DEF Leads
<1>2. CASE a \in S
  BY <1>1, <1>2
<1>3. CASE a \notin S
  <2>1. \A e : Hop(f, a, e) => e \in S
    BY OneHop
  <2>2. Once(f, a)
    BY <1>3, <2>1 DEF Once
  <2> QED
    BY <1>1, <2>2
<1> QED
  BY <1>2, <1>3

(* Where packets do not come back to, nor do they to the place before.     *)
LEMMA OnceBefore ==
  ASSUME DataInv, NEW f, NEW a, NEW b, Hop(f, a, b), Once(f, b)
  PROVE  Once(f, a) /\ ~ Leads(f, b, a)
<1>1. PICK S : Closed(f, S) /\ b \notin S /\ \A d : Hop(f, b, d) => d \in S
  BY DEF Once
<1>2. Closed(f, S \cup {b})
  BY <1>1 DEF Closed
<1>3. a \notin S
  BY <1>1 DEF Closed
<1>4. a # b
  BY <1>1
<1>5. a \notin S \cup {b}
  BY <1>3, <1>4
<1>6. \A d : Hop(f, a, d) => d \in S \cup {b}
  BY OneHop
<1>7. Once(f, a)
  BY <1>2, <1>5, <1>6 DEF Once
<1> QED
  BY <1>2, <1>5, <1>7 DEF Leads

(* Packets M move from a to b, and packets may be freed. *)
Moved(M, a, b) ==
  /\ UNCHANGED setup /\ PacketsOK'
  /\ Carried' \subseteq Carried /\ \A m \in Carried' : pkt'[m] = pkt[m]
  /\ \A m \in M : At(m, a) /\ Hop(pkt[m].flow, a, b)
  /\ \A m \in Carried' : \A d : At(m, d)' => IF m \in M THEN d = b ELSE At(m, d)
  /\ \A m, k \in Carried' :
       /\ k \in M /\ Ahead(m, k) => m \in M
       /\ (m \in M <=> k \in M) /\ Ahead(m, k) => Ahead(m, k)'
       /\ m \notin M /\ k \in M /\ At(m, b) => Ahead(m, k)'

LEMMA HopsStay ==
  ASSUME UNCHANGED setup
  PROVE  /\ \A f, a, b : Hop(f, a, b)' <=> Hop(f, a, b)
         /\ \A f, a, b : Leads(f, a, b)' <=> Leads(f, a, b)
         /\ \A f, a : Once(f, a)' <=> Once(f, a)
<1>1. \A f, a, b : Hop(f, a, b)' <=> Hop(f, a, b)
  BY DEF Hop, Active, PerPort, Prog, Cores, RxAid, TxAid, NRxAcc, NTxAcc, Sends
<1>2. \A f, S : Closed(f, S)' <=> Closed(f, S)
  BY <1>1 DEF Closed
<1> QED
  BY <1>1, <1>2 DEF Leads, Once

LEMMA MovedInOrder ==
  ASSUME DataInv, OrderInv, NEW M, NEW a, NEW b, Moved(M, a, b)
  PROVE  OrderInv'
<1>1. PacketsOK'
  BY DEF Moved
<1>2. /\ \A f, d, e : Hop(f, d, e)' <=> Hop(f, d, e)
      /\ \A f, d, e : Leads(f, d, e)' <=> Leads(f, d, e)
      /\ \A f, d : Once(f, d)' <=> Once(f, d)
  BY HopsStay DEF Moved
<1>3. OnTheWay'
  <2> SUFFICES ASSUME NEW m \in Carried', NEW d, At(m, d)'
               PROVE  Leads(pkt'[m].flow, Start(pkt'[m].flow), d)
    BY <1>2 DEF OnTheWay, Start
  <2>1. m \in Carried /\ pkt'[m] = pkt[m]
    BY DEF Moved
  <2>2. CASE m \in M
    <3>1. d = b /\ At(m, a) /\ Hop(pkt[m].flow, a, b)
      BY <2>2 DEF Moved
    <3> QED
      BY <2>1, <3>1, LeadsOn DEF OrderInv, OnTheWay
  <2>3. CASE m \notin M
    BY <2>1, <2>3 DEF Moved, OrderInv, OnTheWay
  <2> QED
    BY <2>2, <2>3
<1>4. ASSUME NEW m \in Carried', NEW k \in Carried', NEW d, NEW e,
             Older(m, k)', At(m, d)', At(k, e)'
      PROVE  /\ Leads(pkt'[m].flow, e, d)
             /\ d = e /\ Once(pkt'[m].flow, d) => Ahead(m, k)'
  <2> DEFINE f == pkt[m].flow
  <2>1. /\ m \in Carried /\ pkt'[m] = pkt[m] /\ k \in Carried /\ pkt'[k] = pkt[k]
        /\ Older(m, k) /\ pkt[k].flow = f /\ pkt'[m].flow = f
    BY <1>4 DEF Moved, Older
  <2>2. \A x, y : At(m, x) /\ At(k, y) => Leads(f, y, x)
    BY <2>1 DEF OrderInv, Follows
  <2>3. \A x : At(m, x) /\ At(k, x) /\ Once(f, x) => Ahead(m, k)
    BY <2>1 DEF OrderInv, InLine
  <2>4. /\ m \in M => d = b /\ At(m, a) /\ Hop(f, a, b)
        /\ m \notin M => At(m, d)
        /\ k \in M => e = b /\ At(k, a) /\ Hop(f, a, b)
        /\ k \notin M => At(k, e)
    BY <1>4, <2>1 DEF Moved
  <2>5. /\ k \in M /\ Ahead(m, k) => m \in M
        /\ (m \in M <=> k \in M) /\ Ahead(m, k) => Ahead(m, k)'
        /\ m \notin M /\ k \in M /\ At(m, b) => Ahead(m, k)'
    BY DEF Moved
  <2> HIDE DEF f
  <2>6. CASE m \in M /\ k \in M
    <3>1. Leads(f, e, d)
      BY <2>4, <2>6 DEF Leads
    <3>2. ASSUME Once(f, b) PROVE Ahead(m, k)'
      BY <2>3, <2>4, <2>5, <2>6, <3>2, OnceBefore
    <3> QED
      BY <2>1, <2>4, <2>6, <3>1, <3>2
  <2>7. CASE m \in M /\ k \notin M
    <3>1. Leads(f, e, d) /\ Leads(f, e, a)
      BY <2>2, <2>4, <2>7, LeadsOn
    <3>2. e = b => ~ Once(f, b)
      BY <2>4, <2>7, <3>1, OnceBefore
    <3> QED
      BY <2>1, <2>4, <2>7, <3>1, <3>2
  <2>8. CASE m \notin M /\ k \in M
    <3>1. Leads(f, a, d)
      BY <2>2, <2>4, <2>8
    <3>2. a = d => ~ Once(f, a)
      BY <2>3, <2>4, <2>5, <2>8
    <3>3. Leads(f, b, d)
      BY <2>4, <2>8, <3>1, <3>2, LeadsBehind
    <3> QED
      BY <2>1, <2>4, <2>5, <2>8, <3>3
  <2>9. CASE m \notin M /\ k \notin M
    BY <2>1, <2>2, <2>3, <2>4, <2>5, <2>9
  <2> QED
    BY <2>6, <2>7, <2>8, <2>9
<1>5. Follows'
  BY <1>2, <1>4 DEF Follows
<1>6. InLine'
  BY <1>2, <1>4 DEF InLine
<1> QED
  BY <1>1, <1>3, <1>5, <1>6 DEF OrderInv

-----------------------------------------------------------------------------
(* Sequences that grow at the end and are taken from the front. *)
LEMMA JoinedInOrder ==
  ASSUME NEW s \in Seq(Mbuf), NEW out \in Seq(Mbuf), NEW m, NEW k
  PROVE  /\ Among(s \o out, m) => Among(s, m) \/ Among(out, m)
         /\ Precedes(s, m, k) => Precedes(s \o out, m, k)
         /\ Precedes(out, m, k) => Precedes(s \o out, m, k)
         /\ Among(s, m) /\ Among(out, k) => Precedes(s \o out, m, k)
<1> DEFINE t == s \o out
<1>1. Len(s) \in Nat /\ Len(out) \in Nat
  OBVIOUS
<1>2. /\ Len(t) = Len(s) + Len(out)
      /\ \A j \in 1 .. Len(t) : t[j] = IF j <= Len(s) THEN s[j] ELSE out[j - Len(s)]
  OBVIOUS
<1> HIDE DEF t
<1>3. \A j \in 1 .. Len(s) : j \in 1 .. Len(t) /\ t[j] = s[j]
  BY <1>1, <1>2
<1>4. \A j \in 1 .. Len(out) : Len(s) + j \in 1 .. Len(t) /\ t[Len(s) + j] = out[j]
  <2> SUFFICES ASSUME NEW j \in 1 .. Len(out)
               PROVE  Len(s) + j \in 1 .. Len(t) /\ t[Len(s) + j] = out[j]
    OBVIOUS
  <2>1. Len(s) + j \in 1 .. Len(t) /\ ~ (Len(s) + j <= Len(s)) /\ (Len(s) + j) - Len(s) = j
    BY <1>1, <1>2
  <2> QED
    BY <1>2, <2>1
<1>5. \A j \in 1 .. Len(t) : \/ j \in 1 .. Len(s) /\ t[j] = s[j]
                             \/ j - Len(s) \in 1 .. Len(out) /\ t[j] = out[j - Len(s)]
  BY <1>1, <1>2
<1>6. Among(t, m) => Among(s, m) \/ Among(out, m)
  BY <1>5 DEF Among
<1>7. Precedes(s, m, k) => Precedes(t, m, k)
  BY <1>3 DEF Precedes
<1>8. ASSUME Precedes(out, m, k) PROVE Precedes(t, m, k)
  <2>1. PICK j, l \in 1 .. Len(out) : j < l /\ out[j] = m /\ out[l] = k
    BY <1>8 DEF Precedes
  <2>2. Len(s) + j < Len(s) + l
    BY <1>1, <2>1
  <2> QED
    BY <1>4, <2>1, <2>2 DEF Precedes
<1>9. ASSUME Among(s, m), Among(out, k) PROVE Precedes(t, m, k)
  <2>1. PICK j \in 1 .. Len(s) : s[j] = m
    BY <1>9 DEF Among
  <2>2. PICK l \in 1 .. Len(out) : out[l] = k
    BY <1>9 DEF Among
  <2>3. j < Len(s) + l
    BY <1>1, <2>1, <2>2
  <2> QED
    BY <1>3, <1>4, <2>1, <2>2, <2>3 DEF Precedes
<1> QED
  BY <1>6, <1>7, <1>8, <1>9 DEF t

LEMMA FrontInOrder ==
  ASSUME NEW s \in Seq(Mbuf), NoRepeat(s), NEW n \in 0 .. Len(s), NEW m, NEW k
  PROVE  LET front == SubSeq(s, 1, n)
             rest == SubSeq(s, n + 1, Len(s))
         IN /\ Among(s, m) <=> Among(front, m) \/ Among(rest, m)
            /\ Among(rest, m) => ~ Among(front, m)
            /\ Precedes(s, m, k) /\ ~ Among(front, m) => Precedes(rest, m, k)
            /\ Precedes(s, m, k) /\ Among(front, k) => Among(front, m) /\ Precedes(front, m, k)
<1> DEFINE front == SubSeq(s, 1, n)
           rest == SubSeq(s, n + 1, Len(s))
<1>1. Len(s) \in Nat /\ n \in Nat /\ n <= Len(s)
  OBVIOUS
<1>2. Len(front) = n /\ \A j \in 1 .. n : front[j] = s[j]
  OBVIOUS
<1>3. Len(rest) = Len(s) - n /\ \A j \in 1 .. Len(s) - n : rest[j] = s[n + j]
  OBVIOUS
<1> HIDE DEF front, rest
<1>4. \A j \in 1 .. Len(s) : ~ (j <= n) => j - n \in 1 .. Len(rest) /\ n + (j - n) = j
  BY <1>1, <1>3
<1>5. \A j \in 1 .. Len(s) : ~ (j <= n) => rest[j - n] = s[j]
  BY <1>3, <1>4
<1>6. \A j \in 1 .. Len(s) : j <= n => j \in 1 .. Len(front) /\ front[j] = s[j]
  BY <1>1, <1>2
<1>7. \A j \in 1 .. Len(front) : j \in 1 .. Len(s) /\ j <= n /\ front[j] = s[j]
  BY <1>1, <1>2
<1>8. \A j \in 1 .. Len(rest) : n + j \in 1 .. Len(s) /\ ~ (n + j <= n) /\ rest[j] = s[n + j]
  BY <1>1, <1>3
<1>9. Among(front, m) <=> \E j \in 1 .. Len(s) : j <= n /\ s[j] = m
  BY <1>6, <1>7 DEF Among
<1>10. Among(front, k) <=> \E j \in 1 .. Len(s) : j <= n /\ s[j] = k
  BY <1>6, <1>7 DEF Among
<1>11. Among(rest, m) <=> \E j \in 1 .. Len(s) : ~ (j <= n) /\ s[j] = m
  BY <1>4, <1>5, <1>8 DEF Among
<1>12. Among(s, m) <=> Among(front, m) \/ Among(rest, m)
  BY <1>9, <1>11 DEF Among
<1>13. Among(rest, m) => ~ Among(front, m)
  BY <1>9, <1>11 DEF NoRepeat
<1>14. ASSUME Precedes(s, m, k)
       PROVE  /\ ~ Among(front, m) => Precedes(rest, m, k)
              /\ Among(front, k) => Among(front, m) /\ Precedes(front, m, k)
  <2>1. PICK j, l \in 1 .. Len(s) : j < l /\ s[j] = m /\ s[l] = k
    BY <1>14 DEF Precedes
  <2>2. CASE j <= n /\ l <= n
    <3>1. Among(front, m)
      BY <1>9, <2>1, <2>2
    <3>2. Precedes(front, m, k)
      BY <1>6, <2>1, <2>2 DEF Precedes
    <3> QED
      BY <3>1, <3>2
  <2>3. CASE j <= n /\ ~ (l <= n)
    <3>1. Among(front, m)
      BY <1>9, <2>1, <2>3
    <3>2. ~ Among(front, k)
      BY <1>10, <2>1, <2>3 DEF NoRepeat
    <3> QED
      BY <3>1, <3>2
  <2>4. CASE ~ (j <= n)
    <3>1. ~ (l <= n) /\ j - n < l - n
      BY <1>1, <2>1, <2>4
    <3>2. ~ Among(front, k)
      BY <1>10, <2>1, <3>1 DEF NoRepeat
    <3>3. Precedes(rest, m, k)
      BY <1>4, <1>5, <2>1, <2>4, <3>1 DEF Precedes
    <3> QED
      BY <3>2, <3>3
  <2> QED
    BY <2>2, <2>3, <2>4
<1> QED
  BY <1>12, <1>13, <1>14 DEF front, rest

-----------------------------------------------------------------------------
(* What the steps do to the order. *)
PidsOK == \A w \in Worker : PerPort(w) => pid[w] = w[2]

LEMMA EmptyHanded ==
  ASSUME NEW w \in Worker, Holding(w), mbufs[w] = <<>>, i[w] \in Nat \ {0}, n_send[w] \in Nat
  PROVE  held[w] = {}
<1>1. From(w, i[w] + n_send[w]) = {}
  BY DEF From
<1> QED
  BY <1>1 DEF Holding, Spent

LEMMA HeldAlone ==
  ASSUME OwnerInv, NEW w \in Worker, NEW m \in held[w]
  PROVE  /\ \A c \in Chan, q \in Queue : ~ Among(chan[c][q], m)
         /\ \A u \in Worker : m \in held[u] => u = w
BY DEF OwnerInv, Queued, Among

LEMMA QueuedAlone ==
  ASSUME OwnerInv, NEW c \in Chan, NEW q \in Queue, NEW m, Among(chan[c][q], m)
  PROVE  /\ \A d \in Chan, r \in Queue : Among(chan[d][r], m) => c = d /\ q = r
         /\ \A u \in Worker : m \notin held[u]
         /\ NoRepeat(chan[c][q])
BY DEF OwnerInv, Queued, Among, QueuedOnce, NoRepeat

LEMMA TxQueueIsOne ==
  ASSUME DataInv, Narrow, NEW w \in Worker, Active(w)
  PROVE  TxQueue(w) = TxAid(w)
<1> DEFINE a == <<PortOf[w[1]][OutPid(w)], "tx", TxAid(w)>>
<1>1. NTxAcc(w) = NQueue /\ NQueue \in Nat \ {0}
  BY DataPlaneAssumption DEF Narrow
<1>2. Share(NTxAcc(w)) = 1
  BY <1>1 DEF Share
<1>3. TxAid(w) \in Queue /\ TxAid(w) \in Nat /\ OutPid(w) \in Pid
  BY AccessorsOf, OutPidIsPid, DataPlaneAssumption DEF DataInv, Queue, Queues
<1>4. rr[a] < 1
  BY <1>2, <1>3 DEF DataInv, TurnsOK
<1>5. a \in Accessor
  BY <1>3, PortsOf DEF Accessor
<1>6. rr[a] \in Nat
  BY <1>5 DEF DataInv, DataTypeOK
<1>7. rr[a] = 0
  BY <1>4, <1>6
<1> QED
  BY <1>2, <1>3, <1>7 DEF TxQueue, Turn

LEMMA TxHop ==
  ASSUME DataInv, Narrow, PidsOK, NEW w \in Worker, Active(w), NEW f,
         Prog(w) = "l3fwd" => FlowOf(w) = f
  PROVE  Hop(f, InHand(w, pid[w]), InQueue(TxTo(w), TxQueue(w)))
<1>1. Sends(f, w[1], pid[w]) = OutPid(w)
  BY DEF Sends, OutPid, Prog
<1>2. TxQueue(w) = TxAid(w) /\ pid[w] \in Pid /\ (PerPort(w) => pid[w] = w[2])
  BY TxQueueIsOne DEF PidsOK, DataInv, DataTypeOK
<1>3. TxTo(w) = TxChan(PortOf[w[1]][Sends(f, w[1], pid[w])])
  BY <1>1 DEF TxTo
<1> QED
  BY <1>2, <1>3 DEF Hop

LEMMA RxHop ==
  ASSUME DataInv, PidsOK, NEW w \in Worker, Active(w), NEW f
  PROVE  Hop(f, InQueue(RxFrom(w), RxQueue(w)), InHand(w, pid[w]))
<1> DEFINE a == <<InPort(w), "rx", RxAid(w)>>
           share == Share(NRxAcc(w))
<1>1. pid[w] \in Pid /\ (PerPort(w) => pid[w] = w[2])
  BY DEF PidsOK, DataInv, DataTypeOK
<1>2. /\ NRxAcc(w) \in Nat \ {0} /\ Divides(NRxAcc(w), NQueue) /\ RxAid(w) \in Queue
  BY AccessorsOf DEF DataInv
<1>3. share \in Nat
  BY <1>2, SharesArePositive
<1>4. rr[a] < share
  BY <1>1, <1>2 DEF DataInv, TurnsOK, InPort
<1>5. a \in Accessor
  BY <1>1, <1>2, PortsOf DEF Accessor, InPort
<1>6. rr[a] \in Nat
  BY <1>5 DEF DataInv, DataTypeOK
<1>7. rr[a] \in 0 .. share - 1
  BY <1>3, <1>4, <1>6
<1>8. RxQueue(w) \in QidsOfAid(RxAid(w), NRxAcc(w), NQueue)
  BY <1>7 DEF RxQueue, Turn, QidsOfAid, Share
<1> QED
  BY <1>1, <1>8 DEF Hop, RxFrom, InPort

LEMMA PacketsStay ==
  ASSUME PacketsOK, UNCHANGED <<seq, last>>, pool \subseteq pool',
         pkt' = [m \in Mbuf |-> pkt'[m]], \A m \in Carried' : pkt'[m] = pkt[m]
  PROVE  PacketsOK' /\ Carried' \subseteq Carried
BY DEF PacketsOK, Carried

(* What a worker sends is the first of what he holds, in its order. *)
LEMMA SentFirst ==
  ASSUME DataInv, NEW w \in Worker, Holding(w), n_send[w] = 0, NEW s, Part(w, s),
         NEW n \in 0 .. Len(s), ToSet(s) \subseteq held[w],
         NEW m \in held[w], NEW k, Precedes(mbufs[w], m, k), Among(SubSeq(s, 1, n), k)
  PROVE  Among(SubSeq(s, 1, n), m) /\ Precedes(SubSeq(s, 1, n), m, k)
<1> DEFINE out == SubSeq(s, 1, n)
<1>1. /\ s \in Seq(Mbuf) /\ Len(s) \in Nat /\ 1 \in 1 .. Len(s) /\ i[w] \in Nat \ {0}
      /\ NoRepeat(mbufs[w]) /\ i[w] + Len(s) - 1 <= Len(mbufs[w])
      /\ \A j \in 1 .. Len(s) : s[j] = mbufs[w][i[w] + j - 1]
      /\ Len(mbufs[w]) \in Nat
  BY DEF Part, DataInv, DataTypeOK, Holding
<1>2. Len(out) = n /\ \A j \in 1 .. n : j \in 1 .. Len(s) /\ out[j] = s[j]
  BY <1>1
<1>3. held[w] = From(w, i[w])
  <2>1. s[1] \in ToSet(s)
    BY <1>1, ElementsOf
  <2>2. ~ Spent(w)
    BY <2>1 DEF Spent
  <2>3. i[w] + n_send[w] = i[w]
    BY <1>1
  <2> QED
    BY <2>2, <2>3 DEF Holding
<1> HIDE DEF out
<1>4. PICK j, l \in 1 .. Len(mbufs[w]) : j < l /\ mbufs[w][j] = m /\ mbufs[w][l] = k
  BY DEF Precedes
<1>5. PICK r \in 1 .. n : out[r] = k
  BY <1>2 DEF Among, out
<1>6. i[w] + r - 1 \in 1 .. Len(mbufs[w]) /\ mbufs[w][i[w] + r - 1] = k
  <2>1. r \in 1 .. Len(s) /\ s[r] = k
    BY <1>2, <1>5
  <2>2. \A p \in Nat \ {0}, x, y \in Nat : p + x - 1 <= y => \A z \in 1 .. x : p + z - 1 \in 1 .. y
    OBVIOUS
  <2>3. i[w] + r - 1 \in 1 .. Len(mbufs[w])
    BY <1>1, <2>1, <2>2
  <2>4. mbufs[w][i[w] + r - 1] = s[r]
    BY <1>1, <2>1
  <2> QED
    BY <2>1, <2>3, <2>4
<1>7. l = i[w] + r - 1
  BY <1>1, <1>4, <1>6 DEF NoRepeat
<1>8. j >= i[w]
  <2>1. PICK g \in i[w] .. Len(mbufs[w]) : mbufs[w][g] = m
    BY <1>3 DEF From
  <2>2. g \in 1 .. Len(mbufs[w])
    BY <1>1, <2>1
  <2>3. g = j
    BY <1>1, <1>4, <2>1, <2>2 DEF NoRepeat
  <2> QED
    BY <1>1, <2>1, <2>3
<1> DEFINE h == j - i[w] + 1
<1>9. h \in 1 .. n /\ h < r /\ i[w] + h - 1 = j
  <2>1. \A p \in Nat \ {0}, x, y, z \in Nat : x < p + y - 1 /\ x >= p /\ y <= z =>
          x - p + 1 \in 1 .. z /\ x - p + 1 < y /\ p + (x - p + 1) - 1 = x
    OBVIOUS
  <2>2. j \in Nat /\ r \in Nat /\ n \in Nat /\ r <= n /\ j < i[w] + r - 1
    BY <1>1, <1>4, <1>7
  <2> QED
    BY <1>1, <1>8, <2>1, <2>2
<1>10. out[h] = m
  BY <1>1, <1>2, <1>4, <1>9
<1> QED
  BY <1>2, <1>5, <1>9, <1>10 DEF Among, Precedes, out

LEMMA TxBurstInOrder ==
  ASSUME DataInv, Owned, OrderInv, PidsOK, Narrow, NEW w \in Worker, pc[w] = "work",
         NEW s, Part(w, s), TxBurst(w, s), ~ misuse',
         Prog(w) = "l3fwd" => s = <<mbufs[w][i[w]]>>
  PROVE  OrderInv'
<1>1. s \in Seq(Mbuf) /\ n_send[w] = 0 /\ Active(w) /\ Holding(w) /\ OwnerInv
  BY DEF Part, DataInv, DataTypeOK, Loop, Owned
<1>2. PICK n \in 0 .. Len(s) :
        /\ Len(SubSeq(s, 1, n)) = n /\ SubSeq(s, 1, n) \in Seq(Mbuf)
        /\ Len(chan[TxTo(w)][TxQueue(w)]) + n <= Room(TxTo(w))
        /\ chan' = [chan EXCEPT ![TxTo(w)][TxQueue(w)] = @ \o SubSeq(s, 1, n)]
        /\ n_send' = [n_send EXCEPT ![w] = n]
        /\ held' = [held EXCEPT ![w] = @ \ ToSet(SubSeq(s, 1, n))]
  BY <1>1, TxBurstMoves
<1>3. TxTo(w) \in Chan /\ TxQueue(w) \in Queue
  BY <1>1, TxBurstMoves
<1> DEFINE out == SubSeq(s, 1, n)
           a == InHand(w, pid[w])
           b == InQueue(TxTo(w), TxQueue(w))
           M == ToSet(out)
<1> HIDE DEF out
<1>4. \A d \in Chan, r \in Queue :
        chan'[d][r] = IF d = TxTo(w) /\ r = TxQueue(w) THEN chan[TxTo(w)][TxQueue(w)] \o out
                      ELSE chan[d][r]
  BY <1>2, <1>3, QueueGrows DEF out
<1>5. ToSet(s) \subseteq held[w] /\ UNCHANGED <<setup, pool, pkt, pid, mbufs, seq, last>>
  BY DEF TxBurst, wireVars
<1>6. out \in Seq(Mbuf) /\ \A m : m \in M <=> Among(out, m)
  BY <1>2, ElementsOf DEF out, Among
<1>7. \A m \in M : m \in held[w] /\ m \in ToSet(s)
  <2>1. \A k \in 1 .. n : out[k] = s[k] /\ k \in 1 .. Len(s)
    BY <1>1 DEF out
  <2>2. \A k \in 1 .. n : out[k] \in ToSet(s)
    BY <1>1, <2>1, ElementsOf
  <2>3. \A m \in M : \E k \in 1 .. n : out[k] = m
    BY <1>2, <1>6 DEF Among, out
  <2> QED
    BY <1>5, <2>2, <2>3
<1>8. \A u \in Worker : held'[u] = IF u = w THEN held[w] \ M ELSE held[u]
  BY <1>2 DEF out, DataInv, DataTypeOK
<1>9. PacketsOK' /\ Carried' \subseteq Carried /\ \A m \in Carried' : pkt'[m] = pkt[m]
  <2>1. PacketsOK /\ pkt' = [m \in Mbuf |-> pkt'[m]]
    BY <1>5 DEF OrderInv, PacketsOK
  <2> QED
    BY <1>5, <2>1, PacketsStay
<1>10. \A m \in M : At(m, a) /\ Hop(pkt[m].flow, a, b)
  <2> SUFFICES ASSUME NEW m \in M PROVE At(m, a) /\ Hop(pkt[m].flow, a, b)
    OBVIOUS
  <2>1. At(m, a)
    BY <1>7 DEF At
  <2>2. ASSUME Prog(w) = "l3fwd" PROVE FlowOf(w) = pkt[m].flow
    <3>1. m \in ToSet(<<mbufs[w][i[w]]>>)
      BY <1>7, <2>2
    <3>2. m = mbufs[w][i[w]]
      BY <3>1 DEF ToSet
    <3> QED
      BY <3>2 DEF FlowOf
  <2> QED
    BY <1>1, <2>1, <2>2, TxHop
<1>11. ASSUME NEW m \in Carried', NEW d, At(m, d)'
       PROVE  IF m \in M THEN d = b ELSE At(m, d)
  <2>1. ASSUME NEW c \in Chan, NEW q \in Queue, d = InQueue(c, q), Among(chan'[c][q], m)
        PROVE  IF m \in M THEN d = b ELSE At(m, d)
    <3>1. CASE c = TxTo(w) /\ q = TxQueue(w)
      <4>1. chan'[c][q] = chan[c][q] \o out /\ chan[c][q] \in Seq(Mbuf)
        BY <1>4, <3>1 DEF DataInv, DataTypeOK
      <4>2. Among(chan[c][q], m) \/ Among(out, m)
        BY <1>6, <2>1, <4>1, JoinedInOrder
      <4> QED
        BY <1>6, <2>1, <3>1, <4>2 DEF At
    <3>2. CASE ~ (c = TxTo(w) /\ q = TxQueue(w))
      <4>1. Among(chan[c][q], m)
        BY <1>4, <2>1, <3>2
      <4>2. m \notin M
        BY <1>1, <1>7, <4>1, HeldAlone
      <4> QED
        BY <2>1, <4>1, <4>2 DEF At
    <3> QED
      BY <3>1, <3>2
  <2>2. ASSUME NEW u \in Worker, d = InHand(u, pid[u]), m \in held'[u]
        PROVE  IF m \in M THEN d = b ELSE At(m, d)
    <3>1. m \in held[u] /\ m \notin M
      BY <1>1, <1>7, <1>8, <2>2, HeldAlone
    <3> QED
      BY <2>2, <3>1 DEF At
  <2> QED
    BY <1>5, <1>11, <2>1, <2>2 DEF At
<1>12. ASSUME NEW m \in Carried', NEW k \in Carried', Ahead(m, k), k \in M
       PROVE  m \in M /\ Ahead(m, k)'
  <2>1. k \in held[w] /\ \A c \in Chan, q \in Queue : ~ Among(chan[c][q], k)
    BY <1>1, <1>7, <1>12, HeldAlone
  <2>2. \A c \in Chan, q \in Queue : ~ Precedes(chan[c][q], m, k)
    BY <2>1 DEF Precedes, Among
  <2>3. m \in held[w] /\ Precedes(mbufs[w], m, k)
    BY <1>1, <1>12, <2>1, <2>2, HeldAlone DEF Ahead
  <2>4. Among(out, m) /\ Precedes(out, m, k)
    BY <1>1, <1>5, <1>6, <1>12, <2>3, SentFirst DEF out
  <2>5. chan[TxTo(w)][TxQueue(w)] \in Seq(Mbuf)
    BY <1>3 DEF DataInv, DataTypeOK
  <2>6. Precedes(chan'[TxTo(w)][TxQueue(w)], m, k)
    BY <1>3, <1>4, <1>6, <2>4, <2>5, JoinedInOrder
  <2> QED
    BY <1>3, <1>6, <2>4, <2>6 DEF Ahead
<1>13. ASSUME NEW m \in Carried', NEW k \in Carried', Ahead(m, k), k \notin M, m \notin M
       PROVE  Ahead(m, k)'
  <2>1. ASSUME NEW c \in Chan, NEW q \in Queue, Precedes(chan[c][q], m, k)
        PROVE  Precedes(chan'[c][q], m, k)
    <3>1. chan[c][q] \in Seq(Mbuf)
      BY DEF DataInv, DataTypeOK
    <3> QED
      BY <1>4, <1>6, <2>1, <3>1, JoinedInOrder
  <2>2. ASSUME NEW u \in Worker, m \in held[u], k \in held[u], Precedes(mbufs[u], m, k)
        PROVE  m \in held'[u] /\ k \in held'[u] /\ Precedes(mbufs'[u], m, k)
    BY <1>5, <1>8, <1>13, <2>2
  <2> QED
    BY <1>13, <2>1, <2>2 DEF Ahead
<1>14. ASSUME NEW m \in Carried', NEW k \in Carried', m \notin M, k \in M, At(m, b)
       PROVE  Ahead(m, k)'
  <2>1. Among(chan[TxTo(w)][TxQueue(w)], m)
    BY <1>14, PlacesDiffer DEF At
  <2>2. chan[TxTo(w)][TxQueue(w)] \in Seq(Mbuf)
    BY <1>3 DEF DataInv, DataTypeOK
  <2>3. Precedes(chan'[TxTo(w)][TxQueue(w)], m, k)
    BY <1>3, <1>4, <1>6, <1>14, <2>1, <2>2, JoinedInOrder
  <2> QED
    BY <1>3, <2>3 DEF Ahead
<1> HIDE DEF a, b, M
<1>15. Moved(M, a, b)
  BY <1>5, <1>9, <1>10, <1>11, <1>12, <1>13, <1>14 DEF Moved
<1> QED
  BY <1>15, MovedInOrder

LEMMA PollInOrder ==
  ASSUME DataInv, Owned, OrderInv, PidsOK, NEW w \in Worker, Poll(w)
  PROVE  OrderInv'
<1> DEFINE s == chan[RxFrom(w)][RxQueue(w)]
<1>1. PICK n \in 0 .. Len(s) :
        /\ chan' = [chan EXCEPT ![RxFrom(w)][RxQueue(w)] = SubSeq(s, n + 1, Len(s))]
        /\ held' = [held EXCEPT ![w] = ToSet(SubSeq(s, 1, n))]
        /\ SubSeq(s, 1, n) \in Seq(Mbuf) /\ Len(SubSeq(s, 1, n)) = n
        /\ IF RxCounter(w) = setup.watch
           THEN /\ pc' = [pc EXCEPT ![w] = "counted"]
                /\ mbufs' = [mbufs EXCEPT ![w] = SubSeq(s, 1, n)]
                /\ UNCHANGED <<pid, i, dst, n_send>>
           ELSE Received(w, SubSeq(s, 1, n))
  BY PollMoves
<1>2. RxFrom(w) \in Chan /\ RxQueue(w) \in Queue
  BY PollMoves
<1> DEFINE front == SubSeq(s, 1, n)
           rest == SubSeq(s, n + 1, Len(s))
           a == InQueue(RxFrom(w), RxQueue(w))
           b == InHand(w, pid[w])
           M == ToSet(front)
<1>3. \A d \in Chan, r \in Queue :
        chan'[d][r] = IF d = RxFrom(w) /\ r = RxQueue(w) THEN rest ELSE chan[d][r]
  BY <1>1, <1>2, QueueShrinks
<1>4. UNCHANGED <<setup, pool, pkt, seq, last>> /\ pc[w] = "poll"
  BY DEF Poll, wireVars
<1>5. OwnerInv /\ held[w] = {} /\ Active(w)
  <2>1. mbufs[w] = <<>> /\ i[w] \in Nat \ {0} /\ n_send[w] \in Nat /\ Holding(w)
    BY <1>4 DEF DataInv, DataTypeOK, Loop, Owned
  <2> QED
    BY <1>4, <2>1, EmptyHanded DEF Owned, DataInv, Loop
<1>6. s \in Seq(Mbuf) /\ NoRepeat(s)
  BY <1>2, <1>5 DEF DataInv, DataTypeOK, OwnerInv, QueuedOnce, NoRepeat
<1>7. front \in Seq(Mbuf) /\ \A m : m \in M <=> Among(front, m)
  BY <1>1, ElementsOf DEF Among
<1>8. \A m, k :
        /\ Among(s, m) <=> Among(front, m) \/ Among(rest, m)
        /\ Among(rest, m) => ~ Among(front, m)
        /\ Precedes(s, m, k) /\ ~ Among(front, m) => Precedes(rest, m, k)
        /\ Precedes(s, m, k) /\ Among(front, k) => Among(front, m) /\ Precedes(front, m, k)
  BY <1>6, FrontInOrder
<1>9. \A u \in Worker : held'[u] = IF u = w THEN M ELSE held[u]
  BY <1>1 DEF DataInv, DataTypeOK
<1>10. /\ M # {} => pid' = pid /\ mbufs'[w] = front
       /\ \A u \in Worker \ {w} : pid'[u] = pid[u] /\ mbufs'[u] = mbufs[u]
  <2>1. CASE front = <<>>
    <3>1. M = {}
      BY <2>1 DEF ToSet
    <3>2. \/ UNCHANGED pid /\ mbufs' = [mbufs EXCEPT ![w] = front]
          \/ NextPoll(w)
      BY <1>1, <2>1 DEF Received
    <3> QED
      BY <3>1, <3>2 DEF NextPoll, DataInv, DataTypeOK
  <2>2. CASE front # <<>>
    <3>1. UNCHANGED pid /\ mbufs' = [mbufs EXCEPT ![w] = front]
      BY <1>1, <2>2 DEF Received
    <3> QED
      BY <3>1 DEF DataInv, DataTypeOK
  <2> QED
    BY <2>1, <2>2
<1>11. PacketsOK' /\ Carried' \subseteq Carried /\ \A m \in Carried' : pkt'[m] = pkt[m]
  <2>1. PacketsOK /\ pkt' = [m \in Mbuf |-> pkt'[m]]
    BY <1>4 DEF OrderInv, PacketsOK
  <2> QED
    BY <1>4, <2>1, PacketsStay
<1> HIDE DEF s, front, rest, M
<1>12. \A m \in M : Among(chan[RxFrom(w)][RxQueue(w)], m)
  BY <1>7, <1>8 DEF s
<1>13. \A m \in M : At(m, a) /\ Hop(pkt[m].flow, a, b)
  BY <1>2, <1>5, <1>12, RxHop DEF At
<1>14. ASSUME NEW m \in Carried', NEW d, At(m, d)'
       PROVE  IF m \in M THEN d = b ELSE At(m, d)
  <2>1. ASSUME NEW c \in Chan, NEW q \in Queue, d = InQueue(c, q), Among(chan'[c][q], m)
        PROVE  m \notin M /\ At(m, d)
    <3>1. CASE c = RxFrom(w) /\ q = RxQueue(w)
      <4>1. Among(rest, m)
        BY <1>3, <2>1, <3>1
      <4>2. m \notin M /\ Among(chan[c][q], m)
        BY <1>7, <1>8, <3>1, <4>1 DEF s
      <4> QED
        BY <2>1, <4>2 DEF At
    <3>2. CASE ~ (c = RxFrom(w) /\ q = RxQueue(w))
      <4>1. Among(chan[c][q], m)
        BY <1>3, <2>1, <3>2
      <4>2. m \notin M
        BY <1>2, <1>5, <1>12, <3>2, <4>1, QueuedAlone
      <4> QED
        BY <2>1, <4>1, <4>2 DEF At
    <3> QED
      BY <3>1, <3>2
  <2>2. ASSUME NEW u \in Worker, d = InHand(u, pid'[u]), m \in held'[u]
        PROVE  IF m \in M THEN d = b ELSE At(m, d)
    <3>1. CASE u = w
      BY <1>9, <1>10, <2>2, <3>1
    <3>2. CASE u # w
      <4>1. m \in held[u] /\ pid'[u] = pid[u]
        BY <1>9, <1>10, <2>2, <3>2
      <4>2. m \notin M
        BY <1>2, <1>5, <1>12, <4>1, QueuedAlone
      <4> QED
        BY <2>2, <4>1, <4>2 DEF At
    <3> QED
      BY <3>1, <3>2
  <2> QED
    BY <1>14, <2>1, <2>2 DEF At
<1>15. ASSUME NEW m \in Carried', NEW k \in Carried', Ahead(m, k), k \in M
       PROVE  m \in M /\ Ahead(m, k)'
  <2>1. /\ \A d \in Chan, r \in Queue :
             Among(chan[d][r], k) => RxFrom(w) = d /\ RxQueue(w) = r
        /\ \A u \in Worker : k \notin held[u]
    BY <1>2, <1>5, <1>12, <1>15, QueuedAlone
  <2>2. \A c \in Chan, q \in Queue : Precedes(chan[c][q], m, k) => Among(chan[c][q], k)
    BY DEF Precedes, Among
  <2>3. Precedes(s, m, k)
    BY <1>15, <2>1, <2>2 DEF Ahead, s
  <2>4. m \in M /\ Precedes(front, m, k)
    BY <1>7, <1>8, <1>15, <2>3
  <2> QED
    BY <1>9, <1>10, <1>15, <2>4 DEF Ahead
<1>16. ASSUME NEW m \in Carried', NEW k \in Carried', Ahead(m, k), k \notin M, m \notin M
       PROVE  Ahead(m, k)'
  <2>1. ASSUME NEW c \in Chan, NEW q \in Queue, Precedes(chan[c][q], m, k)
        PROVE  Precedes(chan'[c][q], m, k)
    <3>1. CASE c = RxFrom(w) /\ q = RxQueue(w)
      <4>1. Precedes(rest, m, k)
        BY <1>7, <1>8, <1>16, <2>1, <3>1 DEF s
      <4> QED
        BY <1>3, <3>1, <4>1
    <3>2. CASE ~ (c = RxFrom(w) /\ q = RxQueue(w))
      BY <1>3, <2>1, <3>2
    <3> QED
      BY <3>1, <3>2
  <2>2. ASSUME NEW u \in Worker, m \in held[u], k \in held[u], Precedes(mbufs[u], m, k)
        PROVE  m \in held'[u] /\ k \in held'[u] /\ Precedes(mbufs'[u], m, k)
    BY <1>5, <1>9, <1>10, <2>2
  <2> QED
    BY <1>16, <2>1, <2>2 DEF Ahead
<1>17. ASSUME NEW m, At(m, b)
       PROVE  FALSE
  BY <1>5, <1>17, PlacesDiffer DEF At
<1> HIDE DEF a, b
<1>18. Moved(M, a, b)
  BY <1>4, <1>11, <1>13, <1>14, <1>15, <1>16, <1>17 DEF Moved
<1> QED
  BY <1>18, MovedInOrder

(* Steps after which what is still held is where it was. *)
LEMMA RestInOrder ==
  ASSUME DataInv, OrderInv, PacketsOK', UNCHANGED <<setup, chan>>, Carried' \subseteq Carried,
         \A m \in Carried' : pkt'[m] = pkt[m],
         \A u \in Worker : /\ held'[u] \subseteq held[u]
                           /\ held[u] \cap Carried' \subseteq held'[u]
                           /\ held'[u] = {} \/ (pid'[u] = pid[u] /\ mbufs'[u] = mbufs[u])
  PROVE  OrderInv'
<1>1. \A m \in Carried' : \A d : At(m, d)' => At(m, d)
  BY DEF At
<1>2. \A m, k \in Carried' : Ahead(m, k) => Ahead(m, k)'
  <2> SUFFICES ASSUME NEW m \in Carried', NEW k \in Carried', Ahead(m, k) PROVE Ahead(m, k)'
    OBVIOUS
  <2>1. ASSUME NEW u \in Worker, m \in held[u], k \in held[u], Precedes(mbufs[u], m, k)
        PROVE  m \in held'[u] /\ k \in held'[u] /\ Precedes(mbufs'[u], m, k)
    <3>1. m \in held'[u] /\ k \in held'[u]
      BY <2>1
    <3> QED
      BY <2>1, <3>1
  <2> QED
    BY <2>1 DEF Ahead
<1>3. Moved({}, {}, {})
  BY <1>1, <1>2 DEF Moved
<1> QED
  BY <1>3, MovedInOrder

LEMMA ArriveInOrder ==
  ASSUME DataInv, OwnerInv, OrderInv, NEW f \in Flow, Arrive(f)
  PROVE  OrderInv'
<1> DEFINE c == RxChan(f.in)
<1>1. c \in Chan /\ f.que \in Queue
  BY ArriveMoves
<1>2. PICK m \in pool :
        /\ pool' = pool \ {m}
        /\ pkt' = [pkt EXCEPT ![m] = [flow |-> f, n |-> seq'[f]]]
        /\ chan' = [chan EXCEPT ![c][f.que] = @ \o <<m>>]
        /\ Len(chan[c][f.que]) + Len(<<m>>) <= Room(c)
  BY ArriveMoves
<1> HIDE DEF c
<1>3. m \in Mbuf /\ <<m>> \in Seq(Mbuf) /\ \A x : Among(<<m>>, x) <=> x = m
  <2>1. m \in Mbuf
    BY DEF DataInv, DataTypeOK
  <2>2. Len(<<m>>) = 1 /\ <<m>>[1] = m
    OBVIOUS
  <2> QED
    BY <2>1, <2>2 DEF Among
<1>4. \A d \in Chan, r \in Queue :
        chan'[d][r] = IF d = c /\ r = f.que THEN chan[c][f.que] \o <<m>> ELSE chan[d][r]
  BY <1>1, <1>2, <1>3, QueueGrows
<1>5. UNCHANGED <<setup, last, held, mbufs, pid>> /\ seq' = [seq EXCEPT ![f] = @ + 1]
  BY DEF Arrive, workVars
<1>6. /\ \A d \in Chan, q \in Queue : chan[d][q] \in Seq(Mbuf) /\ ~ Among(chan[d][q], m)
      /\ \A w \in Worker : m \notin held[w]
  BY <1>2 DEF OwnerInv, Queued, Among, DataInv, DataTypeOK
<1>7. \A x \in Carried' : x = m \/ (x \in Carried /\ x # m /\ pkt'[x] = pkt[x])
  BY <1>2 DEF Carried, OrderInv, PacketsOK
<1>8. pkt'[m].flow = f /\ pkt'[m].n = seq[f] + 1 /\ pkt' = [x \in Mbuf |-> pkt'[x]]
  <2>1. pkt'[m] = [flow |-> f, n |-> seq'[f]] /\ pkt' = [x \in Mbuf |-> pkt'[x]]
    BY <1>2, <1>3 DEF OrderInv, PacketsOK
  <2> QED
    BY <1>5, <2>1 DEF OrderInv, PacketsOK
<1>9. PacketsOK'
  <2>1. /\ seq' \in [Flow -> Nat] /\ last' \in [Flow -> Nat]
        /\ \A g \in Flow : last'[g] <= seq'[g] /\ seq[g] <= seq'[g]
        /\ seq'[f] = seq[f] + 1 /\ last'[f] <= seq[f] + 1 /\ seq[f] + 1 \in Nat
    BY <1>5 DEF OrderInv, PacketsOK
  <2>2. ASSUME NEW x \in Carried'
        PROVE  /\ pkt'[x].flow \in Flow /\ pkt'[x].n \in Nat
               /\ last'[pkt'[x].flow] <= pkt'[x].n /\ pkt'[x].n <= seq'[pkt'[x].flow]
    <3>1. CASE x = m
      BY <1>8, <2>1, <3>1
    <3>2. CASE x # m
      <4>1. x \in Carried /\ pkt'[x] = pkt[x]
        BY <1>7, <3>2
      <4>2. /\ pkt[x].flow \in Flow /\ pkt[x].n \in Nat
            /\ last[pkt[x].flow] <= pkt[x].n /\ pkt[x].n <= seq[pkt[x].flow]
        BY <4>1 DEF OrderInv, PacketsOK
      <4>3. \A j, k, l \in Nat : j <= k /\ k <= l => j <= l
        OBVIOUS
      <4>4. seq[pkt[x].flow] \in Nat /\ seq'[pkt[x].flow] \in Nat
        BY <2>1, <4>2 DEF OrderInv, PacketsOK
      <4> QED
        BY <1>5, <2>1, <4>1, <4>2, <4>3, <4>4
    <3> QED
      BY <3>1, <3>2
  <2> QED
    BY <1>8, <2>1, <2>2 DEF PacketsOK
<1>10. /\ \A g, a, b : Leads(g, a, b)' <=> Leads(g, a, b)
       /\ \A g, a : Once(g, a)' <=> Once(g, a)
       /\ \A g : Start(g)' = Start(g)
  BY <1>5, HopsStay DEF Start
<1>11. ASSUME NEW x \in Carried', NEW d, At(x, d)'
       PROVE  IF x = m THEN d = Start(f) ELSE At(x, d)
  <2>1. ASSUME NEW e \in Chan, NEW q \in Queue, d = InQueue(e, q), Among(chan'[e][q], x)
        PROVE  IF x = m THEN d = Start(f) ELSE At(x, d)
    <3>1. CASE e = c /\ q = f.que
      <4> DEFINE out == <<m>>
      <4> HIDE DEF out
      <4>1. out \in Seq(Mbuf) /\ chan[e][q] \in Seq(Mbuf) /\ Among(chan[e][q] \o out, x)
        BY <1>3, <1>4, <1>6, <2>1, <3>1 DEF out
      <4>2. Among(chan[e][q], x) \/ Among(out, x)
        BY <4>1, JoinedInOrder
      <4>3. Among(chan[e][q], x) \/ x = m
        BY <1>3, <4>2 DEF out
      <4> QED
        BY <2>1, <3>1, <4>3 DEF At, Start, c
    <3>2. CASE ~ (e = c /\ q = f.que)
      BY <1>4, <1>6, <2>1, <3>2 DEF At
    <3> QED
      BY <3>1, <3>2
  <2>2. ASSUME NEW u \in Worker, d = InHand(u, pid[u]), x \in held[u]
        PROVE  IF x = m THEN d = Start(f) ELSE At(x, d)
    BY <1>6, <2>2 DEF At
  <2> QED
    BY <1>5, <1>11, <2>1, <2>2 DEF At
<1>12. ASSUME NEW x, NEW y, Ahead(x, y)
       PROVE  Ahead(x, y)'
  <2>1. ASSUME NEW d \in Chan, NEW q \in Queue, Precedes(chan[d][q], x, y)
        PROVE  Precedes(chan'[d][q], x, y)
    <3>1. CASE d = c /\ q = f.que
      <4>1. chan[d][q] \in Seq(Mbuf) /\ <<m>> \in Seq(Mbuf)
        BY <1>3, <1>6
      <4>2. Precedes(chan[d][q] \o <<m>>, x, y)
        BY <2>1, <4>1, JoinedInOrder
      <4> QED
        BY <1>4, <3>1, <4>2
    <3>2. CASE ~ (d = c /\ q = f.que)
      BY <1>4, <2>1, <3>2
    <3> QED
      BY <3>1, <3>2
  <2> QED
    BY <1>5, <1>12, <2>1 DEF Ahead
<1>13. OnTheWay'
  <2> SUFFICES ASSUME NEW x \in Carried', NEW d, At(x, d)'
               PROVE  Leads(pkt'[x].flow, Start(pkt'[x].flow), d)
    BY <1>10 DEF OnTheWay
  <2>1. CASE x = m
    BY <1>8, <1>11, <2>1 DEF Leads
  <2>2. CASE x # m
    BY <1>7, <1>11, <2>2 DEF OrderInv, OnTheWay
  <2> QED
    BY <2>1, <2>2
<1>14. ASSUME NEW x \in Carried', NEW y \in Carried', NEW d, NEW e,
              Older(x, y)', At(x, d)', At(y, e)'
       PROVE  /\ Leads(pkt'[x].flow, e, d)
              /\ d = e /\ Once(pkt'[x].flow, d) => Ahead(x, y)'
  <2>1. x # m
    <3>1. SUFFICES ASSUME x = m PROVE FALSE
      OBVIOUS
    <3>2. pkt'[y].flow = f /\ seq[f] + 1 < pkt'[y].n
      BY <1>8, <1>14, <3>1 DEF Older
    <3>3. y # m => pkt[y].flow = f /\ pkt[y].n \in Nat /\ pkt[y].n <= seq[f] /\ pkt'[y].n = pkt[y].n
      BY <1>7, <3>2 DEF OrderInv, PacketsOK
    <3>4. seq[f] \in Nat
      BY DEF OrderInv, PacketsOK
    <3> QED
      BY <1>8, <3>2, <3>3, <3>4
  <2>2. x \in Carried /\ pkt'[x] = pkt[x] /\ At(x, d)
    BY <1>7, <1>11, <1>14, <2>1
  <2>3. CASE y = m
    <3>1. pkt[x].flow = f /\ e = Start(f)
      BY <1>8, <1>11, <1>14, <2>2, <2>3 DEF Older
    <3>2. Leads(f, e, d)
      BY <2>2, <3>1 DEF OrderInv, OnTheWay
    <3>3. ASSUME d = e PROVE Ahead(x, y)'
      <4>1. d = InQueue(c, f.que)
        BY <3>1, <3>3 DEF Start, c
      <4>2. Among(chan[c][f.que], x)
        BY <2>2, <4>1, PlacesDiffer DEF At
      <4>3. Among(<<m>>, y) /\ chan[c][f.que] \in Seq(Mbuf) /\ <<m>> \in Seq(Mbuf)
        BY <1>1, <1>3, <1>6, <2>3
      <4>4. Precedes(chan[c][f.que] \o <<m>>, x, y)
        BY <4>2, <4>3, JoinedInOrder
      <4>5. Precedes(chan'[c][f.que], x, y)
        BY <1>1, <1>4, <4>4
      <4> QED
        BY <1>1, <4>5 DEF Ahead
    <3> QED
      BY <2>2, <3>1, <3>2, <3>3
  <2>4. CASE y # m
    <3>1. y \in Carried /\ pkt'[y] = pkt[y] /\ At(y, e) /\ Older(x, y)
      BY <1>7, <1>11, <1>14, <2>2, <2>4 DEF Older
    <3> QED
      BY <1>12, <2>2, <3>1 DEF OrderInv, Follows, InLine
  <2> QED
    BY <2>3, <2>4
<1>15. Follows' /\ InLine'
  BY <1>10, <1>14 DEF Follows, InLine
<1> QED
  BY <1>9, <1>13, <1>15 DEF OrderInv

(* No packet goes on from the queue of a wire. *)
LEMMA WireIsEnd ==
  ASSUME NEW p \in Nic, NEW q, NEW f, NEW b
  PROVE  ~ Hop(f, InQueue(TxChan(p), q), b)
<1>1. ASSUME NEW w \in Worker, NEW x \in Pid
      PROVE  RxChan(PortOf[w[1]][x]) # TxChan(p)
  <2>1. PortOf[w[1]][x] \in Port
    BY PortsOf
  <2> QED
    BY <2>1, DataPlaneAssumption DEF RxChan, TxChan, Port, Virt
<1> QED
  BY <1>1, PlacesDiffer DEF Hop

LEMMA DepartInOrder ==
  ASSUME DataInv, OwnerInv, OrderInv, NEW p \in Nic, NEW q \in Queue, Depart(p, q)
  PROVE  OrderInv' /\ UNCHANGED late
<1> DEFINE c == TxChan(p)
           s == chan[c][q]
           y == s[1]
           a == InQueue(c, q)
<1>1. /\ c \in Chan /\ s \in Seq(Mbuf) /\ 1 \in 0 .. Len(s) /\ 1 \in 1 .. Len(s) /\ y \in Mbuf
      /\ pool' = pool \cup {y}
      /\ chan' = [chan EXCEPT ![c][q] = SubSeq(s, 1 + 1, Len(s))]
      /\ pkt' = [pkt EXCEPT ![y] = Empty]
      /\ last' = [last EXCEPT ![pkt[y].flow] = pkt[y].n]
      /\ late' = IF pkt[y].n < last[pkt[y].flow] THEN late \cup {pkt[y].flow} ELSE late
  BY DepartMoves
<1> DEFINE front == SubSeq(s, 1, 1)
           rest == SubSeq(s, 1 + 1, Len(s))
<1>2. \A d \in Chan, r \in Queue :
        chan'[d][r] = IF d = c /\ r = q THEN rest ELSE chan[d][r]
  BY <1>1, QueueShrinks
<1>3. NoRepeat(s)
  BY <1>1 DEF OwnerInv, QueuedOnce, NoRepeat
<1>4. \A m : Among(front, m) <=> m = y
  <2>1. Len(front) = 1 /\ front[1] = y
    BY <1>1
  <2> QED
    BY <2>1 DEF Among
<1>5. \A m, k :
        /\ Among(s, m) <=> Among(front, m) \/ Among(rest, m)
        /\ Precedes(s, m, k) /\ ~ Among(front, m) => Precedes(rest, m, k)
        /\ Precedes(s, m, k) /\ Among(front, k) => Among(front, m)
  BY <1>1, <1>3, FrontInOrder
<1>6. UNCHANGED <<setup, seq, held, mbufs, pid>>
  BY DEF Depart, workVars
<1> HIDE DEF c, s, y, front, rest
<1>7. Among(chan[c][q], y) /\ y \in Carried
  <2>1. Among(s, y)
    BY <1>1 DEF Among, y
  <2> QED
    BY <1>1, <2>1 DEF s, Carried, OwnerInv, Queued, Among
<1>8. At(y, a)
  BY <1>1, <1>7 DEF At
<1>9. /\ pkt[y].flow \in Flow /\ pkt[y].n \in Nat
      /\ last[pkt[y].flow] <= pkt[y].n /\ pkt[y].n <= seq[pkt[y].flow] /\ last[pkt[y].flow] \in Nat
  BY <1>7 DEF OrderInv, PacketsOK
<1>10. Carried' \subseteq Carried /\ \A m \in Carried' : m # y /\ pkt'[m] = pkt[m]
  BY <1>1 DEF Carried, OrderInv, PacketsOK
<1> DEFINE f == pkt[y].flow
<1>11. Once(f, a) /\ \A b : Leads(f, a, b) => b = a
  <2>1. \A b : ~ Hop(f, a, b)
    BY WireIsEnd DEF c
  <2>2. Closed(f, {}) /\ Closed(f, {a})
    BY <2>1 DEF Closed
  <2> QED
    BY <2>1, <2>2 DEF Once, Leads
<1>12. ASSUME NEW m \in Carried', pkt[m].flow = f
       PROVE  pkt[y].n <= pkt[m].n
  <2>1. m \in Carried /\ m # y /\ pkt[m].n \in Nat
    BY <1>10 DEF OrderInv, PacketsOK
  <2>2. SUFFICES ASSUME pkt[m].n < pkt[y].n PROVE FALSE
    BY <1>9, <2>1
  <2>3. Older(m, y)
    BY <1>12, <2>2 DEF Older
  <2>4. PICK d : At(m, d)
    BY <2>1 DEF OwnerInv, Queued, At, Among, Carried
  <2>5. d = a
    BY <1>7, <1>8, <1>11, <1>12, <2>1, <2>3, <2>4 DEF OrderInv, Follows
  <2>6. Ahead(m, y)
    BY <1>7, <1>8, <1>11, <1>12, <2>1, <2>3, <2>4, <2>5 DEF OrderInv, InLine
  <2>7. \A u \in Worker : y \notin held[u]
    BY <1>1, <1>7, QueuedAlone
  <2>8. \A e \in Chan, r \in Queue : Among(chan[e][r], y) => c = e /\ q = r
    BY <1>1, <1>7, QueuedAlone
  <2>9. \A e \in Chan, r \in Queue : Precedes(chan[e][r], m, y) => Among(chan[e][r], y)
    BY DEF Precedes, Among
  <2>10. Precedes(s, m, y)
    BY <2>6, <2>7, <2>8, <2>9 DEF Ahead, s
  <2> QED
    BY <1>4, <1>5, <2>1, <2>10
<1>13. PacketsOK'
  <2>1. pkt' = [m \in Mbuf |-> pkt'[m]]
    BY <1>1 DEF OrderInv, PacketsOK
  <2>2. /\ seq' \in [Flow -> Nat] /\ last' \in [Flow -> Nat]
        /\ \A g \in Flow : last'[g] <= seq'[g]
        /\ \A g \in Flow : last'[g] = IF g = f THEN pkt[y].n ELSE last[g]
    BY <1>1, <1>6, <1>9 DEF OrderInv, PacketsOK
  <2>3. ASSUME NEW m \in Carried'
        PROVE  /\ pkt'[m].flow \in Flow /\ pkt'[m].n \in Nat
               /\ last'[pkt'[m].flow] <= pkt'[m].n /\ pkt'[m].n <= seq'[pkt'[m].flow]
    <3>1. m \in Carried /\ pkt'[m] = pkt[m]
      BY <1>10
    <3>2. /\ pkt[m].flow \in Flow /\ pkt[m].n \in Nat
          /\ last[pkt[m].flow] <= pkt[m].n /\ pkt[m].n <= seq[pkt[m].flow]
      BY <3>1 DEF OrderInv, PacketsOK
    <3> QED
      BY <1>6, <1>12, <2>2, <3>1, <3>2
  <2> QED
    BY <2>1, <2>2, <2>3 DEF PacketsOK
<1>14. ASSUME NEW m \in Carried', NEW d, At(m, d)'
       PROVE  At(m, d)
  <2>1. ASSUME NEW e \in Chan, NEW r \in Queue, Among(chan'[e][r], m)
        PROVE  Among(chan[e][r], m)
    <3>1. CASE e = c /\ r = q
      BY <1>2, <1>5, <2>1, <3>1 DEF s
    <3>2. CASE ~ (e = c /\ r = q)
      BY <1>2, <2>1, <3>2
    <3> QED
      BY <3>1, <3>2
  <2> QED
    BY <1>6, <1>14, <2>1 DEF At
<1>15. ASSUME NEW m \in Carried', NEW k \in Carried', Ahead(m, k)
       PROVE  Ahead(m, k)'
  <2>1. ASSUME NEW e \in Chan, NEW r \in Queue, Precedes(chan[e][r], m, k)
        PROVE  Precedes(chan'[e][r], m, k)
    <3>1. CASE e = c /\ r = q
      BY <1>2, <1>4, <1>5, <1>10, <2>1, <3>1 DEF s
    <3>2. CASE ~ (e = c /\ r = q)
      BY <1>2, <2>1, <3>2
    <3> QED
      BY <3>1, <3>2
  <2> QED
    BY <1>6, <1>15, <2>1 DEF Ahead
<1>16. Moved({}, {}, {})
  BY <1>6, <1>10, <1>13, <1>14, <1>15 DEF Moved
<1>17. UNCHANGED late
  BY <1>1, <1>9
<1> QED
  BY <1>16, <1>17, MovedInOrder

LEMMA PidsStay ==
  ASSUME DataInv, PidsOK, NEW w \in Worker, UNCHANGED setup,
         UNCHANGED pid \/ NextPoll(w) \/ NextPacket(w)
  PROVE  PidsOK'
<1>1. UNCHANGED pid \/ pid' = [pid EXCEPT ![w] = IF PerPort(w) THEN @ ELSE 1 - @]
  BY DEF NextPoll, NextPacket
<1>2. \A u \in Worker : PerPort(u)' <=> PerPort(u)
  BY DEF PerPort, Prog
<1> QED
  BY <1>1, <1>2 DEF PidsOK, DataInv, DataTypeOK

(* A worker goes on to the next packet, or to the next burst when he has   *)
(* none left.                                                              *)
LEMMA GoesOnInOrder ==
  ASSUME DataInv, Owned, OrderInv, Owned', DataInv', NEW w \in Worker, NextPoll(w) \/ NextPacket(w),
         UNCHANGED <<setup, chan, seq, last>>, NEW S \in SUBSET Mbuf, pool' = pool \cup S,
         pkt' = [m \in Mbuf |-> IF m \in S THEN Empty ELSE pkt[m]],
         held' = [held EXCEPT ![w] = @ \ S]
  PROVE  OrderInv'
<1>1. /\ pool \subseteq pool' /\ pkt' = [m \in Mbuf |-> pkt'[m]]
      /\ \A m \in Carried' : m \notin S /\ pkt'[m] = pkt[m]
  BY DEF Carried
<1>2. PacketsOK' /\ Carried' \subseteq Carried
  BY <1>1, PacketsStay DEF OrderInv
<1>3. \A u \in Worker : held'[u] = IF u = w THEN held[w] \ S ELSE held[u]
  BY DEF DataInv, DataTypeOK
<1>4. \/ UNCHANGED <<pid, mbufs>>
      \/ /\ mbufs'[w] = <<>>
         /\ \A u \in Worker \ {w} : pid'[u] = pid[u] /\ mbufs'[u] = mbufs[u]
  <2>1. CASE NextPoll(w)
    BY <2>1 DEF NextPoll, DataInv, DataTypeOK
  <2>2. CASE NextPacket(w) /\ ~ NextPoll(w)
    BY <2>2 DEF NextPacket
  <2> QED
    BY <2>1, <2>2
<1>5. mbufs'[w] = <<>> => held'[w] = {}
  <2>1. ASSUME mbufs'[w] = <<>> PROVE held'[w] = {}
    <3>1. Holding(w)' /\ i'[w] \in Nat \ {0} /\ n_send'[w] \in Nat
      BY DEF Owned, DataInv, DataTypeOK
    <3>2. From(w, i[w] + n_send[w])' = {}
      BY <2>1, <3>1 DEF From
    <3> QED
      BY <2>1, <3>1, <3>2 DEF Holding, Spent
  <2> QED
    BY <2>1
<1>6. \A u \in Worker : /\ held'[u] \subseteq held[u]
                        /\ held[u] \cap Carried' \subseteq held'[u]
                        /\ held'[u] = {} \/ (pid'[u] = pid[u] /\ mbufs'[u] = mbufs[u])
  BY <1>1, <1>3, <1>4, <1>5
<1> QED
  BY <1>1, <1>2, <1>6, RestInOrder

LEMMA WorkInOrder ==
  ASSUME DataInv, Owned, OrderInv, PidsOK, Narrow, NEW w \in Worker, Work(w),
         DataInv', ~ misuse => (~ misuse' => Owned')
  PROVE  UNCHANGED late /\ (~ misuse' => OrderInv' /\ PidsOK')
<1>1. CASE Poll(w)
  <2>1. UNCHANGED <<setup, late>> /\ (UNCHANGED pid \/ NextPoll(w) \/ NextPacket(w))
    BY <1>1 DEF Poll, Received, wireVars
  <2> QED
    BY <1>1, <2>1, PollInOrder, PidsStay
<1>2. CASE CountRx(w)
  <2>1. /\ UNCHANGED <<setup, chan, pool, pkt, held, seq, last, late, misuse>>
        /\ NextPoll(w) \/ (UNCHANGED pid /\ mbufs' = [mbufs EXCEPT ![w] = mbufs[w]])
    BY <1>2 DEF CountRx, Received, wireVars
  <2>2. Owned' /\ ~ misuse'
    BY <2>1 DEF Work
  <2>3. CASE NextPoll(w)
    <3>1. pkt = [m \in Mbuf |-> pkt[m]] /\ held \in [Worker -> SUBSET Mbuf]
      BY DEF OrderInv, PacketsOK, DataInv, DataTypeOK
    <3>2. /\ pool' = pool \cup {} /\ held' = [held EXCEPT ![w] = @ \ {}]
          /\ pkt' = [m \in Mbuf |-> IF m \in {} THEN Empty ELSE pkt[m]]
      BY <2>1, <3>1
    <3> DEFINE S == {}
    <3>3. /\ S \in SUBSET Mbuf /\ pool' = pool \cup S /\ held' = [held EXCEPT ![w] = @ \ S]
          /\ pkt' = [m \in Mbuf |-> IF m \in S THEN Empty ELSE pkt[m]]
      BY <3>2
    <3> HIDE DEF S
    <3>4. UNCHANGED <<setup, chan, seq, last>> /\ UNCHANGED setup
      BY <2>1
    <3>5. OrderInv'
      BY <2>2, <2>3, <3>3, <3>4, GoesOnInOrder
    <3>6. PidsOK'
      BY <2>3, <3>4, PidsStay
    <3> QED
      BY <2>1, <3>5, <3>6
  <2>4. CASE UNCHANGED pid /\ mbufs' = [mbufs EXCEPT ![w] = mbufs[w]]
    <3>1. UNCHANGED <<pid, mbufs>>
      BY <2>4 DEF DataInv, DataTypeOK
    <3>2. /\ Carried' = Carried /\ PacketsOK'
          /\ \A u \in Worker : held'[u] = held[u] /\ pid'[u] = pid[u] /\ mbufs'[u] = mbufs[u]
      BY <2>1, <3>1 DEF Carried, OrderInv, PacketsOK
    <3> QED
      BY <2>1, <3>1, <3>2, RestInOrder, PidsStay
  <2> QED
    BY <2>1, <2>3, <2>4
<1>3. ASSUME NEW s, pc[w] = "work", Part(w, s), TxBurst(w, s),
             Prog(w) = "l3fwd" => s = <<mbufs[w][i[w]]>>
      PROVE  UNCHANGED late /\ (~ misuse' => OrderInv' /\ PidsOK')
  <2>1. UNCHANGED <<setup, pid, late>>
    BY <1>3 DEF TxBurst, wireVars
  <2>2. PidsOK'
    BY <2>1, PidsStay
  <2> QED
    BY <1>3, <2>1, <2>2, TxBurstInOrder
<1>4. CASE Forward(w)
  <2>1. pc[w] = "work" /\ Part(w, mbufs[w]) /\ TxBurst(w, mbufs[w]) /\ Prog(w) # "l3fwd"
    BY <1>4, Parts DEF Forward
  <2> QED
    BY <1>3, <2>1
<1>5. CASE Route(w)
  <2>1. pc[w] = "work" /\ Part(w, <<mbufs[w][i[w]]>>)
    BY <1>5, Parts DEF Route
  <2>2. TxBurst(w, <<mbufs[w][i[w]]>>) \/ (misuse' /\ UNCHANGED late)
    BY <1>5 DEF Route, wireVars
  <2> QED
    BY <1>3, <2>1, <2>2
<1>6. CASE Filter(w)
  <2>1. pc[w] = "work" /\ Part(w, <<mbufs[w][i[w]]>>) /\ i[w] \in 1 .. Len(mbufs[w])
        /\ mbufs[w][i[w]] \in Mbuf
    BY <1>6, Parts, PacketOf DEF Filter
  <2>2. CASE TxBurst(w, <<mbufs[w][i[w]]>>)
    BY <1>3, <2>1, <2>2
  <2>3. CASE ~ TxBurst(w, <<mbufs[w][i[w]]>>)
    <3> DEFINE S == {mbufs[w][i[w]]}
    <3>1. Free(w, S) /\ NextPacket(w) /\ UNCHANGED <<setup, chan, seq, last, late>>
      BY <1>6, <2>3 DEF Filter, wireVars
    <3>2. S \in SUBSET Mbuf
      BY <2>1
    <3> HIDE DEF S
    <3>3. ASSUME ~ misuse' PROVE OrderInv'
      BY <3>1, <3>2, <3>3, GoesOnInOrder DEF Free, Work
    <3> QED
      BY <3>1, <3>3, PidsStay
  <2> QED
    BY <2>2, <2>3
<1>7. CASE AfterTx(w)
  <2>1. /\ pc[w] = "sent" /\ Free(w, Unsent(w)) /\ UNCHANGED <<setup, chan, seq, last, late>>
        /\ NextPacket(w) \/ NextPoll(w)
    BY <1>7 DEF AfterTx, wireVars
  <2>2. Unsent(w) \in SUBSET Mbuf
    BY <2>1, UnsentAreMbufs
  <2>3. ASSUME ~ misuse' PROVE OrderInv'
    BY <2>1, <2>2, <2>3, GoesOnInOrder DEF Free, Work
  <2> QED
    BY <2>1, <2>3, PidsStay
<1> QED
  BY <1>1, <1>2, <1>4, <1>5, <1>6, <1>7 DEF Work

FlowsInv == Narrow => late = {} /\ (~ misuse => OrderInv /\ PidsOK)

LEMMA FlowsInit ==
  ASSUME Init
  PROVE  FlowsInv
<1>1. /\ pool = Mbuf /\ pkt = [m \in Mbuf |-> Empty] /\ late = {} /\ Carried = {}
      /\ seq = [f \in Flow |-> 0] /\ last = [f \in Flow |-> 0]
      /\ pid = [w \in Worker |-> w[2]]
  BY DEF Init, Carried
<1>2. PacketsOK
  BY <1>1 DEF PacketsOK
<1>3. OnTheWay /\ Follows /\ InLine
  BY <1>1 DEF OnTheWay, Follows, InLine
<1>4. PidsOK
  BY <1>1 DEF PidsOK
<1> QED
  BY <1>1, <1>2, <1>3, <1>4 DEF FlowsInv, OrderInv

LEMMA WorkKeepsSetup ==
  ASSUME NEW w \in Worker, Work(w)
  PROVE  UNCHANGED setup
<1>1. CASE Poll(w) \/ CountRx(w)
  BY <1>1 DEF Poll, CountRx
<1>2. CASE Forward(w)
  BY <1>2 DEF Forward, TxBurst
<1>3. CASE Route(w)
  BY <1>3 DEF Route, TxBurst
<1>4. CASE Filter(w)
  BY <1>4 DEF Filter, TxBurst
<1>5. CASE AfterTx(w)
  BY <1>5 DEF AfterTx
<1> QED
  BY <1>1, <1>2, <1>3, <1>4, <1>5 DEF Work

LEMMA FlowsStep ==
  ASSUME DataInv, DataInv', ~ misuse => Owned, (~ misuse => Owned)', FlowsInv, [Next]_vars
  PROVE  FlowsInv'
<1>1. UNCHANGED setup
  <2>1. ASSUME NEW w \in Worker, Work(w) PROVE UNCHANGED setup
    BY <2>1, WorkKeepsSetup
  <2>2. ASSUME NEW f \in Flow, Arrive(f) PROVE UNCHANGED setup
    BY <2>2 DEF Arrive
  <2>3. ASSUME NEW p \in Nic, NEW q \in Queue, Depart(p, q) PROVE UNCHANGED setup
    BY <2>3 DEF Depart
  <2>4. CASE TickRead \/ TickZero
    BY <2>4 DEF TickRead, TickZero
  <2>5. CASE UNCHANGED vars
    BY <2>5 DEF vars
  <2> QED
    BY <2>1, <2>2, <2>3, <2>4, <2>5 DEF Next
<1>2. Narrow' <=> Narrow
  BY <1>1 DEF Narrow, Active, PerPort, Prog, Cores, NTxAcc
<1> SUFFICES ASSUME Narrow
             PROVE  late' = {} /\ (~ misuse' => OrderInv' /\ PidsOK')
  BY <1>2 DEF FlowsInv
<1>3. late = {} /\ (~ misuse => OrderInv /\ PidsOK)
  BY DEF FlowsInv
<1>4. ASSUME NEW w \in Worker, Work(w)
      PROVE  late' = {} /\ (~ misuse' => OrderInv' /\ PidsOK')
  <2>1. ~ misuse
    BY <1>4 DEF Work
  <2> QED
    BY <1>3, <1>4, <2>1, WorkInOrder
<1>5. ASSUME NEW f \in Flow, Arrive(f)
      PROVE  late' = {} /\ OrderInv' /\ PidsOK'
  <2>1. ~ misuse /\ UNCHANGED <<setup, pid, late>>
    BY <1>5 DEF Arrive, workVars
  <2>2. OrderInv'
    BY <1>3, <1>5, <2>1, ArriveInOrder DEF Owned
  <2> QED
    BY <1>3, <2>1, <2>2 DEF PidsOK, PerPort, Prog
<1>6. ASSUME NEW p \in Nic, NEW q \in Queue, Depart(p, q)
      PROVE  late' = {} /\ OrderInv' /\ PidsOK'
  <2>1. ~ misuse /\ UNCHANGED <<setup, pid>>
    BY <1>6 DEF Depart, workVars
  <2>2. OrderInv' /\ UNCHANGED late
    BY <1>3, <1>6, <2>1, DepartInOrder DEF Owned
  <2> QED
    BY <1>3, <2>1, <2>2 DEF PidsOK, PerPort, Prog
<1>7. ASSUME UNCHANGED <<setup, chan, pool, pkt, workVars, wireVars, misuse>>
      PROVE  late' = {} /\ (~ misuse' => OrderInv' /\ PidsOK')
  <2>1. late' = late /\ misuse' = misuse
    BY <1>7 DEF wireVars
  <2>2. ASSUME OrderInv, PidsOK PROVE OrderInv' /\ PidsOK'
    <3>1. /\ Carried' = Carried /\ PacketsOK' /\ UNCHANGED <<setup, chan>>
          /\ \A m \in Carried' : pkt'[m] = pkt[m]
      BY <1>7, <2>2 DEF Carried, OrderInv, PacketsOK, wireVars
    <3>2. \A u \in Worker : held'[u] = held[u] /\ pid'[u] = pid[u] /\ mbufs'[u] = mbufs[u]
      BY <1>7 DEF workVars
    <3>3. OrderInv'
      BY <2>2, <3>1, <3>2, RestInOrder
    <3> QED
      BY <2>2, <3>1, <3>2, <3>3 DEF PidsOK, PerPort, Prog
  <2> QED
    BY <1>3, <2>1, <2>2
<1>8. CASE TickRead \/ TickZero
  BY <1>7, <1>8 DEF TickRead, TickZero
<1>9. CASE UNCHANGED vars
  BY <1>7, <1>9 DEF vars
<1> QED
  BY <1>4, <1>5, <1>6, <1>8, <1>9 DEF Next

(* get_qids_from_aid, set_coremask_impl and the loops of the VNFs: packets *)
(* of a flow keep one way through any services, and their order on it,     *)
(* where every worker has one transmit queue.  No burst that is refused in *)
(* part, no packet that is dropped and no loop in the way changes that.    *)
THEOREM FlowsStayInOrder == Spec => []FlowsInOrder
<1>1. Init => FlowsInv /\ Owned
  BY FlowsInit, OwnersInit
<1>2. DataInv /\ (~ misuse => Owned) /\ [Next]_vars => (~ misuse => Owned)'
  <2>1. misuse /\ [Next]_vars => misuse'
    BY DEF Next, Work, Arrive, Depart, TickRead, TickZero, vars
  <2> QED
    BY <2>1, OwnersStep
<1>3. /\ DataInv /\ DataInv' /\ (~ misuse => Owned) /\ (~ misuse => Owned)' /\ FlowsInv
      /\ [Next]_vars
      => FlowsInv'
  BY FlowsStep
<1>4. FlowsInv => FlowsInOrder
  BY DEF FlowsInv, FlowsInOrder, Narrow
<1>5. Spec => []DataInv
  BY DataTypeCorrect
<1> QED
  BY <1>1, <1>2, <1>3, <1>4, <1>5, PTL DEF Spec
=============================================================================
