------------------------------ MODULE DataPlane -----------------------------
(***************************************************************************)
(* What deployed VNFs do with packets: the polling loops of l2fwd,         *)
(* l2fwd_numa, l2fwd_delay, l3fwd and acl, the bursts on hardware queues   *)
(* (ssn_ma_port.cc) and on the rings of patch panels (ssn_ma_ring.h,       *)
(* virt.h), and the figures per second that the timer callback takes from  *)
(* counters the workers write without a lock.                              *)
(*                                                                         *)
(* A worker is a vcore of a block on its lcore; it interleaves with the    *)
(* others, with the NICs and with the timer at every access to what they   *)
(* share.  The configuration is that of VNFs deployed after a reset and    *)
(* stays as it is; how it comes about is module VnfConfig's.               *)
(***************************************************************************)
EXTENDS MaAccess, Sequences, SequencesExt

CONSTANTS
  Vnf, PortOf,  \* PortOf[v][pid]: the two ports of each VNF
  Nic,          \* the DPDK ports, with a wire behind them
  Peer,         \* the virtual ports, each with the other side of its panel
  Setup,        \* services: [prog, cores, watch, flows, max]
  NQueue,       \* rx and tx queues of every port
  Burst,        \* packets a burst asks for: 32 in the code
  RingRoom,     \* packets a ring holds: 1023
  Desc,         \* descriptors of a NIC's queue
  Mbuf,         \* the packet buffers of the mempool
  Flow,         \* flows: [in, que, ip4, out, pass]
  Junk          \* what an uninitialised counter holds

Virt == DOMAIN Peer
Port == Nic \cup Virt
Queue == Queues(NQueue)
Pid == {0, 1}
Program == {"l2fwd", "l2fwd_numa", "l3fwd", "acl"}

(* The tx accessors that the blocks of a VNF ask for.                      *)
TxAccessors(prog, cores) == IF prog = "l2fwd_numa" THEN 2 * cores ELSE cores

(* attach_port takes a port that no VNF has; a port is of one class; and   *)
(* configure_acc throws, and no VNF is deployed, unless the number of      *)
(* accessors divides that of the queues.                                   *)
ASSUME DataPlaneAssumption ==
  /\ Nic \cap Virt = {}
  /\ Peer \in [Virt -> Virt] /\ \A p \in Virt : Peer[Peer[p]] = p
  /\ PortOf \in [Vnf -> [Pid -> Port]]
  /\ \A v, u \in Vnf, x, y \in Pid : PortOf[v][x] = PortOf[u][y] => v = u /\ x = y
  /\ NQueue \in Nat \ {0} /\ Burst \in Nat \ {0} /\ RingRoom \in Nat \ {0} /\ Desc \in Nat \ {0}
  /\ \A s \in Setup : /\ s.prog \in [Vnf -> Program] /\ s.cores \in [Vnf -> Nat]
                      /\ s.flows \subseteq Flow
                      /\ \A v \in Vnf : s.cores[v] > 0 =>
                           /\ Divides(s.cores[v], NQueue)
                           /\ Divides(TxAccessors(s.prog[v], s.cores[v]), NQueue)
  /\ \A f \in Flow : f.in \in Nic /\ f.que \in Queue
  /\ Junk \in Nat \ {0}

(* The direction a port sends in and the one it receives from.  The panel  *)
(* gives each side the other's transmit rings to receive from.             *)
TxChan(p) == <<p, "tx">>
RxChan(p) == IF p \in Virt THEN TxChan(Peer[p]) ELSE <<p, "rx">>
Room(c) == IF c[1] \in Virt THEN RingRoom ELSE Desc
Chan == {TxChan(p) : p \in Port} \cup {RxChan(p) : p \in Port}

(* prod_pps_sum and cons_pps_sum of rings, irx_pps_sum of DPDK ports.      *)
ProdSum(c) == <<"prod", c>>
ConsSum(c) == <<"cons", c>>

(* A worker: VNF, block and vcore. *)
Worker == Vnf \X Pid \X Queue

VARIABLES
  setup,    \* the service: the class and the vcores of each VNF; the counter
            \* looked at, if any, as no step depends on the others; the
            \* flows that arrive and a bound, how many packets of them
  chan,     \* the packets in each queue of each direction
  pool,     \* free mbufs
  pkt,      \* the packet in each mbuf
  rr,       \* accessor_idx of each accessor of each port
  pc, pid,  \* where each worker is, the port it polls
  mbufs,    \* the burst it received
  i, dst, n_send,  \* its loop over the burst, the port it sends to
  reg,      \* the watched counter as it read it
  held,     \* mbufs of the burst that it has neither sent nor freed
  sum,      \* the watched counter
  ticking,  \* the timer has read it and not zeroed it yet
  owed,     \* packets moved and not yet in a figure, unless raced
  raced,    \* accesses to it have overlapped
  seq, last, late,  \* per flow: arrived, last seen on the wire; out of order
  misuse    \* an mbuf was used by somebody who did not own it

workVars == <<pc, pid, mbufs, i, dst, n_send, reg, held>>
countVars == <<sum, ticking, owed, raced>>
wireVars == <<seq, last, late>>
vars == <<setup, chan, pool, pkt, rr, workVars, countVars, wireVars, misuse>>

None == "none"
NoCounter == <<>>
Empty == [flow |-> None, n |-> 0]

Prog(w) == setup.prog[w[1]]
Cores(w) == setup.cores[w[1]]
PerPort(w) == Prog(w) = "l2fwd_numa"     \* a block per port it polls
Active(w) == w[3] < Cores(w) /\ (w[2] = 0 \/ PerPort(w))

MutRxAid(w) == 0

(* set_coremask_impl: every vcore asks each port for its accesses. *)
RxAid(w) == w[3]
TxAid(w) == IF PerPort(w) THEN w[2] * Cores(w) + w[3] ELSE w[3]
NRxAcc(w) == Cores(w)
NTxAcc(w) == TxAccessors(Prog(w), Cores(w))

(* accessor::get of the accessor with this index: its queues in turn.      *)
Share(nacc) == NQueue \div nacc
Turn(a, aid, nacc) == aid * Share(nacc) + rr[a]
NextTurn(a, nacc) == [rr EXCEPT ![a] = (@ + 1) % Share(nacc)]

InPort(w) == PortOf[w[1]][pid[w]]

(* l3fwd's routes; without one a packet goes back where it came from. *)
FlowOf(w) == pkt[mbufs[w][i[w]]].flow
OutPid(w) ==
  IF Prog(w) = "l3fwd"
  THEN IF FlowOf(w).out \in Pid THEN FlowOf(w).out ELSE pid[w]
  ELSE 1 - pid[w]
OutPort(w) == PortOf[w[1]][dst[w]]

-----------------------------------------------------------------------------
Init ==
  /\ setup \in Setup
  /\ chan = [c \in Chan |-> [q \in Queue |-> <<>>]]
  /\ pool = Mbuf
  /\ pkt = [m \in Mbuf |-> Empty]
  /\ rr = [a \in Port \X {"rx", "tx"} \X Queue |-> 0]
  /\ pc = [w \in Worker |-> IF Active(w) THEN "poll" ELSE "off"]
  /\ pid = [w \in Worker |-> w[2]]
  /\ mbufs = [w \in Worker |-> <<>>]
  /\ i = [w \in Worker |-> 1] /\ dst = [w \in Worker |-> 0] /\ n_send = [w \in Worker |-> 0]
  /\ reg = [w \in Worker |-> 0]
  /\ held = [w \in Worker |-> {}]
  (* ssn_ma_ring's constructor forgets cons_pps_sum. *)
  /\ sum \in IF setup.watch \in {ConsSum(RxChan(p)) : p \in Virt} THEN {0, Junk} ELSE {0}
  /\ raced = (sum # 0)
  /\ ticking = FALSE /\ owed = 0
  /\ seq = [f \in Flow |-> 0] /\ last = [f \in Flow |-> 0] /\ late = {}
  /\ misuse = FALSE

-----------------------------------------------------------------------------
(* Counting a burst: x += n is a read and a write of memory that other     *)
(* workers on the same port and the timer access too.                      *)

RxCounter(w) == ConsSum(RxChan(InPort(w)))
TxCounter(w) == ProdSum(TxChan(OutPort(w)))

BeingCounted ==
  \E w \in Worker : \/ pc[w] = "counted"
                    \/ pc[w] = "sent" /\ TxCounter(w) = setup.watch

Load(w, k) ==
  IF k = setup.watch
  THEN /\ reg' = [reg EXCEPT ![w] = sum]
       /\ raced' = (raced \/ BeingCounted \/ ticking)
       /\ owed' = IF raced' THEN 0 ELSE owed
       /\ UNCHANGED <<sum, ticking>>
  ELSE UNCHANGED <<reg, countVars>>

Store(w, k, n) ==
  IF k = setup.watch
  THEN /\ sum' = reg[w] + n
       /\ owed' = IF raced THEN 0 ELSE owed + n
       /\ reg' = [reg EXCEPT ![w] = 0]
       /\ UNCHANGED <<ticking, raced>>
  ELSE UNCHANGED <<reg, countVars>>

(* rte_pktmbuf_free of a set of mbufs by w. *)
Free(w, S) ==
  /\ pool' = pool \cup S
  /\ pkt' = [m \in Mbuf |-> IF m \in S THEN Empty ELSE pkt[m]]
  /\ held' = [held EXCEPT ![w] = @ \ S]
  /\ misuse' = (misuse \/ ~ (S \subseteq held[w]))

(* tx_burst of s: as many as the next queue of w's accessor takes. *)
TxBurst(w, s) ==
  LET p == PortOf[w[1]][OutPid(w)]
      a == <<p, "tx", TxAid(w)>>
      q == Turn(a, TxAid(w), NTxAcc(w))
      free == Room(TxChan(p)) - Len(chan[TxChan(p)][q])
      n == IF Len(s) < free THEN Len(s) ELSE free
      out == SubSeq(s, 1, n)
  IN /\ chan' = [chan EXCEPT ![TxChan(p)][q] = @ \o out]
     /\ rr' = NextTurn(a, NTxAcc(w))
     /\ dst' = [dst EXCEPT ![w] = OutPid(w)]
     /\ n_send' = [n_send EXCEPT ![w] = n]
     /\ held' = [held EXCEPT ![w] = @ \ ToSet(out)]
     /\ misuse' = (misuse \/ ~ (ToSet(s) \subseteq held[w]))
     /\ pc' = [pc EXCEPT ![w] = "sent"]
     /\ Load(w, ProdSum(TxChan(p)))
     /\ UNCHANGED <<setup, pool, pkt, pid, mbufs, i, wireVars>>

(* The loop over pid, or the same port again. *)
NextPoll(w) ==
  /\ pc' = [pc EXCEPT ![w] = "poll"]
  /\ pid' = [pid EXCEPT ![w] = IF PerPort(w) THEN @ ELSE 1 - @]
  /\ mbufs' = [mbufs EXCEPT ![w] = <<>>]
  /\ i' = [i EXCEPT ![w] = 1]
  /\ dst' = [dst EXCEPT ![w] = 0] /\ n_send' = [n_send EXCEPT ![w] = 0]

(* The next packet of the burst, for the classes that send one by one. *)
NextPacket(w) ==
  IF i[w] < Len(mbufs[w])
  THEN /\ i' = [i EXCEPT ![w] = @ + 1]
       /\ dst' = [dst EXCEPT ![w] = 0] /\ n_send' = [n_send EXCEPT ![w] = 0]
       /\ pc' = [pc EXCEPT ![w] = "work"]
       /\ UNCHANGED <<pid, mbufs>>
  ELSE NextPoll(w)

-----------------------------------------------------------------------------
(* The workers.                                                            *)

(* if (n_recv == 0) continue; *)
Received(w, s) ==
  IF s = <<>>
  THEN NextPoll(w)
  ELSE /\ mbufs' = [mbufs EXCEPT ![w] = s]
       /\ pc' = [pc EXCEPT ![w] = "work"]
       /\ UNCHANGED <<pid, i, dst, n_send>>

(* rx_burst of the next queue of the accessor; writing back the count is a *)
(* step of its own where that can be told.                                 *)
Poll(w) ==
  LET p == InPort(w)
      a == <<p, "rx", RxAid(w)>>
      q == Turn(a, RxAid(w), NRxAcc(w))
      s == chan[RxChan(p)][q]
      n == IF Len(s) < Burst THEN Len(s) ELSE Burst
  IN /\ pc[w] = "poll"
     /\ chan' = [chan EXCEPT ![RxChan(p)][q] = SubSeq(s, n + 1, Len(s))]
     /\ rr' = NextTurn(a, NRxAcc(w))
     /\ held' = [held EXCEPT ![w] = ToSet(SubSeq(s, 1, n))]
     /\ Load(w, RxCounter(w))
     /\ IF RxCounter(w) = setup.watch
        THEN /\ pc' = [pc EXCEPT ![w] = "counted"]
             /\ mbufs' = [mbufs EXCEPT ![w] = SubSeq(s, 1, n)]
             /\ UNCHANGED <<pid, i, dst, n_send>>
        ELSE Received(w, SubSeq(s, 1, n))
     /\ UNCHANGED <<setup, pool, pkt, wireVars, misuse>>

(* The count is written back, for an empty burst too. *)
CountRx(w) ==
  /\ pc[w] = "counted"
  /\ Store(w, RxCounter(w), Len(mbufs[w]))
  /\ Received(w, mbufs[w])
  /\ UNCHANGED <<setup, chan, pool, pkt, rr, held, wireVars, misuse>>

(* l2fwd, l2fwd_numa, l2fwd_delay: the whole burst to the other port. *)
Forward(w) ==
  /\ pc[w] = "work" /\ Prog(w) \in {"l2fwd", "l2fwd_numa"}
  /\ TxBurst(w, mbufs[w])

(* l3fwd: a packet that is not IPv4 is freed and processed all the same. *)
Route(w) ==
  /\ pc[w] = "work" /\ Prog(w) = "l3fwd"
  /\ LET m == mbufs[w][i[w]]
     IN IF pkt[m].flow.ip4
        THEN TxBurst(w, <<m>>)
        ELSE /\ pool' = pool \cup {m}
             /\ held' = [held EXCEPT ![w] = @ \ {m}]
             /\ misuse' = TRUE
             /\ UNCHANGED <<setup, chan, pkt, rr, pc, pid, mbufs, i, dst,
                            n_send, reg, countVars, wireVars>>

(* acl: a packet a rule matches is freed, the others are sent one by one. *)
Filter(w) ==
  /\ pc[w] = "work" /\ Prog(w) = "acl"
  /\ LET m == mbufs[w][i[w]]
     IN IF m \in held[w] /\ ~ pkt[m].flow.pass
        THEN /\ Free(w, {m}) /\ NextPacket(w)
             /\ UNCHANGED <<setup, chan, rr, reg, countVars, wireVars>>
        ELSE TxBurst(w, <<m>>)

(* What is freed after a tx_burst.  acl compares what one packet's burst   *)
(* sent with the size of the burst it received.                            *)
MutUnsent(w) ==
  LET s == mbufs[w]
  IN IF Prog(w) = "l3fwd"
     THEN IF n_send[w] < 1 THEN {s[i[w]]} ELSE {}
     ELSE {s[j] : j \in n_send[w] + 2 .. Len(s)}

Unsent(w) ==
  LET s == mbufs[w]
  IN IF Prog(w) = "l3fwd"
     THEN IF n_send[w] < 1 THEN {s[i[w]]} ELSE {}
     ELSE {s[j] : j \in n_send[w] + 1 .. Len(s)}

(* The count of the ring is written back and what was not sent is freed.   *)
(* Both are one action: nothing reads the counter and the pool together.   *)
AfterTx(w) ==
  /\ pc[w] = "sent"
  /\ Store(w, TxCounter(w), n_send[w])
  /\ Free(w, Unsent(w))
  /\ IF Prog(w) \in {"l3fwd", "acl"} THEN NextPacket(w) ELSE NextPoll(w)
  /\ UNCHANGED <<setup, chan, rr, wireVars>>

Work(w) ==
  /\ ~misuse
  /\ Poll(w) \/ CountRx(w) \/ Forward(w) \/ Route(w) \/ Filter(w) \/ AfterTx(w)

-----------------------------------------------------------------------------
(* The NICs: a flow's packets arrive on the queue RSS gives the flow, in a *)
(* free mbuf; without one, or with the queue full, they leave no trace     *)
(* here.  What was transmitted is freed.                                   *)

Arrive(f) ==
  /\ ~misuse /\ f \in setup.flows /\ SumFunction(seq) < setup.max
  /\ pool # {} /\ Len(chan[RxChan(f.in)][f.que]) < Desc
  /\ seq' = [seq EXCEPT ![f] = @ + 1]
  /\ LET m == CHOOSE m \in pool : TRUE  (* no matter which *)
     IN /\ pool' = pool \ {m}
        /\ pkt' = [pkt EXCEPT ![m] = [flow |-> f, n |-> seq'[f]]]
        /\ chan' = [chan EXCEPT ![RxChan(f.in)][f.que] = Append(@, m)]
  /\ UNCHANGED <<setup, rr, workVars, countVars, last, late, misuse>>

Depart(p, q) ==
  LET s == chan[TxChan(p)][q]
      x == pkt[Head(s)]
  IN /\ ~misuse /\ s # <<>>
     /\ chan' = [chan EXCEPT ![TxChan(p)][q] = Tail(s)]
     /\ pool' = pool \cup {Head(s)}
     /\ pkt' = [pkt EXCEPT ![Head(s)] = Empty]
     /\ last' = [last EXCEPT ![x.flow] = x.n]
     /\ late' = IF x.n < last[x.flow] THEN late \cup {x.flow} ELSE late
     /\ UNCHANGED <<setup, rr, workVars, countVars, seq, misuse>>

-----------------------------------------------------------------------------
(* The timer: stats_update_per1sec of each port updates the ring the port  *)
(* receives from, so each counter once a second, in an order that does not *)
(* matter here: *_pps_cur = *_pps_sum; *_pps_sum = 0;                      *)

TickRead ==
  /\ ~misuse /\ ~ticking /\ setup.watch # NoCounter
  /\ ticking' = TRUE
  /\ raced' = (raced \/ BeingCounted)
  /\ owed' = IF raced' THEN 0 ELSE owed - sum
  /\ UNCHANGED <<setup, chan, pool, pkt, rr, workVars, sum, wireVars, misuse>>

MutTickZero ==
  /\ ~misuse /\ ticking
  /\ ticking' = FALSE
  /\ raced' = (raced /\ BeingCounted)
  /\ UNCHANGED <<setup, chan, pool, pkt, rr, workVars, sum, owed, wireVars, misuse>>

TickZero ==
  /\ ~misuse /\ ticking
  /\ ticking' = FALSE
  /\ sum' = 0
  /\ raced' = (raced /\ BeingCounted)
  /\ UNCHANGED <<setup, chan, pool, pkt, rr, workVars, owed, wireVars, misuse>>

-----------------------------------------------------------------------------
Next ==
  \/ \E w \in Worker : Work(w)
  \/ \E f \in Flow : Arrive(f)
  \/ \E p \in Nic, q \in Queue : Depart(p, q)
  \/ TickRead \/ TickZero

(* Every worker runs on an lcore of its own, and a NIC transmits. *)
Spec ==
  /\ Init /\ [][Next]_vars
  /\ \A w \in Worker : WF_vars(Work(w))
  /\ \A p \in Nic, q \in Queue : WF_vars(Depart(p, q))
  /\ WF_vars(TickZero)
-----------------------------------------------------------------------------
(* Properties.                                                             *)

(* Where an mbuf is. *)
Places(m) ==
  {<<"pool">> : x \in pool \cap {m}}
  \cup {w \in Worker : m \in held[w]}
  \cup {x \in Chan \X Queue \X (1 .. RingRoom + Desc) :
          /\ x[3] <= Len(chan[x[1]][x[2]])
          /\ chan[x[1]][x[2]][x[3]] = m}

Exclusive ==
  /\ \A m \in Mbuf : \E x \in Places(m) : Places(m) = {x}
  /\ \A w \in Worker : pc[w] = "poll" => held[w] = {}

MayMisuse(w) ==
  \/ Prog(w) = "l3fwd" /\ \E j \in 1 .. Len(mbufs[w]) : ~ pkt[mbufs[w][j]].flow.ip4
  \/ Prog(w) = "acl" /\ Len(mbufs[w]) > 1

(* Until somebody uses an mbuf that is not his, each mbuf is free, in one  *)
(* place of one queue, or in the hands of one worker, who has none left    *)
(* when he polls again: bursts neither lose nor duplicate a buffer,        *)
(* whatever a full queue refuses.  And nobody uses an mbuf that is not his *)
(* but l3fwd, which reads and sends what it has freed when a packet is not *)
(* IPv4, and acl, which after one packet's burst frees the rest of a burst *)
(* of several.                                                             *)
OneOwner ==
  /\ [](~misuse => Exclusive)
  /\ [][misuse' /\ ~misuse => \E w \in Worker : MayMisuse(w)]_vars

(* A flow leaves in the order it came in when every worker sends to one    *)
(* queue of a port only: RSS, accessors and rings then keep it on one path.*)
FlowsInOrder ==
  (\A w \in Worker : Active(w) => NTxAcc(w) = NQueue) => late = {}

(* What the timer takes from a counter is what was moved since it last     *)
(* zeroed it, each packet in one figure, unless two lcores or an lcore and *)
(* the timer were at the counter at the same time, or it was never set.    *)
FiguresAreExact ==
  ~raced => owed = IF ticking THEN 0 ELSE sum

(* An mbuf that carries a packet is free again some day: no accessor       *)
(* leaves a queue of its port unpolled and no burst keeps a packet.        *)
MbufsComeBack ==
  \A m \in Mbuf : m \notin pool ~> (m \in pool \/ misuse)
=============================================================================
