-------------------------------- MODULE Pipe --------------------------------
(***************************************************************************)
(* Pipes between the NFVi and a client process: the net_pipe poll mode     *)
(* driver (rte_eth_pipe.c), the ports that create and attach its devices   *)
(* (ports/dpdk_pipe.h, ports/dpdk.h) and the figures per second taken from *)
(* the counters of the NFVi's devices (ssn_port_stat.cc).                  *)
(*                                                                         *)
(* The NFVi creates the rings of a pipe one at a time; the client, another *)
(* process that shares the rings' names and memory, looks them up one at a *)
(* time, at any moment, and may die and be started again.  Each has one    *)
(* lcore that moves packets.  A burst on a ring is atomic (rte_ring);      *)
(* counting it is a step of its own.                                       *)
(***************************************************************************)
EXTENDS Naturals, Sequences, SequencesExt

CONSTANTS
  Net,        \* devices of the NFVi, one per pipe it creates
  Client,     \* devices of the client
  Remote,     \* the pipe each device of the client attaches to
  NRing,      \* rings per direction: 16
  NQue,       \* queues config_hw sets up: 8
  RingRoom,   \* packets a ring holds: 1023
  Burst,      \* packets of a burst: 32
  Pkt,        \* packets
  Wrap,       \* counters are modulo 2^64
  MaxTx,      \* bounds: bursts that are sent, deaths of the client
  MaxDeath

ASSUME PipeAssumption ==
  /\ Net \cap Client = {} /\ Remote \in [Client -> Net]
  /\ NRing \in Nat /\ NQue \in 0 .. NRing
  /\ RingRoom \in Nat /\ Burst \in Nat \ {0} /\ Wrap \in Nat \ {0}

Dev == Net \cup Client
Que == 0 .. NQue - 1
Process == {"nfvi", "client"}
Owner(d) == IF d \in Net THEN "nfvi" ELSE "client"
Side == {"rx", "tx"}

(* ETH_RX%u_<device> and ETH_TX%u_<device>: the sides are the creator's. *)
Name == {<<side, i, d>> : side \in Side, i \in 0 .. NRing - 1, d \in Net}

VARIABLES
  made,     \* the rings that exist
  ring,     \* what is in them
  dev,      \* rx_ring_queues[].rng and tx_ring_queues[].rng as they fill
  stage,    \* how far each device is
  cnt,      \* rx_pkts, tx_pkts and err_pkts of each queue
  held,     \* packets the lcore of each process holds
  burst,    \* its burst that has moved packets and not counted them yet
  cur, prev,   \* rte_eth_stats of the NFVi's devices, at this and the last second
  reading,  \* the device whose figures are being taken, the place in the
            \* loops of eth_stats_get and their totals
  paid,     \* what the figures of the seconds so far add up to
  sent,     \* bursts sent so far
  deaths    \* how often the client has died

pvars == <<made, ring, dev, stage, cnt, held, burst, cur, prev, reading,
           paid, sent, deaths>>

Nothing == <<>>
NoRings == [rx |-> <<>>, tx |-> <<>>]
Zero == [rx |-> 0, tx |-> 0, err |-> 0]
NoCount == [q \in Que |-> Zero]

Plus(x, y) == [f \in DOMAIN x |-> (x[f] + y[f]) % Wrap]
Minus(x, y) == [f \in DOMAIN x |-> (x[f] + Wrap - y[f]) % Wrap]

PipeInit ==
  /\ made = {} /\ ring = [r \in Name |-> <<>>]
  /\ dev = [d \in Dev |-> NoRings]
  /\ stage = [d \in Dev |-> "none"]
  /\ cnt = [d \in Dev |-> NoCount]
  /\ held = [p \in Process |-> {}]
  /\ burst = [p \in Process |-> Nothing]
  /\ cur = [d \in Net |-> Zero] /\ prev = cur /\ paid = cur
  /\ reading = Nothing
  /\ sent = 0
  /\ deaths = 0

-----------------------------------------------------------------------------
(* Making a device: probe, eth_dev_ring_create, rte_eth_from_rings.        *)

statVars == <<cur, prev, reading, paid>>

(* The ring the loop of eth_dev_ring_create is at: rx[i], then tx[i]. *)
NextSide(d) == IF Len(dev[d].rx) = Len(dev[d].tx) THEN "rx" ELSE "tx"
HasAll(d) == Len(dev[d].tx) = NRing
Other(side) == IF side = "rx" THEN "tx" ELSE "rx"

MutRingName(d) == <<NextSide(d), Len(dev[d][NextSide(d)]), IF d \in Net THEN d ELSE Remote[d]>>

(* The two ends of a pipe have each other's rings. *)
RingName(d) ==
  LET side == NextSide(d)
      i == Len(dev[d][side])
  IN IF d \in Net THEN <<side, i, d>> ELSE <<Other(side), i, Remote[d]>>

WithRing(d) ==
  IF NextSide(d) = "rx" THEN [dev[d] EXCEPT !.rx = Append(@, RingName(d))]
  ELSE [dev[d] EXCEPT !.tx = Append(@, RingName(d))]

Probe(d) ==
  /\ stage[d] = "none"
  /\ stage' = [stage EXCEPT ![d] = "rings"]
  /\ UNCHANGED <<made, ring, dev, cnt, held, burst, statVars, sent, deaths>>

(* return -1: the probe ignores it, the attach finds no new device and     *)
(* throws.  The rings made so far stay.                                    *)
FailedAt(d) ==
  /\ stage' = [stage EXCEPT ![d] = "failed"]
  /\ UNCHANGED <<made, dev>>

MakeRing(d) ==
  /\ d \in Net /\ stage[d] = "rings" /\ ~ HasAll(d)
  /\ \/ /\ made' = made \cup {RingName(d)}
        /\ dev' = [dev EXCEPT ![d] = WithRing(d)]
        /\ UNCHANGED stage
     \/ FailedAt(d)  (* no memory *)
  /\ UNCHANGED <<ring, cnt, held, burst, statVars, sent, deaths>>

MutLookUp(d) ==
  /\ d \in Client /\ stage[d] = "rings" /\ ~ HasAll(d)
  /\ IF RingName(d) \in made \/ NextSide(d) = "rx"
     THEN /\ dev' = [dev EXCEPT ![d] = WithRing(d)]
          /\ UNCHANGED <<made, stage>>
     ELSE FailedAt(d)
  /\ UNCHANGED <<ring, cnt, held, burst, statVars, sent, deaths>>

LookUp(d) ==
  /\ d \in Client /\ stage[d] = "rings" /\ ~ HasAll(d)
  /\ IF RingName(d) \in made
     THEN /\ dev' = [dev EXCEPT ![d] = WithRing(d)]
          /\ UNCHANGED <<made, stage>>
     ELSE FailedAt(d)
  /\ UNCHANGED <<ring, cnt, held, burst, statVars, sent, deaths>>

(* rte_eth_from_rings: zeroed internals, an entry among the devices.       *)
FromRings(d) ==
  /\ stage[d] = "rings" /\ HasAll(d)
  /\ \/ /\ stage' = [stage EXCEPT ![d] = "whole"]
        /\ cnt' = [cnt EXCEPT ![d] = NoCount]
        /\ UNCHANGED <<made, dev>>
     \/ /\ FailedAt(d)  (* no memory, or no entry *)
        /\ UNCHANGED cnt
  /\ UNCHANGED <<ring, held, burst, statVars, sent, deaths>>

(* ssn_port_stat_init_pid, then config_hw: queues, start, promiscuous.     *)
ConfigHw(d) ==
  /\ stage[d] = "whole"
  /\ stage' = [stage EXCEPT ![d] = "up"]
  /\ UNCHANGED <<made, ring, dev, cnt, held, burst, statVars, sent, deaths>>

(* The client dies, between two bursts or before it has counted one, with  *)
(* the packets it holds; it may be started again.                          *)
Die ==
  /\ deaths < MaxDeath
  /\ \E d \in Client : stage[d] # "none"
  /\ stage' = [d \in Dev |-> IF d \in Client THEN "none" ELSE stage[d]]
  /\ dev' = [d \in Dev |-> IF d \in Client THEN NoRings ELSE dev[d]]
  /\ held' = [held EXCEPT !["client"] = {}]
  /\ burst' = [burst EXCEPT !["client"] = Nothing]
  /\ deaths' = deaths + 1
  /\ UNCHANGED <<made, ring, cnt, statVars, sent>>

-----------------------------------------------------------------------------
(* Moving packets.                                                         *)

(* A packet comes from a NIC or is made; it is freed or leaves by a NIC.   *)
Come(p, x) ==
  /\ burst[p] = Nothing
  /\ \E d \in Dev : Owner(d) = p /\ stage[d] = "up"
  /\ x \notin UNION {held[o] : o \in Process}
       \cup UNION {Range(ring[r]) : r \in Name}
  /\ held' = [held EXCEPT ![p] = @ \cup {x}]
  /\ UNCHANGED <<made, ring, dev, stage, cnt, burst, statVars, sent, deaths>>

Go(p, x) ==
  /\ x \in held[p] /\ burst[p] = Nothing
  /\ held' = [held EXCEPT ![p] = @ \ {x}]
  /\ UNCHANGED <<made, ring, dev, stage, cnt, burst, statVars, sent, deaths>>

(* eth_ring_rx up to the counters. *)
RxBurst(d, q) ==
  LET p == Owner(d)
      r == dev[d].rx[q + 1]
      n == IF Len(ring[r]) < Burst THEN Len(ring[r]) ELSE Burst
  IN /\ stage[d] = "up" /\ burst[p] = Nothing
     /\ n > 0  (* an empty burst counts nothing *)
     /\ ring' = [ring EXCEPT ![r] = SubSeq(@, n + 1, Len(@))]
     /\ held' = [held EXCEPT ![p] = @ \cup Range(SubSeq(ring[r], 1, n))]
     /\ burst' = [burst EXCEPT ![p] = <<d, q, [Zero EXCEPT !.rx = n]>>]
     /\ UNCHANGED <<made, dev, stage, cnt, statVars, sent, deaths>>

MutTxBurst(d, q, s) ==
  LET p == Owner(d)
      r == dev[d].tx[q + 1]
      free == RingRoom - Len(ring[r])
      n == IF Len(s) < free THEN Len(s) ELSE free
  IN /\ stage[d] = "up" /\ burst[p] = Nothing /\ sent < MaxTx
     /\ sent' = sent + 1
     /\ ring' = [ring EXCEPT ![r] = @ \o SubSeq(s, 1, n)]
     /\ held' = [held EXCEPT ![p] = @ \ Range(SubSeq(s, 1, n))]
     /\ burst' = [burst EXCEPT ![p] = <<d, q, [rx |-> 0, tx |-> Len(s), err |-> Len(s) - n]>>]
     /\ UNCHANGED <<made, dev, stage, cnt, statVars, deaths>>

(* eth_ring_tx up to the counters; what does not fit stays the sender's.   *)
TxBurst(d, q, s) ==
  LET p == Owner(d)
      r == dev[d].tx[q + 1]
      free == RingRoom - Len(ring[r])
      n == IF Len(s) < free THEN Len(s) ELSE free
  IN /\ stage[d] = "up" /\ burst[p] = Nothing /\ sent < MaxTx
     /\ sent' = sent + 1
     /\ ring' = [ring EXCEPT ![r] = @ \o SubSeq(s, 1, n)]
     /\ held' = [held EXCEPT ![p] = @ \ Range(SubSeq(s, 1, n))]
     /\ burst' = [burst EXCEPT ![p] = <<d, q, [rx |-> 0, tx |-> n, err |-> Len(s) - n]>>]
     /\ UNCHANGED <<made, dev, stage, cnt, statVars, deaths>>

(* r->rx_pkts.cnt += nb_rx, and r->tx_pkts.cnt and r->err_pkts.cnt.        *)
Count(p) ==
  LET b == burst[p]
  IN /\ b # Nothing
     /\ cnt' = [cnt EXCEPT ![b[1]][b[2]] = Plus(@, b[3])]
     /\ burst' = [burst EXCEPT ![p] = Nothing]
     /\ UNCHANGED <<made, ring, dev, stage, held, statVars, sent, deaths>>

-----------------------------------------------------------------------------
(* The figures: ssn_port_stat_update, once a second, by the NFVi's timer.  *)

(* prev = cur; eth_stats_get clears cur first. *)
TakeStats(d) ==
  /\ stage[d] \in {"whole", "up"} /\ reading = Nothing
  /\ reading' = <<d, 0, Zero>>
  /\ prev' = [prev EXCEPT ![d] = cur[d]]
  /\ cur' = [cur EXCEPT ![d] = Zero]
  /\ UNCHANGED <<made, ring, dev, stage, cnt, held, burst, paid, sent, deaths>>

(* eth_stats_get: a queue at a time, first what they received, then what   *)
(* they sent and refused.                                                  *)
Total(d, at, total) ==
  IF at < NQue THEN Plus(total, [Zero EXCEPT !.rx = cnt[d][at].rx])
  ELSE Plus(total, [cnt[d][at - NQue] EXCEPT !.rx = 0])

ReadQueue(d) ==
  /\ reading # Nothing /\ reading[1] = d /\ reading[2] < 2 * NQue
  /\ reading' = <<d, reading[2] + 1, Total(d, reading[2], reading[3])>>
  /\ UNCHANGED <<made, ring, dev, stage, cnt, held, burst, cur, prev, paid, sent, deaths>>

(* cur_rx_pps = cur.ipackets - prev.ipackets, and the others.              *)
GiveStats(d) ==
  /\ reading # Nothing /\ reading[1] = d /\ reading[2] = 2 * NQue
  /\ reading' = Nothing
  /\ cur' = [cur EXCEPT ![d] = reading[3]]
  /\ paid' = [paid EXCEPT ![d] = Plus(@, Minus(reading[3], prev[d]))]
  /\ UNCHANGED <<made, ring, dev, stage, cnt, held, burst, prev, sent, deaths>>

-----------------------------------------------------------------------------
Sendable(p) ==
  {s \in UNION {[1 .. n -> held[p]] : n \in 1 .. Burst} : IsInjective(s)}

PipeNext ==
  \/ \E d \in Dev :
       \/ Probe(d) \/ MakeRing(d) \/ LookUp(d) \/ FromRings(d) \/ ConfigHw(d)
       \/ \E q \in Que : RxBurst(d, q) \/ \E s \in Sendable(Owner(d)) : TxBurst(d, q, s)
  \/ Die
  \/ \E p \in Process : Count(p) \/ \E x \in Pkt : Come(p, x) \/ Go(p, x)
  \/ \E d \in Net : TakeStats(d) \/ ReadQueue(d) \/ GiveStats(d)

PipeSpec == PipeInit /\ [][PipeNext]_pvars

-----------------------------------------------------------------------------
(* Properties.                                                             *)

(* A ring carries packets from one process to the other and to nobody      *)
(* else: what the creator calls its tx ring is its to send on and the      *)
(* client's to receive from, the rx ring the other way round.              *)
From(r) == {IF r[1] = "tx" THEN "nfvi" ELSE "client"}
To(r) == {IF r[1] = "tx" THEN "client" ELSE "nfvi"}

PipeChannels ==
  INSTANCE Channel WITH
    Actor <- Process, Line <- Name, Item <- Pkt,
    Senders <- [r \in Name |-> From(r)], Receivers <- [r \in Name |-> To(r)],
    hand <- held, line <- ring

(* The pipes implement channels: eth_dev_ring_create pairs the rings of    *)
(* the two devices crosswise, and bursts lose, duplicate and reorder       *)
(* nothing, whatever a full ring refuses and whenever the client dies.     *)
PipeIsChannel == PipeChannels!Spec

(* A client that attaches while the NFVi is still creating the rings, or   *)
(* after that has failed half way, gets a device with all the rings of the *)
(* pipe, each in its place, or no device.                                  *)
AttachedIsWhole ==
  \A d \in Client : stage[d] \in {"whole", "up"} =>
    \A i \in 1 .. NRing :
      /\ dev[d].rx[i] = <<"tx", i - 1, Remote[d]>> /\ dev[d].rx[i] \in made
      /\ dev[d].tx[i] = <<"rx", i - 1, Remote[d]>> /\ dev[d].tx[i] \in made

(* The figures per second of a port add up to its counters: no packet is   *)
(* in two seconds' figures or in none, wrapped counters included.          *)
FiguresAddUp ==
  \A d \in Net :
    IF reading # Nothing /\ reading[1] = d THEN paid[d] = prev[d] ELSE paid[d] = cur[d]

Pending(d, q, f) ==
  LET b == burst[Owner(d)]
  IN IF b # Nothing /\ b[1] = d /\ b[2] = q THEN b[3][f] ELSE 0

(* The packet counters of the two ends of a ring differ by what is in the  *)
(* ring and in bursts not counted yet, however often they have wrapped, as *)
(* long as the client has not died with its counters; and the figures      *)
(* taken from them add up.                                                 *)
CountersAgree ==
  /\ deaths = 0 =>
       \A d, e \in Dev, q \in Que :
         (d # e /\ stage[d] = "up" /\ stage[e] = "up" /\ dev[d].tx[q + 1] = dev[e].rx[q + 1]) =>
           (cnt[e][q].rx + Pending(e, q, "rx") + Len(ring[dev[d].tx[q + 1]])) % Wrap
             = (cnt[d][q].tx + Pending(d, q, "tx")) % Wrap
  /\ FiguresAddUp
=============================================================================
