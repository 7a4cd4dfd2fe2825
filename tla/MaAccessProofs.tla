--------------------------- MODULE MaAccessProofs ---------------------------
(* Facts about dealing out queues, for any number of queues and accessors. *)
EXTENDS MaAccess, TLAPS

(* Nonlinear arithmetic, stated once. *)
LEMMA ShareIsExact ==
  ASSUME NEW nque \in Nat, NEW nacc \in Nat \ {0}, Divides(nacc, nque)
  PROVE  /\ nque \div nacc \in Nat
         /\ nque = nacc * (nque \div nacc)
BY SMT DEF Divides

LEMMA NextRunStarts ==
  ASSUME NEW a \in Nat, NEW b \in Nat, NEW share \in Nat, a < b
  PROVE  a * share + share <= b * share
<1>1. PICK d \in Nat : b = a + 1 + d
  <2>1. b - a - 1 \in Nat /\ b = a + 1 + (b - a - 1)
    OBVIOUS
  <2>2. QED BY <2>1
<1>2. b * share = a * share + share + d * share
  BY <1>1
<1>3. d * share >= 0
  OBVIOUS
<1>4. QED BY <1>2, <1>3
(* The queues of one accessor form a run that starts at aid * share. *)
LEMMA RunOf ==
  ASSUME NEW nque \in Nat, NEW nacc \in Nat \ {0}, Divides(nacc, nque),
         NEW aid \in Accessors(nacc), NEW q \in Int
  PROVE  q \in QidsOfAid(aid, nacc, nque) <=>
           /\ aid * (nque \div nacc) <= q
           /\ q < aid * (nque \div nacc) + (nque \div nacc)
<1> DEFINE share == nque \div nacc
<1>1. share \in Nat
  BY ShareIsExact
<1>2. aid \in Nat
  BY DEF Accessors
<1>3. aid * share \in Nat
  BY <1>1, <1>2
<1>4. ASSUME q \in QidsOfAid(aid, nacc, nque)
      PROVE  aid * share <= q /\ q < aid * share + share
  <2>1. PICK i \in 0 .. share - 1 : q = aid * share + i
    BY <1>4 DEF QidsOfAid
  <2>2. QED BY <2>1, <1>1, <1>3
<1>5. ASSUME aid * share <= q, q < aid * share + share
      PROVE  q \in QidsOfAid(aid, nacc, nque)
  <2>1. q - aid * share \in 0 .. share - 1
    BY <1>1, <1>3, <1>5
  <2>2. q = aid * share + (q - aid * share)
    BY <1>3
  <2>3. QED BY <2>1, <2>2 DEF QidsOfAid
<1>6. QED BY <1>4, <1>5

(* get_qids_from_aid and the loops of ssn_ma_ring.h name existing queues   *)
(* only: a burst never reaches past the queues the device was set up with. *)
THEOREM RunsAreQueues ==
  ASSUME NEW nque \in Nat, NEW nacc \in Nat \ {0}, Divides(nacc, nque),
         NEW aid \in Accessors(nacc)
  PROVE  QidsOfAid(aid, nacc, nque) \subseteq Queues(nque)
<1> DEFINE share == nque \div nacc
<1>1. share \in Nat /\ nque = nacc * share
  BY ShareIsExact
<1>2. aid \in Nat /\ aid < nacc
  BY DEF Accessors
<1>3. aid * share + share <= nque
  BY <1>1, <1>2, NextRunStarts
<1>4. aid * share \in Nat
  BY <1>1, <1>2
<1>5. SUFFICES ASSUME NEW i \in 0 .. share - 1
               PROVE  aid * share + i \in 0 .. nque - 1
  BY DEF QidsOfAid, Queues
<1>6. QED BY <1>1, <1>3, <1>4

(* Two accessors never share a queue, whatever the numbers: with one       *)
(* worker per accessor no queue is touched by two lcores.                  *)
THEOREM RunsAreDisjoint ==
  ASSUME NEW nque \in Nat, NEW nacc \in Nat \ {0}, Divides(nacc, nque),
         NEW a \in Accessors(nacc), NEW b \in Accessors(nacc), a # b
  PROVE  QidsOfAid(a, nacc, nque) \cap QidsOfAid(b, nacc, nque) = {}
<1> DEFINE share == nque \div nacc
<1>1. share \in Nat
  BY ShareIsExact
<1>2. SUFFICES ASSUME NEW c \in Accessors(nacc), NEW d \in Accessors(nacc),
                      c < d, NEW q \in Int,
                      q \in QidsOfAid(c, nacc, nque),
                      q \in QidsOfAid(d, nacc, nque)
               PROVE  FALSE
  <2>1. a < b \/ b < a
    BY DEF Accessors
  <2>2. \A q \in Queues(nque) : q \in Int
    BY DEF Queues
  <2>3. QED BY <2>1, <2>2, RunsAreQueues
<1>3. c \in Nat /\ d \in Nat
  BY DEF Accessors
<1>4. c * share + share <= d * share
  BY <1>1, <1>2, <1>3, NextRunStarts
<1>5. q < c * share + share /\ d * share <= q
  BY <1>2, RunOf
<1>6. c * share \in Nat /\ d * share \in Nat
  BY <1>1, <1>3
<1>7. QED BY <1>1, <1>4, <1>5, <1>6

(* Every queue belongs to an accessor: what the hardware spreads over the  *)
(* queues is polled by someone.                                            *)
THEOREM RunsCover ==
  ASSUME NEW nque \in Nat, NEW nacc \in Nat \ {0}, Divides(nacc, nque),
         NEW q \in Queues(nque)
  PROVE  \E aid \in Accessors(nacc) : q \in QidsOfAid(aid, nacc, nque)
<1> DEFINE share == nque \div nacc
           aid == q \div share
<1>1. share \in Nat /\ nque = nacc * share
  BY ShareIsExact
<1>2. q \in Nat /\ q < nque
  BY DEF Queues
<1>3. share > 0
  BY <1>1, <1>2
<1>4. aid \in Nat /\ aid * share <= q /\ q < aid * share + share
  BY <1>1, <1>2, <1>3, SMT
<1>5. aid < nacc
  <2>1. SUFFICES ASSUME nacc <= aid PROVE FALSE
    BY <1>4
  <2>2. nacc * share <= aid * share
    <3>1. CASE nacc = aid
      BY <3>1, <1>1, <1>4
    <3>2. CASE nacc < aid
      BY <3>2, <1>1, <1>4, NextRunStarts
    <3>3. QED BY <2>1, <1>4, <3>1, <3>2
  <2>3. QED BY <2>2, <1>1, <1>2, <1>4
<1>6. aid \in Accessors(nacc)
  BY <1>4, <1>5 DEF Accessors
<1>7. q \in QidsOfAid(aid, nacc, nque)
  BY <1>2, <1>4, <1>6, RunOf
<1>8. QED BY <1>6, <1>7
=============================================================================
