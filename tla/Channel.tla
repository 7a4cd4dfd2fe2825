------------------------------- MODULE Channel ------------------------------
(***************************************************************************)
(* What the rings of a pipe and the queues of the L-thread schedulers      *)
(* promise: whatever their senders put into a line its receivers take out  *)
(* of it once, in the order it was put.  An item is in the hands of one    *)
(* actor or at one place of one line; it comes into being in the hands of  *)
(* an actor and ends there.                                                *)
(***************************************************************************)
EXTENDS Naturals, Sequences

CONSTANTS Actor, Line, Item,
          Senders, Receivers  \* the actors at each end of a line

VARIABLES hand,  \* the items each actor holds
          line   \* the items in each line

InUse ==
  UNION {hand[a] : a \in Actor}
  \cup UNION {{line[l][k] : k \in DOMAIN line[l]} : l \in Line}

Init ==
  /\ hand \in [Actor -> SUBSET Item]
  /\ \A a, b \in Actor : a # b => hand[a] \cap hand[b] = {}
  /\ line = [l \in Line |-> <<>>]

Begin(a, i) ==
  /\ i \notin InUse
  /\ hand' = [hand EXCEPT ![a] = @ \cup {i}]
  /\ UNCHANGED line

(* One item, several, or all that an actor that dies holds. *)
End(a) ==
  /\ hand'[a] # hand[a] /\ hand'[a] \subseteq hand[a]
  /\ hand' = [hand EXCEPT ![a] = hand'[a]]
  /\ UNCHANGED line

(* A burst: each item once, in the order of the burst.  *)
Put(a, l) ==
  LET old == Len(line[l])
      burst == SubSeq(line'[l], old + 1, Len(line'[l]))
      items == {burst[k] : k \in DOMAIN burst}
  IN /\ a \in Senders[l]
     /\ burst # <<>> /\ items \subseteq hand[a]
     /\ \A j, k \in 1 .. Len(burst) : burst[j] = burst[k] => j = k
     /\ line' = [line EXCEPT ![l] = @ \o burst]
     /\ hand' = [hand EXCEPT ![a] = @ \ items]

Take(a, l) ==
  LET n == Len(line[l]) - Len(line'[l])
  IN /\ a \in Receivers[l]
     /\ n > 0
     /\ line' = [line EXCEPT ![l] = SubSeq(@, n + 1, Len(@))]
     /\ hand' = [hand EXCEPT ![a] = @ \cup {line[l][k] : k \in 1 .. n}]

Next ==
  \E a \in Actor :
    \/ \E i \in Item : Begin(a, i)
    \/ End(a)
    \/ \E l \in Line : Put(a, l) \/ Take(a, l)

Spec == Init /\ [][Next]_<<hand, line>>
=============================================================================
