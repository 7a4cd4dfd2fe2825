----------------------------- MODULE HttpProofs -----------------------------
(***************************************************************************)
(* Proofs about the connections of the HTTP server, for any number of      *)
(* them and any clients.  What is outstanding for a connection and its     *)
(* flags tell the same, so that it is not deleted while a callback is to   *)
(* come; a client that waits for replies has one thing under way at most,  *)
(* and what completes first is handled first, so the server never writes   *)
(* to him while it writes.                                                 *)
(***************************************************************************)
EXTENDS HttpServer, TLAPS, FiniteSetTheorems, SequenceTheorems

Kind == {"start", "read", "write"}
Posted == [conn : Conn, kind : Kind, ok : BOOLEAN, items : Seq(Item)]

Said == {"100", "200", "400", "stale", "garbled"}

HttpTypeOK ==
  /\ setup \in Setup
  /\ sent \in [Conn -> Nat] /\ inbox \in [Conn -> Seq(Item)]
  /\ peer \in [Conn -> {"up", "shut", "gone"}] /\ replies \in [Conn -> Seq(Said)]
  /\ rd \in [Conn -> BOOLEAN] /\ wr \in [Conn -> Seq(Said)] /\ posted \in Seq(Posted)
  /\ life \in [Conn -> {"unborn", "accepted", "deleted"}] /\ open \in [Conn -> BOOLEAN]
  /\ is_reading \in [Conn -> BOOLEAN] /\ is_writing \in [Conn -> BOOLEAN]
  /\ close_connection \in [Conn -> BOOLEAN] /\ completed \in [Conn -> BOOLEAN]
  /\ dq \in Seq(Conn \cup {NoConn}) /\ step \in Nat /\ key \in [Conn -> Nat \cup {NoKey}]
  /\ feed \in [conn : Conn \cup {NoConn}, left : Seq(Item)]
  /\ feed.conn = NoConn => feed = NoFeed
  /\ overlap \in [Conn -> BOOLEAN] /\ mishap \in {"none", "timer", "freed"}

(* What is among completions p for c.                                      *)
Is(x, c, kind) == x.conn = c /\ x.kind = kind
Some(p, c, kind) == \E k \in 1 .. Len(p) : Is(p[k], c, kind)
Lone(p, c, kind) ==
  \A j, k \in 1 .. Len(p) : Is(p[j], c, kind) /\ Is(p[k], c, kind) => j = k

(* Requests among items, and among what has been read for c.               *)
HasAsk(s) == \E k \in 1 .. Len(s) : Asks(s[k])
OneAsk(s) == \A j, k \in 1 .. Len(s) : Asks(s[j]) /\ Asks(s[k]) => j = k
Brings(x, c) == Is(x, c, "read") /\ HasAsk(x.items)
AskRead(p, c) == \E k \in 1 .. Len(p) : Brings(p[k], c)
OneAskRead(p, c) == \A k \in 1 .. Len(p) : Is(p[k], c, "read") => OneAsk(p[k].items)

(* A request that was read comes after what was written before.            *)
InTurn(p, c) == \A j, k \in 1 .. Len(p) : Brings(p[j], c) /\ Is(p[k], c, "write") => k < j

-----------------------------------------------------------------------------
(* One read is outstanding, done, or being fed while is_reading says so.   *)
ReadSide(c) ==
  /\ is_reading[c] <=> rd[c] \/ Some(posted, c, "read") \/ feed.conn = c
  /\ Lone(posted, c, "read")
  /\ ~ (rd[c] /\ Some(posted, c, "read"))
  /\ feed.conn = c => ~ rd[c] /\ ~ Some(posted, c, "read")
  /\ rd[c] => open[c]

(* So is one write while is_writing does, if no other was begun meanwhile. *)
WriteSide(c) == ~ overlap[c] =>
  /\ is_writing[c] <=> wr[c] # <<>> \/ Some(posted, c, "write")
  /\ Lone(posted, c, "write")
  /\ wr[c] # <<>> => Len(wr[c]) = 1 /\ ~ Some(posted, c, "write")

Still(c) ==
  ~ is_reading[c] /\ ~ is_writing[c] /\ ~ overlap[c] /\ open[c] /\ key[c] = NoKey

LifeOK(c) ==
  /\ Some(posted, c, "start") => life[c] = "accepted" /\ Still(c)
  /\ Lone(posted, c, "start")
  /\ life[c] = "unborn" => Still(c)
  /\ life[c] = "deleted" => ~ is_reading[c] /\ (overlap[c] \/ ~ is_writing[c]) /\ key[c] = NoKey
  /\ feed.conn = c => life[c] = "accepted"

(* Of a client that waits for replies, one thing is under way: a request   *)
(* sent, read or being fed, or a reply.                                    *)
Sending(c) == HasAsk(inbox[c])
Reading(c) == AskRead(posted, c)
Fed(c) == feed.conn = c /\ HasAsk(feed.left)
Replying(c) == wr[c] # <<>>

PacedOK(c) == setup[c].paced =>
  /\ ~ overlap[c]
  /\ OneAsk(inbox[c]) /\ OneAskRead(posted, c) /\ (feed.conn = c => OneAsk(feed.left))
  /\ ~ (Sending(c) /\ Reading(c)) /\ ~ (Sending(c) /\ Fed(c)) /\ ~ (Sending(c) /\ Replying(c))
  /\ ~ (Reading(c) /\ Fed(c)) /\ ~ (Reading(c) /\ Replying(c)) /\ ~ (Fed(c) /\ Replying(c))
  /\ InTurn(posted, c) /\ (Fed(c) => ~ Some(posted, c, "write"))
  /\ Len(replies[c]) <= Cardinality(Asking(c)) /\ Cardinality(Asking(c)) <= Len(replies[c]) + 1
  /\ Sending(c) \/ Reading(c) \/ Fed(c) \/ Replying(c) =>
       Cardinality(Asking(c)) = Len(replies[c]) + 1

ConnOK(c) == ReadSide(c) /\ WriteSide(c) /\ LifeOK(c) /\ PacedOK(c)

(* A key names the place of its deadline in the queue, past or present.    *)
KeysOK ==
  \A c \in Conn : /\ key[c] < step + Len(dq)
                  /\ \A k \in 1 .. Len(dq) : dq[k] = c <=> key[c] = step + k - 1
DeadlinesOK == KeysOK /\ \A c \in Conn : rd[c] => step <= key[c]

MishapOK == mishap # "none" => \E c \in Conn : overlap[c] /\ life[c] = "deleted"

HttpInv == HttpTypeOK /\ (\A c \in Conn : ConnOK(c)) /\ DeadlinesOK /\ MishapOK

-----------------------------------------------------------------------------
(* Completions and items that are added at the end and taken from the front. *)

LEMMA Concat ==
  ASSUME NEW S, NEW p \in Seq(S), NEW q \in Seq(S)
  PROVE  /\ p \o q \in Seq(S) /\ Len(p) \in Nat /\ Len(q) \in Nat
         /\ Len(p \o q) = Len(p) + Len(q)
         /\ \A k \in 1 .. Len(p) : k \in 1 .. Len(p \o q) /\ (p \o q)[k] = p[k]
         /\ \A k \in 1 .. Len(q) : k + Len(p) \in 1 .. Len(p \o q) /\ (p \o q)[k + Len(p)] = q[k]
         /\ \A k \in 1 .. Len(p \o q) : \/ k \in 1 .. Len(p)
                                        \/ k - Len(p) \in 1 .. Len(q) /\ k = (k - Len(p)) + Len(p)
<1>1. p \o q \in Seq(S) /\ Len(p) \in Nat /\ Len(q) \in Nat /\ Len(p \o q) = Len(p) + Len(q)
  OBVIOUS
<1>2. \A k \in 1 .. Len(p) : (p \o q)[k] = p[k]
  OBVIOUS
<1>3. \A k \in 1 .. Len(q) : (p \o q)[k + Len(p)] = q[k]
  OBVIOUS
<1>4. \A m, n \in Nat : /\ \A k \in 1 .. m : k \in 1 .. m + n
                        /\ \A k \in 1 .. n : k + m \in 1 .. m + n
                        /\ \A k \in 1 .. m + n : \/ k \in 1 .. m
                                                 \/ k - m \in 1 .. n /\ k = (k - m) + m
  OBVIOUS
<1> QED
  BY <1>1, <1>2, <1>3, <1>4

LEMMA Joined ==
  ASSUME NEW p \in Seq(Posted), NEW q \in Seq(Posted), NEW c, NEW kind
  PROVE  /\ p \o q \in Seq(Posted)
         /\ Some(p \o q, c, kind) <=> Some(p, c, kind) \/ Some(q, c, kind)
         /\ Lone(p, c, kind) /\ Lone(q, c, kind) /\ ~ (Some(p, c, kind) /\ Some(q, c, kind))
              => Lone(p \o q, c, kind)
         /\ AskRead(p \o q, c) <=> AskRead(p, c) \/ AskRead(q, c)
         /\ OneAskRead(p, c) /\ OneAskRead(q, c) => OneAskRead(p \o q, c)
         /\ InTurn(p, c) /\ InTurn(q, c) /\ ~ (AskRead(p, c) /\ Some(q, c, "write"))
              => InTurn(p \o q, c)
<1> DEFINE t == p \o q
           n == Len(p)
<1>1. /\ t \in Seq(Posted) /\ n \in Nat
      /\ \A k \in 1 .. n : k \in 1 .. Len(t) /\ t[k] = p[k]
      /\ \A k \in 1 .. Len(q) : k + n \in 1 .. Len(t) /\ t[k + n] = q[k]
      /\ \A k \in 1 .. Len(t) : k \in 1 .. n \/ (k - n \in 1 .. Len(q) /\ k = (k - n) + n)
  BY Concat
<1>2. \A j \in 1 .. n, k \in Nat \ {0} : j < k + n
  BY <1>1
<1> HIDE DEF t
<1>3. \A k \in 1 .. Len(t) : \/ k \in 1 .. n /\ t[k] = p[k]
                             \/ k - n \in 1 .. Len(q) /\ t[k] = q[k - n]
  BY <1>1
<1>4. Some(t, c, kind) <=> Some(p, c, kind) \/ Some(q, c, kind)
  BY <1>1, <1>3 DEF Some
<1>5. AskRead(t, c) <=> AskRead(p, c) \/ AskRead(q, c)
  BY <1>1, <1>3 DEF AskRead
<1>6. ASSUME OneAskRead(p, c), OneAskRead(q, c)
      PROVE  OneAskRead(t, c)
  BY <1>3, <1>6 DEF OneAskRead
<1>7. ASSUME Lone(p, c, kind), Lone(q, c, kind), ~ (Some(p, c, kind) /\ Some(q, c, kind))
      PROVE  Lone(t, c, kind)
  <2> SUFFICES ASSUME NEW j \in 1 .. Len(t), NEW k \in 1 .. Len(t),
                      Is(t[j], c, kind), Is(t[k], c, kind)
               PROVE  j = k
    BY DEF Lone
  <2>1. CASE j \in 1 .. n /\ t[j] = p[j] /\ k \in 1 .. n /\ t[k] = p[k]
    BY <1>7, <2>1 DEF Lone
  <2>2. CASE /\ j - n \in 1 .. Len(q) /\ t[j] = q[j - n]
             /\ k - n \in 1 .. Len(q) /\ t[k] = q[k - n]
    <3>1. j - n = k - n
      BY <1>7, <2>2 DEF Lone
    <3> QED
      BY <1>1, <3>1
  <2>3. ~ (j \in 1 .. n /\ t[j] = p[j] /\ k - n \in 1 .. Len(q) /\ t[k] = q[k - n])
    BY <1>7 DEF Some
  <2>4. ~ (k \in 1 .. n /\ t[k] = p[k] /\ j - n \in 1 .. Len(q) /\ t[j] = q[j - n])
    BY <1>7 DEF Some
  <2> QED
    BY <1>3, <2>1, <2>2, <2>3, <2>4
<1>8. ASSUME InTurn(p, c), InTurn(q, c), ~ (AskRead(p, c) /\ Some(q, c, "write"))
      PROVE  InTurn(t, c)
  <2> SUFFICES ASSUME NEW j \in 1 .. Len(t), NEW k \in 1 .. Len(t),
                      Brings(t[j], c), Is(t[k], c, "write")
               PROVE  k < j
    BY DEF InTurn
  <2>1. CASE j \in 1 .. n /\ t[j] = p[j] /\ k \in 1 .. n /\ t[k] = p[k]
    BY <1>8, <2>1 DEF InTurn
  <2>2. CASE /\ j - n \in 1 .. Len(q) /\ t[j] = q[j - n]
             /\ k - n \in 1 .. Len(q) /\ t[k] = q[k - n]
    <3>1. k - n < j - n
      BY <1>8, <2>2 DEF InTurn
    <3> QED
      BY <1>1, <3>1
  <2>3. ~ (j \in 1 .. n /\ t[j] = p[j] /\ k - n \in 1 .. Len(q) /\ t[k] = q[k - n])
    BY <1>8 DEF AskRead, Some
  <2>4. CASE k \in 1 .. n /\ j - n \in 1 .. Len(q)
    BY <1>1, <2>4
  <2> QED
    BY <1>3, <2>1, <2>2, <2>3, <2>4
<1> QED
  BY <1>1, <1>4, <1>5, <1>6, <1>7, <1>8 DEF t

LEMMA Handled ==
  ASSUME NEW p \in Seq(Posted), p # <<>>, NEW c, NEW kind
  PROVE  /\ Head(p) \in Posted /\ Tail(p) \in Seq(Posted)
         /\ Some(p, c, kind) <=> Is(Head(p), c, kind) \/ Some(Tail(p), c, kind)
         /\ Lone(p, c, kind) =>
              Lone(Tail(p), c, kind) /\ ~ (Is(Head(p), c, kind) /\ Some(Tail(p), c, kind))
         /\ AskRead(p, c) <=> Brings(Head(p), c) \/ AskRead(Tail(p), c)
         /\ OneAskRead(p, c) =>
              OneAskRead(Tail(p), c) /\ (Is(Head(p), c, "read") => OneAsk(Head(p).items))
         /\ InTurn(p, c) =>
              InTurn(Tail(p), c) /\ (Brings(Head(p), c) => ~ Some(Tail(p), c, "write"))
<1> DEFINE h == Head(p)
           t == Tail(p)
<1>1. /\ h \in Posted /\ t \in Seq(Posted) /\ h = p[1] /\ 1 \in 1 .. Len(p)
      /\ Len(t) \in Nat /\ Len(p) = Len(t) + 1
  OBVIOUS
<1>2. \A k \in 1 .. Len(t) : t[k] = p[k + 1]
  OBVIOUS
<1> HIDE DEF h, t
<1>3. /\ \A k \in 1 .. Len(t) : k + 1 \in 1 .. Len(p) /\ t[k] = p[k + 1]
      /\ \A k \in 1 .. Len(p) : k = 1 \/ (k - 1 \in 1 .. Len(t) /\ k = (k - 1) + 1)
  BY <1>1, <1>2
<1>4. \A k \in 1 .. Len(p) : (k = 1 /\ p[k] = h) \/ (k - 1 \in 1 .. Len(t) /\ p[k] = t[k - 1])
  BY <1>1, <1>3
<1>5. Some(p, c, kind) <=> Is(h, c, kind) \/ Some(t, c, kind)
  BY <1>1, <1>3, <1>4 DEF Some
<1>6. AskRead(p, c) <=> Brings(h, c) \/ AskRead(t, c)
  BY <1>1, <1>3, <1>4 DEF AskRead
<1>7. OneAskRead(p, c) => OneAskRead(t, c) /\ (Is(h, c, "read") => OneAsk(h.items))
  BY <1>1, <1>3 DEF OneAskRead
<1>8. ASSUME Lone(p, c, kind)
      PROVE  Lone(t, c, kind) /\ ~ (Is(h, c, kind) /\ Some(t, c, kind))
  <2>1. ASSUME NEW j \in 1 .. Len(t), NEW k \in 1 .. Len(t), Is(t[j], c, kind), Is(t[k], c, kind)
        PROVE  j = k
    <3>1. j + 1 = k + 1
      BY <1>3, <1>8, <2>1 DEF Lone
    <3> QED
      BY <1>1, <3>1
  <2>2. ASSUME NEW k \in 1 .. Len(t), Is(t[k], c, kind), Is(h, c, kind)
        PROVE  FALSE
    <3>1. 1 = k + 1
      BY <1>1, <1>3, <1>8, <2>2 DEF Lone
    <3> QED
      BY <1>1, <3>1
  <2> QED
    BY <2>1, <2>2 DEF Lone, Some
<1>9. ASSUME InTurn(p, c)
      PROVE  InTurn(t, c) /\ (Brings(h, c) => ~ Some(t, c, "write"))
  <2>1. ASSUME NEW j \in 1 .. Len(t), NEW k \in 1 .. Len(t), Brings(t[j], c), Is(t[k], c, "write")
        PROVE  k < j
    <3>1. k + 1 < j + 1
      BY <1>3, <1>9, <2>1 DEF InTurn
    <3> QED
      BY <1>1, <3>1
  <2>2. ASSUME NEW k \in 1 .. Len(t), Is(t[k], c, "write"), Brings(h, c)
        PROVE  FALSE
    <3>1. k + 1 < 1
      BY <1>1, <1>3, <1>9, <2>2 DEF InTurn
    <3> QED
      BY <1>1, <3>1
  <2> QED
    BY <2>1, <2>2 DEF InTurn, Some
<1> QED
  BY <1>1, <1>5, <1>6, <1>7, <1>8, <1>9 DEF h, t

(* One completion by itself, and none.                                     *)
LEMMA Single ==
  ASSUME NEW x \in Posted, NEW c, NEW kind
  PROVE  /\ <<x>> \in Seq(Posted)
         /\ Some(<<x>>, c, kind) <=> Is(x, c, kind)
         /\ AskRead(<<x>>, c) <=> Brings(x, c)
         /\ OneAskRead(<<x>>, c) <=> (Is(x, c, "read") => OneAsk(x.items))
         /\ Lone(<<x>>, c, kind)
         /\ InTurn(<<x>>, c)
<1> DEFINE s == <<x>>
<1>1. s \in Seq(Posted) /\ Len(s) = 1 /\ s[1] = x
  OBVIOUS
<1> HIDE DEF s
<1>2. \A k \in 1 .. Len(s) : k = 1 /\ s[k] = x
  BY <1>1
<1>3. 1 \in 1 .. Len(s)
  BY <1>1
<1>4. Some(s, c, kind) <=> Is(x, c, kind)
  BY <1>1, <1>2, <1>3 DEF Some
<1>5. AskRead(s, c) <=> Brings(x, c)
  BY <1>1, <1>2, <1>3 DEF AskRead
<1>6. OneAskRead(s, c) <=> (Is(x, c, "read") => OneAsk(x.items))
  BY <1>1, <1>2, <1>3 DEF OneAskRead
<1>7. Lone(s, c, kind)
  BY <1>2 DEF Lone
<1>8. InTurn(s, c)
  BY <1>2 DEF InTurn, Brings, Is
<1> QED
  BY <1>1, <1>4, <1>5, <1>6, <1>7, <1>8 DEF s

LEMMA NoneIsQuiet ==
  ASSUME NEW c, NEW kind
  PROVE  /\ <<>> \in Seq(Posted) /\ ~ Some(<<>>, c, kind) /\ ~ AskRead(<<>>, c)
         /\ Lone(<<>>, c, kind) /\ OneAskRead(<<>>, c) /\ InTurn(<<>>, c)
         /\ ~ HasAsk(<<>>) /\ OneAsk(<<>>)
BY DEF Some, AskRead, Lone, OneAskRead, InTurn, HasAsk, OneAsk

(* What a read brings, and what it leaves.                                 *)
LEMMA ItemsSplit ==
  ASSUME NEW s \in Seq(Item), NEW n \in 0 .. Len(s)
  PROVE  LET a == SubSeq(s, 1, n)
             b == SubSeq(s, n + 1, Len(s))
         IN /\ a \in Seq(Item) /\ b \in Seq(Item)
            /\ HasAsk(a) \/ HasAsk(b) => HasAsk(s)
            /\ OneAsk(s) => OneAsk(a) /\ OneAsk(b) /\ ~ (HasAsk(a) /\ HasAsk(b))
<1> DEFINE a == SubSeq(s, 1, n)
           b == SubSeq(s, n + 1, Len(s))
<1>1. a \in Seq(Item) /\ b \in Seq(Item) /\ n \in Nat /\ Len(s) \in Nat
  OBVIOUS
<1>2. Len(a) = n /\ \A k \in 1 .. n : a[k] = s[k]
  OBVIOUS
<1>3. Len(b) = Len(s) - n /\ \A k \in 1 .. Len(s) - n : b[k] = s[n + k]
  OBVIOUS
<1> HIDE DEF a, b
<1>4. /\ \A k \in 1 .. Len(a) : k \in 1 .. Len(s) /\ k <= n /\ a[k] = s[k]
      /\ \A k \in 1 .. Len(b) : n + k \in 1 .. Len(s) /\ n + k > n /\ b[k] = s[n + k]
  BY <1>1, <1>2, <1>3
<1>5. HasAsk(a) \/ HasAsk(b) => HasAsk(s)
  BY <1>4 DEF HasAsk
<1>6. ASSUME OneAsk(s)
      PROVE  OneAsk(a) /\ OneAsk(b) /\ ~ (HasAsk(a) /\ HasAsk(b))
  <2>1. OneAsk(a)
    BY <1>4, <1>6 DEF OneAsk
  <2>2. OneAsk(b)
    <3> SUFFICES ASSUME NEW j \in 1 .. Len(b), NEW k \in 1 .. Len(b), Asks(b[j]), Asks(b[k])
                 PROVE  j = k
      BY DEF OneAsk
    <3>1. n + j = n + k
      BY <1>4, <1>6 DEF OneAsk
    <3> QED
      BY <1>1, <3>1
  <2>3. ASSUME NEW j \in 1 .. Len(a), NEW k \in 1 .. Len(b), Asks(a[j]), Asks(b[k])
        PROVE  FALSE
    <3>1. j = n + k
      BY <1>4, <1>6, <2>3 DEF OneAsk
    <3> QED
      BY <1>4, <3>1
  <2> QED
    BY <2>1, <2>2, <2>3 DEF HasAsk
<1> QED
  BY <1>1, <1>5, <1>6 DEF a, b

LEMMA ItemsJoined ==
  ASSUME NEW s \in Seq(Item), NEW t \in Seq(Item), ~ HasAsk(s), OneAsk(t)
  PROVE  /\ s \o t \in Seq(Item) /\ OneAsk(s \o t)
         /\ HasAsk(s \o t) => HasAsk(t)
<1> DEFINE u == s \o t
           n == Len(s)
<1>1. /\ u \in Seq(Item) /\ n \in Nat
      /\ \A k \in 1 .. n : u[k] = s[k]
      /\ \A k \in 1 .. Len(t) : u[k + n] = t[k]
      /\ \A k \in 1 .. Len(u) : k \in 1 .. n \/ (k - n \in 1 .. Len(t) /\ k = (k - n) + n)
  BY Concat
<1> HIDE DEF u
<1>2. \A k \in 1 .. Len(u) : Asks(u[k]) => k - n \in 1 .. Len(t) /\ Asks(t[k - n])
  BY <1>1 DEF HasAsk
<1>3. HasAsk(u) => HasAsk(t)
  BY <1>2 DEF HasAsk
<1>4. OneAsk(u)
  <2> SUFFICES ASSUME NEW j \in 1 .. Len(u), NEW k \in 1 .. Len(u), Asks(u[j]), Asks(u[k])
               PROVE  j = k
    BY DEF OneAsk
  <2>1. j - n = k - n
    BY <1>2 DEF OneAsk
  <2> QED
    BY <1>1, <2>1
<1> QED
  BY <1>1, <1>3, <1>4 DEF u

LEMMA ItemFed ==
  ASSUME NEW s \in Seq(Item), s # <<>>, OneAsk(s)
  PROVE  /\ Tail(s) \in Seq(Item) /\ OneAsk(Tail(s))
         /\ HasAsk(Tail(s)) => HasAsk(s)
         /\ Asks(Head(s)) => HasAsk(s) /\ ~ HasAsk(Tail(s))
<1> DEFINE t == Tail(s)
<1>1. /\ t \in Seq(Item) /\ Head(s) = s[1] /\ 1 \in 1 .. Len(s)
      /\ Len(t) \in Nat /\ Len(s) = Len(t) + 1
  OBVIOUS
<1>2. \A k \in 1 .. Len(t) : t[k] = s[k + 1]
  OBVIOUS
<1> HIDE DEF t
<1>3. \A k \in 1 .. Len(t) : k + 1 \in 1 .. Len(s) /\ k + 1 # 1 /\ t[k] = s[k + 1]
  BY <1>1, <1>2
<1>4. OneAsk(t)
  <2> SUFFICES ASSUME NEW j \in 1 .. Len(t), NEW k \in 1 .. Len(t), Asks(t[j]), Asks(t[k])
               PROVE  j = k
    BY DEF OneAsk
  <2>1. j + 1 = k + 1
    BY <1>3 DEF OneAsk
  <2> QED
    BY <1>1, <2>1
<1>5. HasAsk(t) => HasAsk(s)
  BY <1>3 DEF HasAsk
<1>6. Asks(Head(s)) => HasAsk(s) /\ ~ HasAsk(t)
  BY <1>1, <1>3 DEF HasAsk, OneAsk
<1> QED
  BY <1>1, <1>4, <1>5, <1>6 DEF t

-----------------------------------------------------------------------------
(* A step is about one connection: it takes the first completion, when it  *)
(* is one of his, and adds others of his.                                  *)
Owns(p, c) == \A k \in 1 .. Len(p) : p[k].conn = c
Moves(c) == \E q \in Seq(Posted) :
  /\ Owns(q, c)
  /\ \/ posted' = posted \o q
     \/ posted # <<>> /\ Head(posted).conn = c /\ posted' = Tail(posted) \o q

Same(d) ==
  /\ sent'[d] = sent[d] /\ inbox'[d] = inbox[d] /\ replies'[d] = replies[d]
  /\ rd'[d] = rd[d] /\ wr'[d] = wr[d] /\ life'[d] = life[d] /\ open'[d] = open[d]
  /\ is_reading'[d] = is_reading[d] /\ is_writing'[d] = is_writing[d]
  /\ overlap'[d] = overlap[d] /\ key'[d] = key[d]

LEMMA Unowned ==
  ASSUME NEW q \in Seq(Posted), NEW c, Owns(q, c), NEW d, d # c, NEW kind
  PROVE  /\ ~ Some(q, d, kind) /\ ~ AskRead(q, d)
         /\ Lone(q, d, kind) /\ OneAskRead(q, d) /\ InTurn(q, d)
BY DEF Owns, Some, AskRead, Lone, OneAskRead, InTurn, Brings, Is

LEMMA OthersPosted ==
  ASSUME HttpTypeOK, NEW c \in Conn, Moves(c), NEW d, d # c, NEW kind
  PROVE  /\ Some(posted', d, kind) <=> Some(posted, d, kind)
         /\ Lone(posted, d, kind) => Lone(posted', d, kind)
         /\ AskRead(posted', d) <=> AskRead(posted, d)
         /\ OneAskRead(posted, d) => OneAskRead(posted', d)
         /\ InTurn(posted, d) => InTurn(posted', d)
<1>1. posted \in Seq(Posted)
  BY DEF HttpTypeOK
<1>2. PICK q \in Seq(Posted) :
        /\ Owns(q, c)
        /\ \/ posted' = posted \o q
           \/ posted # <<>> /\ Head(posted).conn = c /\ posted' = Tail(posted) \o q
  BY DEF Moves
<1>3. /\ ~ Some(q, d, kind) /\ ~ AskRead(q, d) /\ ~ Some(q, d, "write")
      /\ Lone(q, d, kind) /\ OneAskRead(q, d) /\ InTurn(q, d)
  BY <1>2, Unowned
<1>4. CASE posted' = posted \o q
  BY <1>1, <1>3, <1>4, Joined
<1>5. CASE posted # <<>> /\ Head(posted).conn = c /\ posted' = Tail(posted) \o q
  <2> DEFINE t == Tail(posted)
             h == Head(posted)
  <2>1. /\ t \in Seq(Posted)
        /\ Some(posted, d, kind) <=> Is(h, d, kind) \/ Some(t, d, kind)
        /\ Lone(posted, d, kind) => Lone(t, d, kind)
        /\ AskRead(posted, d) <=> Brings(h, d) \/ AskRead(t, d)
        /\ OneAskRead(posted, d) => OneAskRead(t, d)
        /\ InTurn(posted, d) => InTurn(t, d)
    BY <1>1, <1>5, Handled
  <2>2. ~ Is(h, d, kind) /\ ~ Brings(h, d)
    BY <1>5 DEF Is, Brings
  <2>3. posted' = t \o q
    BY <1>5
  <2> HIDE DEF t, h
  <2> QED
    BY <1>3, <2>1, <2>2, <2>3, Joined
<1> QED
  BY <1>2, <1>4, <1>5

LEMMA OthersKeep ==
  ASSUME HttpTypeOK, \A d \in Conn : ConnOK(d), UNCHANGED setup,
         NEW c \in Conn, Moves(c), \A d \in Conn \ {c} : Same(d),
         feed' = feed \/ {feed.conn, feed'.conn} \subseteq {c, NoConn}
  PROVE  \A d \in Conn \ {c} : ConnOK(d)'
<1> SUFFICES ASSUME NEW d \in Conn, d # c PROVE ConnOK(d)'
  OBVIOUS
<1>1. /\ ConnOK(d) /\ Same(d) /\ d # NoConn
      /\ feed'.conn = d <=> feed.conn = d
      /\ feed.conn = d => feed' = feed
  BY HttpAssumption
<1>2. \A kind : /\ Some(posted', d, kind) <=> Some(posted, d, kind)
                /\ Lone(posted, d, kind) => Lone(posted', d, kind)
  BY OthersPosted
<1>3. /\ AskRead(posted', d) <=> AskRead(posted, d)
      /\ OneAskRead(posted, d) => OneAskRead(posted', d)
      /\ InTurn(posted, d) => InTurn(posted', d)
  BY OthersPosted
<1>4. ReadSide(d)'
  BY <1>1, <1>2 DEF ConnOK, ReadSide, Same
<1>5. WriteSide(d)'
  BY <1>1, <1>2 DEF ConnOK, WriteSide, Same
<1>6. LifeOK(d)'
  BY <1>1, <1>2 DEF ConnOK, LifeOK, Still, Same
<1>7. PacedOK(d)'
  <2>1. Asking(d)' = Asking(d)
    BY <1>1 DEF Asking, Same
  <2>2. /\ Sending(d)' <=> Sending(d)
        /\ Reading(d)' <=> Reading(d)
        /\ Fed(d)' <=> Fed(d)
        /\ Replying(d)' <=> Replying(d)
    BY <1>1, <1>3 DEF Sending, Reading, Fed, Replying, Same
  <2> QED
    BY <1>1, <1>2, <1>3, <2>1, <2>2 DEF ConnOK, PacedOK, Same
<1> QED
  BY <1>4, <1>5, <1>6, <1>7 DEF ConnOK

(* What closing leaves to be handled.                                      *)
LEMMA AbortedIs ==
  ASSUME HttpTypeOK, NEW c \in Conn
  PROVE  /\ Aborted(c) \in Seq(Posted) /\ Owns(Aborted(c), c)
         /\ Some(Aborted(c), c, "read") <=> rd[c]
         /\ Some(Aborted(c), c, "write") <=> wr[c] # <<>>
         /\ ~ Some(Aborted(c), c, "start") /\ ~ AskRead(Aborted(c), c)
         /\ Lone(Aborted(c), c, "read") /\ Lone(Aborted(c), c, "start")
         /\ OneAskRead(Aborted(c), c) /\ InTurn(Aborted(c), c)
         /\ Len(wr[c]) = 1 \/ wr[c] = <<>> => Lone(Aborted(c), c, "write")
<1> DEFINE x == [conn |-> c, kind |-> "write", ok |-> FALSE, items |-> <<>>]
           y == [conn |-> c, kind |-> "read", ok |-> FALSE, items |-> <<>>]
           n == Len(wr[c])
           w == [k \in 1 .. n |-> x]
           r == IF rd[c] THEN <<y>> ELSE <<>>
           a == w \o r
<1>1. x \in Posted /\ y \in Posted /\ n \in Nat /\ (wr[c] = <<>> <=> n = 0)
  BY DEF HttpTypeOK, Posted, Kind
<1>2. /\ Is(x, c, "write") /\ ~ Is(x, c, "read") /\ ~ Is(x, c, "start") /\ ~ Brings(x, c)
      /\ Is(y, c, "read") /\ ~ Is(y, c, "write") /\ ~ Is(y, c, "start") /\ ~ Brings(y, c)
      /\ OneAsk(y.items) /\ x.conn = c /\ y.conn = c
  BY NoneIsQuiet DEF Is, Brings
<1> HIDE DEF x, y, n
<1>3. /\ w \in Seq(Posted) /\ Len(w) = n /\ \A k \in 1 .. n : w[k] = x
  BY <1>1
<1> HIDE DEF w
<1>4. /\ Some(w, c, "write") <=> n # 0
      /\ ~ Some(w, c, "read") /\ ~ Some(w, c, "start") /\ ~ AskRead(w, c)
      /\ Lone(w, c, "read") /\ Lone(w, c, "start") /\ OneAskRead(w, c) /\ InTurn(w, c)
      /\ n = 1 \/ n = 0 => Lone(w, c, "write")
  <2>1. Some(w, c, "write") <=> n # 0
    BY <1>1, <1>2, <1>3 DEF Some
  <2>2. ~ Some(w, c, "read") /\ ~ Some(w, c, "start") /\ ~ AskRead(w, c)
    BY <1>2, <1>3 DEF Some, AskRead
  <2>3. Lone(w, c, "read") /\ Lone(w, c, "start") /\ OneAskRead(w, c) /\ InTurn(w, c)
    BY <1>2, <1>3 DEF Lone, OneAskRead, InTurn
  <2>4. n = 1 \/ n = 0 => Lone(w, c, "write")
    BY <1>3 DEF Lone
  <2> QED
    BY <2>1, <2>2, <2>3, <2>4
<1>5. /\ r \in Seq(Posted)
      /\ Some(r, c, "read") <=> rd[c]
      /\ ~ Some(r, c, "write") /\ ~ Some(r, c, "start") /\ ~ AskRead(r, c)
      /\ Lone(r, c, "read") /\ Lone(r, c, "start") /\ Lone(r, c, "write")
      /\ OneAskRead(r, c) /\ InTurn(r, c)
  <2>1. CASE rd[c]
    BY <1>1, <1>2, <2>1, Single
  <2>2. CASE ~ rd[c]
    BY <2>2, NoneIsQuiet
  <2> QED
    BY <2>1, <2>2
<1>6. \A k \in 1 .. Len(r) : r[k].conn = c
  <2>1. CASE rd[c]
    BY <1>2, <2>1
  <2>2. CASE ~ rd[c]
    BY <2>2
  <2> QED
    BY <2>1, <2>2
<1> HIDE DEF r
<1>7. a \in Seq(Posted)
  BY <1>3, <1>5, Joined
<1>8. Owns(a, c)
  <2>1. \A k \in 1 .. Len(a) : (k \in 1 .. Len(w) /\ a[k] = w[k])
                               \/ (k - Len(w) \in 1 .. Len(r) /\ a[k] = r[k - Len(w)])
    <3>1. w \in Seq(Posted) /\ r \in Seq(Posted)
      BY <1>3, <1>5
    <3> HIDE DEF a
    <3>2. /\ \A k \in 1 .. Len(w) : a[k] = w[k]
          /\ \A k \in 1 .. Len(r) : a[k + Len(w)] = r[k]
          /\ \A k \in 1 .. Len(a) : \/ k \in 1 .. Len(w)
                                    \/ k - Len(w) \in 1 .. Len(r) /\ k = (k - Len(w)) + Len(w)
      BY <3>1, Concat DEF a
    <3> QED
      BY <3>2
  <2> QED
    BY <1>2, <1>3, <1>6, <2>1 DEF Owns
<1>9. /\ Some(a, c, "read") <=> rd[c]
      /\ Some(a, c, "write") <=> n # 0
      /\ ~ Some(a, c, "start") /\ ~ AskRead(a, c)
      /\ Lone(a, c, "read") /\ Lone(a, c, "start") /\ OneAskRead(a, c) /\ InTurn(a, c)
      /\ n = 1 \/ n = 0 => Lone(a, c, "write")
  BY <1>3, <1>4, <1>5, Joined
<1>10. a = Aborted(c)
  BY DEF a, w, r, x, y, n, Aborted
<1> QED
  BY <1>1, <1>7, <1>8, <1>9, <1>10 DEF n

-----------------------------------------------------------------------------
(* dumb_timer_queue.                                                       *)

LEMMA CancelledIs ==
  ASSUME HttpTypeOK, KeysOK, NEW c \in Conn
  PROVE  /\ Cancelled(c) \in Seq(Conn \cup {NoConn}) /\ Len(Cancelled(c)) = Len(dq)
         /\ \A k \in 1 .. Len(dq) : Cancelled(c)[k] = IF dq[k] = c THEN NoConn ELSE dq[k]
<1> DEFINE j == key[c] - step + 1
           n == Len(dq)
<1>1. /\ dq \in Seq(Conn \cup {NoConn}) /\ n \in Nat /\ step \in Nat /\ DOMAIN dq = 1 .. n
      /\ key[c] \in Int /\ (key[c] = NoKey => key[c] < step)
  BY DEF HttpTypeOK, NoKey
<1>2. \A k \in 1 .. n : dq[k] = c <=> k = j
  <2>1. \A k \in 1 .. n : dq[k] = c <=> key[c] = step + k - 1
    BY DEF KeysOK
  <2> QED
    BY <1>1, <2>1
<1>3. j \in 1 .. n => key[c] # NoKey
  BY <1>1
<1>4. Cancelled(c) = IF j \in 1 .. n THEN [dq EXCEPT ![j] = NoConn] ELSE dq
  BY <1>1, <1>3 DEF Cancelled
<1> HIDE DEF j
<1>5. CASE j \in 1 .. n
  BY <1>1, <1>2, <1>4, <1>5
<1>6. CASE j \notin 1 .. n
  BY <1>1, <1>2, <1>4, <1>6
<1> QED
  BY <1>5, <1>6

LEMMA CancelKeeps ==
  ASSUME HttpTypeOK, KeysOK, NEW c \in Conn, CancelDeadline(c)
  PROVE  /\ dq' \in Seq(Conn \cup {NoConn}) /\ step' = step /\ key' \in [Conn -> Nat \cup {NoKey}]
         /\ KeysOK' /\ key'[c] = NoKey /\ \A d \in Conn \ {c} : key'[d] = key[d]
<1>1. /\ dq' = Cancelled(c) /\ step' = step /\ key' = [key EXCEPT ![c] = NoKey]
      /\ key \in [Conn -> Nat \cup {NoKey}] /\ step \in Nat /\ Len(dq) \in Nat
  BY DEF CancelDeadline, HttpTypeOK
<1>2. /\ dq' \in Seq(Conn \cup {NoConn}) /\ Len(dq') = Len(dq)
      /\ \A k \in 1 .. Len(dq) : dq'[k] = IF dq[k] = c THEN NoConn ELSE dq[k]
  BY <1>1, CancelledIs
<1>3. \A d \in Conn : key'[d] = IF d = c THEN NoKey ELSE key[d]
  BY <1>1
<1>4. KeysOK'
  <2> SUFFICES ASSUME NEW d \in Conn
               PROVE  /\ key'[d] < step' + Len(dq')
                      /\ \A k \in 1 .. Len(dq') : dq'[k] = d <=> key'[d] = step' + k - 1
    BY DEF KeysOK
  <2>1. CASE d = c
    <3>1. key'[d] = NoKey /\ \A k \in 1 .. Len(dq') : dq'[k] # d
      BY <1>2, <1>3, <2>1, HttpAssumption
    <3> QED
      BY <1>1, <1>2, <3>1 DEF NoKey
  <2>2. CASE d # c
    <3>1. key'[d] = key[d] /\ \A k \in 1 .. Len(dq') : dq'[k] = d <=> dq[k] = d
      BY <1>2, <1>3, <2>2, HttpAssumption
    <3> QED
      BY <1>1, <1>2, <3>1 DEF KeysOK
  <2> QED
    BY <2>1, <2>2
<1> QED
  BY <1>1, <1>2, <1>3, <1>4

LEMMA DeadlineKeeps ==
  ASSUME HttpTypeOK, KeysOK, NEW c \in Conn, StartDeadline(c)
  PROVE  /\ dq' \in Seq(Conn \cup {NoConn}) /\ step' = step /\ key' \in [Conn -> Nat \cup {NoKey}]
         /\ KeysOK' /\ step <= key'[c] /\ \A d \in Conn \ {c} : key'[d] = key[d]
<1> DEFINE q == Cancelled(c)
           n == Len(dq)
<1>1. /\ dq' = Append(q, c) /\ step' = step /\ key' = [key EXCEPT ![c] = step + n]
      /\ key \in [Conn -> Nat \cup {NoKey}] /\ step \in Nat /\ n \in Nat
  BY DEF StartDeadline, HttpTypeOK
<1>2. /\ q \in Seq(Conn \cup {NoConn}) /\ Len(q) = n
      /\ \A k \in 1 .. n : q[k] = IF dq[k] = c THEN NoConn ELSE dq[k]
  BY CancelledIs
<1> HIDE DEF q
<1>3. dq' \in Seq(Conn \cup {NoConn}) /\ Len(dq') = n + 1
  BY <1>1, <1>2
<1>4. /\ \A k \in 1 .. n : dq'[k] = IF dq[k] = c THEN NoConn ELSE dq[k]
      /\ dq'[n + 1] = c
  BY <1>1, <1>2
<1>5. \A d \in Conn : key'[d] = IF d = c THEN step + n ELSE key[d]
  BY <1>1
<1> HIDE DEF n
<1>6. \A k \in 1 .. n + 1 : k \in 1 .. n \/ k = n + 1
  BY <1>1
<1>7. KeysOK'
  <2> SUFFICES ASSUME NEW d \in Conn
               PROVE  /\ key'[d] < step' + Len(dq')
                      /\ \A k \in 1 .. Len(dq') : dq'[k] = d <=> key'[d] = step' + k - 1
    BY DEF KeysOK
  <2>1. CASE d = c
    <3>1. key'[d] = step + n /\ \A k \in 1 .. n : dq'[k] # d
      BY <1>4, <1>5, <2>1, HttpAssumption
    <3>2. \A k \in 1 .. n + 1 : dq'[k] = d <=> k = n + 1
      BY <1>1, <1>4, <1>6, <2>1, <3>1
    <3>3. /\ \A k \in 1 .. n + 1 : k = n + 1 <=> step + n = step + k - 1
          /\ step + n < step + (n + 1)
      BY <1>1
    <3> QED
      BY <1>1, <1>3, <3>1, <3>2, <3>3
  <2>2. CASE d # c
    <3>1. /\ key'[d] = key[d] /\ key[d] \in Int
          /\ \A k \in 1 .. n : dq'[k] = d <=> dq[k] = d
          /\ dq'[n + 1] # d
      <4>1. key'[d] = key[d] /\ key[d] \in Int
        BY <1>1, <1>5, <2>2 DEF NoKey
      <4> QED
        BY <1>4, <2>2, <4>1, HttpAssumption
    <3>2. key[d] < step + n /\ \A k \in 1 .. n : dq[k] = d <=> key[d] = step + k - 1
      BY DEF KeysOK, n
    <3> QED
      BY <1>1, <1>3, <1>6, <3>1, <3>2
  <2> QED
    BY <2>1, <2>2
<1> QED
  BY <1>1, <1>3, <1>5, <1>7

LEMMA PopKeeps ==
  ASSUME HttpTypeOK, KeysOK, dq # <<>>, dq' = Tail(dq), step' = step + 1, key' = key
  PROVE  /\ dq' \in Seq(Conn \cup {NoConn}) /\ step' \in Nat /\ KeysOK'
         /\ Head(dq) \in Conn \cup {NoConn}
         /\ \A c \in Conn : Head(dq) = c <=> key[c] = step
<1>1. /\ dq' \in Seq(Conn \cup {NoConn}) /\ Len(dq) \in Nat /\ Len(dq') \in Nat
      /\ Len(dq) = Len(dq') + 1 /\ Head(dq) = dq[1] /\ Head(dq) \in Conn \cup {NoConn}
      /\ step \in Nat /\ \A c \in Conn : key[c] \in Int
  BY DEF HttpTypeOK, NoKey
<1>2. \A k \in 1 .. Len(dq') : k + 1 \in 1 .. Len(dq) /\ dq'[k] = dq[k + 1]
  BY <1>1 DEF HttpTypeOK
<1>3. 1 \in 1 .. Len(dq)
  BY <1>1
<1>4. ASSUME NEW c \in Conn
      PROVE  /\ key'[c] < step' + Len(dq')
             /\ \A k \in 1 .. Len(dq') : dq'[k] = c <=> key'[c] = step' + k - 1
             /\ Head(dq) = c <=> key[c] = step
  <2>1. key[c] < step + Len(dq) /\ \A k \in 1 .. Len(dq) : dq[k] = c <=> key[c] = step + k - 1
    BY DEF KeysOK
  <2>2. key'[c] < step' + Len(dq')
    BY <1>1, <2>1
  <2>3. ASSUME NEW k \in 1 .. Len(dq') PROVE dq'[k] = c <=> key'[c] = step' + k - 1
    <3>1. dq'[k] = c <=> key[c] = step + (k + 1) - 1
      BY <1>2, <2>1
    <3> QED
      BY <1>1, <3>1
  <2>4. Head(dq) = c <=> key[c] = step
    <3>1. Head(dq) = c <=> key[c] = step + 1 - 1
      BY <1>1, <1>3, <2>1
    <3> QED
      BY <1>1, <3>1
  <2> QED
    BY <2>2, <2>3, <2>4
<1> QED
  BY <1>1, <1>4 DEF KeysOK

-----------------------------------------------------------------------------
(* What each step of a connection has to show.                             *)
Frame(c) ==
  /\ UNCHANGED setup /\ Moves(c) /\ \A d \in Conn \ {c} : Same(d)
  /\ feed' = feed \/ {feed.conn, feed'.conn} \subseteq {c, NoConn}
  /\ mishap' = mishap /\ (overlap[c] => overlap'[c])
  /\ life[c] = "deleted" => life'[c] = "deleted"

LEMMA StepKeeps ==
  ASSUME HttpInv, NEW c \in Conn, Frame(c), HttpTypeOK', ConnOK(c)', DeadlinesOK'
  PROVE  HttpInv'
<1>1. \A d \in Conn \ {c} : ConnOK(d)'
  BY OthersKeep DEF HttpInv, Frame
<1>2. MishapOK'
  BY DEF HttpInv, MishapOK, Frame, Same
<1> QED
  BY <1>1, <1>2 DEF HttpInv

LEMMA Rests ==
  ASSUME HttpTypeOK, NEW c
  PROVE  /\ posted' = posted => Moves(c)
         /\ posted # <<>> /\ Head(posted).conn = c /\ posted' = Tail(posted) => Moves(c)
<1> DEFINE q == <<>>
<1>1. q \in Seq(Posted) /\ Owns(q, c) /\ posted \in Seq(Posted)
  BY DEF Owns, HttpTypeOK
<1>2. posted = posted \o q
  BY <1>1
<1>3. posted # <<>> => Tail(posted) \in Seq(Posted)
  BY <1>1
<1>4. posted # <<>> => Tail(posted) = Tail(posted) \o q
  BY <1>3
<1> HIDE DEF q
<1> QED
  BY <1>1, <1>2, <1>4 DEF Moves

LEMMA Posts ==
  ASSUME HttpTypeOK, NEW c \in Conn, NEW kind \in Kind, NEW ok \in BOOLEAN, NEW items \in Seq(Item),
         posted' = Post(c, kind, ok, items)
  PROVE  /\ Moves(c) /\ posted' \in Seq(Posted)
         /\ \A k : Some(posted', c, k) <=> Some(posted, c, k) \/ k = kind
         /\ \A k : Lone(posted, c, k) /\ ~ (Some(posted, c, k) /\ k = kind) => Lone(posted', c, k)
         /\ AskRead(posted', c) <=> AskRead(posted, c) \/ (kind = "read" /\ HasAsk(items))
         /\ OneAskRead(posted, c) /\ (kind = "read" => OneAsk(items)) => OneAskRead(posted', c)
         /\ InTurn(posted, c) /\ ~ (AskRead(posted, c) /\ kind = "write") => InTurn(posted', c)
<1> DEFINE x == [conn |-> c, kind |-> kind, ok |-> ok, items |-> items]
           q == <<x>>
<1>1. x \in Posted /\ posted \in Seq(Posted)
  BY DEF Posted, HttpTypeOK
<1>2. /\ \A k : Is(x, c, k) <=> k = kind
      /\ Brings(x, c) <=> kind = "read" /\ HasAsk(items)
      /\ OneAsk(x.items) <=> OneAsk(items)
      /\ x.conn = c
  BY DEF Is, Brings
<1>3. posted' = posted \o q
  BY <1>1, AppendIsConcat DEF Post
<1>4. Owns(q, c)
  BY <1>2 DEF Owns
<1> HIDE DEF x
<1>5. /\ q \in Seq(Posted)
      /\ \A k : Some(q, c, k) <=> k = kind
      /\ \A k : Lone(q, c, k)
      /\ AskRead(q, c) <=> kind = "read" /\ HasAsk(items)
      /\ (kind = "read" => OneAsk(items)) => OneAskRead(q, c)
      /\ InTurn(q, c)
  BY <1>1, <1>2, Single
<1> HIDE DEF q
<1>6. Moves(c) /\ posted' \in Seq(Posted)
  BY <1>1, <1>3, <1>4, <1>5, Joined DEF Moves
<1>7. \A k : Some(posted', c, k) <=> Some(posted, c, k) \/ k = kind
  BY <1>1, <1>3, <1>5, Joined
<1>8. \A k : Lone(posted, c, k) /\ ~ (Some(posted, c, k) /\ k = kind) => Lone(posted', c, k)
  BY <1>1, <1>3, <1>5, Joined
<1>9. /\ AskRead(posted', c) <=> AskRead(posted, c) \/ AskRead(q, c)
      /\ OneAskRead(posted, c) /\ OneAskRead(q, c) => OneAskRead(posted', c)
      /\ InTurn(posted, c) /\ InTurn(q, c) /\ ~ (AskRead(posted, c) /\ Some(q, c, "write"))
           => InTurn(posted', c)
  BY <1>1, <1>3, <1>5, Joined
<1> QED
  BY <1>5, <1>6, <1>7, <1>8, <1>9

(* While something is read there is a connection, and it has started.      *)
LEMMA Reads ==
  ASSUME HttpTypeOK, NEW c \in Conn, ConnOK(c),
         rd[c] \/ Some(posted, c, "read") \/ feed.conn = c
  PROVE  is_reading[c] /\ ~ Some(posted, c, "start") /\ life[c] = "accepted"
BY DEF HttpTypeOK, ConnOK, ReadSide, LifeOK, Still

LEMMA SetupIs ==
  ASSUME HttpTypeOK, NEW c \in Conn
  PROVE  /\ setup[c].send \in Seq(Seq(Item)) /\ setup[c].paced \in BOOLEAN
         /\ setup[c].paced => \A k \in 1 .. Len(setup[c].send) : OneAsk(setup[c].send[k])
<1>1. setup \in Setup /\ setup \in [Conn -> [comes : BOOLEAN, send : Seq(Seq(Item)), paced : BOOLEAN]]
  BY HttpAssumption DEF HttpTypeOK
<1>2. setup[c].send \in Seq(Seq(Item)) /\ setup[c].paced \in BOOLEAN
  BY <1>1
<1>3. ASSUME setup[c].paced, NEW k \in 1 .. Len(setup[c].send)
      PROVE  OneAsk(setup[c].send[k])
  <2> DEFINE items == setup[c].send[k]
  <2>1. items \in Seq(Item) /\ k \in DOMAIN setup[c].send
    BY <1>2, <1>3
  <2>2. DOMAIN items = 1 .. Len(items)
    BY <2>1
  <2>3. \A i, j \in DOMAIN items : Asks(items[i]) /\ Asks(items[j]) => i = j
    BY <1>1, <1>3, <2>1, HttpAssumption
  <2> HIDE DEF items
  <2>4. OneAsk(items)
    BY <2>2, <2>3 DEF OneAsk
  <2> QED
    BY <2>4 DEF items
<1> QED
  BY <1>2, <1>3

LEMMA AskingIs ==
  ASSUME HttpTypeOK, NEW c \in Conn
  PROVE  /\ IsFiniteSet(Asking(c)) /\ Cardinality(Asking(c)) \in Nat
         /\ UNCHANGED <<setup, sent>> \/ (UNCHANGED setup /\ sent'[c] = sent[c])
              => Asking(c)' = Asking(c)
<1>1. sent[c] \in Nat
  BY DEF HttpTypeOK
<1>2. IsFiniteSet(1 .. sent[c])
  BY <1>1, FS_Interval
<1>3. Asking(c) \subseteq 1 .. sent[c]
  BY DEF Asking
<1>4. IsFiniteSet(Asking(c)) /\ Cardinality(Asking(c)) \in Nat
  BY <1>2, <1>3, FS_Subset, FS_CardinalityType
<1> QED
  BY <1>4 DEF Asking

LEMMA AskingGrows ==
  ASSUME HttpTypeOK, NEW c \in Conn, UNCHANGED setup, sent[c] < Len(setup[c].send),
         sent'[c] = sent[c] + 1
  PROVE  Cardinality(Asking(c)') = IF HasAsk(setup[c].send[sent[c] + 1])
                                   THEN Cardinality(Asking(c)) + 1 ELSE Cardinality(Asking(c))
<1> DEFINE n == sent[c] + 1
           seg == setup[c].send[n]
<1>1. sent[c] \in Nat /\ setup[c].send \in Seq(Seq(Item))
  BY SetupIs DEF HttpTypeOK
<1>2. n \in 1 .. Len(setup[c].send) /\ \A k \in 1 .. n : k \in 1 .. sent[c] \/ k = n
  BY <1>1
<1>3. seg \in Seq(Item) /\ DOMAIN seg = 1 .. Len(seg)
  <2>1. seg \in Seq(Item)
    BY <1>1, <1>2
  <2> QED
    BY <2>1
<1>4. 1 .. sent[c] \subseteq 1 .. n /\ n \notin 1 .. sent[c] /\ n \in 1 .. n
  BY <1>1
<1>5. Asking(c)' = {k \in 1 .. n : \E j \in DOMAIN setup[c].send[k] : Asks(setup[c].send[k][j])}
  BY DEF Asking
<1>6. HasAsk(seg) <=> \E j \in DOMAIN setup[c].send[n] : Asks(setup[c].send[n][j])
  BY <1>3 DEF HasAsk
<1> HIDE DEF n
<1>7. n \notin Asking(c)
  BY <1>4 DEF Asking
<1>8. Asking(c)' = IF HasAsk(seg) THEN Asking(c) \cup {n} ELSE Asking(c)
  BY <1>2, <1>4, <1>5, <1>6 DEF Asking
<1>9. Cardinality(Asking(c) \cup {n}) = Cardinality(Asking(c)) + 1
  BY <1>7, AskingIs, FS_AddElement
<1> QED
  BY <1>8, <1>9 DEF n

-----------------------------------------------------------------------------
(* The clients, the kernel, and the server that accepts.                   *)

LEMMA SendKeeps ==
  ASSUME HttpInv, NEW c \in Conn, Send(c)
  PROVE  HttpInv'
<1> DEFINE seg == setup[c].send[sent[c] + 1]
<1>1. /\ HttpTypeOK /\ ConnOK(c) /\ DeadlinesOK
      /\ sent[c] < Len(setup[c].send) /\ ~ Waits(c) /\ life[c] # "unborn"
      /\ sent' = [sent EXCEPT ![c] = @ + 1] /\ inbox' = [inbox EXCEPT ![c] = @ \o seg]
      /\ UNCHANGED <<setup, peer, replies, rd, wr, posted, life, open, flagVars, timerVars, feed,
                     overlap, mishap>>
  BY DEF Send, HttpInv, opVars
<1>2. sent[c] \in Nat /\ seg \in Seq(Item) /\ inbox[c] \in Seq(Item)
  <2>1. sent[c] \in Nat /\ setup[c].send \in Seq(Seq(Item)) /\ inbox[c] \in Seq(Item)
    BY <1>1, SetupIs DEF HttpTypeOK
  <2>2. sent[c] + 1 \in 1 .. Len(setup[c].send)
    BY <1>1, <2>1
  <2> QED
    BY <2>1, <2>2
<1> HIDE DEF seg
<1>3. HttpTypeOK'
  <2>1. inbox[c] \o seg \in Seq(Item) /\ sent[c] + 1 \in Nat
    BY <1>2
  <2>2. inbox \in [Conn -> Seq(Item)] /\ sent \in [Conn -> Nat]
    BY <1>1 DEF HttpTypeOK
  <2>3. inbox' \in [Conn -> Seq(Item)]
    BY <1>1, <2>1, <2>2
  <2>4. sent' \in [Conn -> Nat]
    BY <1>1, <2>1, <2>2
  <2> QED
    BY <1>1, <2>3, <2>4 DEF HttpTypeOK, flagVars, timerVars
<1>4. Frame(c)
  BY <1>1, Rests DEF Frame, Same, HttpTypeOK, flagVars, timerVars
<1>5. ReadSide(c)' /\ WriteSide(c)' /\ LifeOK(c)'
  BY <1>1 DEF ConnOK, ReadSide, WriteSide, LifeOK, Still, flagVars, timerVars
<1>6. PacedOK(c)'
  <2> SUFFICES ASSUME setup[c].paced PROVE PacedOK(c)'
    BY <1>1 DEF PacedOK
  <2>1. /\ Cardinality(Asking(c)) \in Nat /\ Len(replies[c]) \in Nat
        /\ Cardinality(Asking(c)') = IF HasAsk(seg) THEN Cardinality(Asking(c)) + 1
                                     ELSE Cardinality(Asking(c))
    <3>1. Cardinality(Asking(c)) \in Nat
      BY <1>1, AskingIs
    <3>2. Len(replies[c]) \in Nat
      BY <1>1 DEF HttpTypeOK
    <3>3. sent'[c] = sent[c] + 1
      BY <1>1 DEF HttpTypeOK
    <3>4. Cardinality(Asking(c)') = IF HasAsk(seg) THEN Cardinality(Asking(c)) + 1
                                    ELSE Cardinality(Asking(c))
      BY <1>1, <3>3, AskingGrows DEF seg
    <3> QED
      BY <3>1, <3>2, <3>4
  <2>2. PacedOK(c) /\ ~ (Len(replies[c]) < Cardinality(Asking(c)))
    BY <1>1 DEF ConnOK, Waits
  <2>3. Cardinality(Asking(c)) = Len(replies[c])
    BY <2>1, <2>2 DEF PacedOK
  <2>4. ~ Sending(c) /\ ~ Reading(c) /\ ~ Fed(c) /\ ~ Replying(c)
    BY <2>1, <2>2, <2>3 DEF PacedOK
  <2>5. OneAsk(seg)
    <3>1. sent[c] + 1 \in 1 .. Len(setup[c].send)
      BY <1>1, <1>2, SetupIs
    <3> QED
      BY <1>1, <3>1, SetupIs DEF seg
  <2>6. OneAsk(inbox'[c]) /\ (Sending(c)' => HasAsk(seg))
    <3>1. inbox'[c] = inbox[c] \o seg
      BY <1>1 DEF HttpTypeOK
    <3> QED
      BY <1>2, <2>4, <2>5, <3>1, ItemsJoined DEF Sending
  <2>7. ~ Reading(c)' /\ ~ Fed(c)' /\ ~ Replying(c)'
    BY <1>1, <2>4 DEF Reading, Fed, Replying
  <2> QED
    BY <1>1, <2>1, <2>2, <2>3, <2>6, <2>7 DEF PacedOK
<1>7. DeadlinesOK'
  BY <1>1 DEF DeadlinesOK, KeysOK, timerVars
<1> QED
  BY <1>3, <1>4, <1>5, <1>6, <1>7, StepKeeps DEF ConnOK

LEMMA LeaveKeeps ==
  ASSUME HttpInv, NEW c \in Conn, Leave(c)
  PROVE  HttpInv'
<1>1. /\ HttpTypeOK /\ ConnOK(c) /\ DeadlinesOK
      /\ peer' \in [Conn -> {"up", "shut", "gone"}]
      /\ UNCHANGED <<setup, sent, inbox, replies, rd, wr, posted, life, open, flagVars, timerVars,
                     feed, overlap, mishap>>
  BY DEF Leave, HttpInv, HttpTypeOK, opVars
<1>2. HttpTypeOK'
  BY <1>1 DEF HttpTypeOK, flagVars, timerVars
<1>3. Frame(c)
  BY <1>1, Rests DEF Frame, Same, flagVars, timerVars
<1>4. ReadSide(c)' /\ WriteSide(c)' /\ LifeOK(c)'
  BY <1>1 DEF ConnOK, ReadSide, WriteSide, LifeOK, Still, flagVars, timerVars
<1>5. PacedOK(c)'
  BY <1>1 DEF ConnOK, PacedOK, Asking, Sending, Reading, Fed, Replying
<1>6. DeadlinesOK'
  BY <1>1 DEF DeadlinesOK, KeysOK, timerVars
<1> QED
  BY <1>2, <1>3, <1>4, <1>5, <1>6, StepKeeps DEF ConnOK

LEMMA AcceptKeeps ==
  ASSUME HttpInv, NEW c \in Conn, Accept(c)
  PROVE  HttpInv'
<1>1. /\ HttpTypeOK /\ ConnOK(c) /\ DeadlinesOK /\ life[c] = "unborn"
      /\ life' = [life EXCEPT ![c] = "accepted"] /\ posted' = Post(c, "start", TRUE, <<>>)
      /\ UNCHANGED <<setup, sent, inbox, peer, replies, rd, wr, open, flagVars, timerVars, feed,
                     overlap, mishap>>
  BY DEF Accept, HttpInv, clientVars, opVars
<1>2. /\ Moves(c) /\ posted' \in Seq(Posted)
      /\ \A k : Some(posted', c, k) <=> Some(posted, c, k) \/ k = "start"
      /\ \A k : Lone(posted, c, k) /\ ~ (Some(posted, c, k) /\ k = "start") => Lone(posted', c, k)
      /\ AskRead(posted', c) <=> AskRead(posted, c)
      /\ OneAskRead(posted, c) => OneAskRead(posted', c)
      /\ InTurn(posted, c) => InTurn(posted', c)
  <2> DEFINE none == <<>>
  <2>1. none \in Seq(Item) /\ "start" \in Kind /\ TRUE \in BOOLEAN
    BY DEF Kind
  <2>2. posted' = Post(c, "start", TRUE, none)
    BY <1>1
  <2> HIDE DEF none
  <2> QED
    BY <1>1, <2>1, <2>2, Posts
<1>3. Still(c) /\ ~ Some(posted, c, "start")
  BY <1>1 DEF ConnOK, LifeOK
<1>4. life'[c] = "accepted"
  BY <1>1 DEF HttpTypeOK
<1>5. HttpTypeOK'
  BY <1>1, <1>2 DEF HttpTypeOK, flagVars, timerVars
<1>6. Frame(c)
  BY <1>1, <1>2 DEF Frame, Same, HttpTypeOK, flagVars, timerVars
<1>7. ReadSide(c)' /\ WriteSide(c)'
  BY <1>1, <1>2 DEF ConnOK, ReadSide, WriteSide, flagVars
<1>8. LifeOK(c)'
  BY <1>1, <1>2, <1>3, <1>4 DEF ConnOK, LifeOK, Still, flagVars, timerVars
<1>9. PacedOK(c)'
  <2>1. Asking(c)' = Asking(c)
    BY <1>1 DEF Asking
  <2> QED
    BY <1>1, <1>2, <2>1 DEF ConnOK, PacedOK, Sending, Reading, Fed, Replying
<1>10. DeadlinesOK'
  BY <1>1 DEF DeadlinesOK, KeysOK, timerVars
<1> QED
  BY <1>5, <1>6, <1>7, <1>8, <1>9, <1>10, StepKeeps DEF ConnOK

LEMMA ReadCompletesKeeps ==
  ASSUME HttpInv, NEW c \in Conn, ReadCompletes(c)
  PROVE  HttpInv'
<1>1. /\ HttpTypeOK /\ ConnOK(c) /\ DeadlinesOK /\ rd[c] /\ rd' = [rd EXCEPT ![c] = FALSE]
      /\ UNCHANGED <<setup, sent, peer, replies, wr, life, open, flagVars, timerVars, feed, overlap,
                     mishap>>
  BY DEF ReadCompletes, HttpInv
<1>2. inbox[c] \in Seq(Item) /\ rd'[c] = FALSE /\ \A d \in Conn \ {c} : rd'[d] = rd[d]
  BY <1>1 DEF HttpTypeOK
<1>3. PICK items \in Seq(Item), ok \in BOOLEAN, rest \in Seq(Item) :
        /\ posted' = Post(c, "read", ok, items)
        /\ inbox'[c] = rest /\ inbox' \in [Conn -> Seq(Item)]
        /\ \A d \in Conn \ {c} : inbox'[d] = inbox[d]
        /\ HasAsk(items) \/ HasAsk(rest) => HasAsk(inbox[c])
        /\ OneAsk(inbox[c]) => OneAsk(items) /\ OneAsk(rest) /\ ~ (HasAsk(items) /\ HasAsk(rest))
  <2>1. CASE \E n \in 1 .. Len(inbox[c]) :
               /\ posted' = Post(c, "read", TRUE, SubSeq(inbox[c], 1, n))
               /\ inbox' = [inbox EXCEPT ![c] = SubSeq(@, n + 1, Len(@))]
    <3>1. PICK n \in 1 .. Len(inbox[c]) :
            /\ posted' = Post(c, "read", TRUE, SubSeq(inbox[c], 1, n))
            /\ inbox' = [inbox EXCEPT ![c] = SubSeq(@, n + 1, Len(@))]
      BY <2>1
    <3> DEFINE a == SubSeq(inbox[c], 1, n)
               b == SubSeq(inbox[c], n + 1, Len(inbox[c]))
    <3>2. /\ a \in Seq(Item) /\ b \in Seq(Item)
          /\ HasAsk(a) \/ HasAsk(b) => HasAsk(inbox[c])
          /\ OneAsk(inbox[c]) => OneAsk(a) /\ OneAsk(b) /\ ~ (HasAsk(a) /\ HasAsk(b))
      <4>1. n \in 0 .. Len(inbox[c])
        BY <1>2
      <4> QED
        BY <1>2, <4>1, ItemsSplit
    <3>3. posted' = Post(c, "read", TRUE, a) /\ inbox' = [inbox EXCEPT ![c] = b]
      BY <3>1
    <3> HIDE DEF a, b
    <3>4. /\ inbox'[c] = b /\ inbox' \in [Conn -> Seq(Item)]
          /\ \A d \in Conn \ {c} : inbox'[d] = inbox[d]
      BY <1>1, <3>2, <3>3 DEF HttpTypeOK
    <3> QED
      BY <3>2, <3>3, <3>4
  <2>2. CASE posted' = Post(c, "read", FALSE, <<>>) /\ UNCHANGED inbox
    <3> DEFINE none == <<>>
    <3>1. none \in Seq(Item) /\ ~ HasAsk(none) /\ OneAsk(none)
      BY NoneIsQuiet
    <3>2. posted' = Post(c, "read", FALSE, none) /\ inbox' = inbox
      BY <2>2
    <3> HIDE DEF none
    <3>3. inbox' \in [Conn -> Seq(Item)]
      BY <1>1, <3>2 DEF HttpTypeOK
    <3> QED
      BY <1>2, <3>1, <3>2, <3>3
  <2> QED
    BY <2>1, <2>2 DEF ReadCompletes
<1>4. /\ Moves(c) /\ posted' \in Seq(Posted)
      /\ \A k : Some(posted', c, k) <=> Some(posted, c, k) \/ k = "read"
      /\ \A k : Lone(posted, c, k) /\ ~ (Some(posted, c, k) /\ k = "read") => Lone(posted', c, k)
      /\ AskRead(posted', c) <=> AskRead(posted, c) \/ HasAsk(items)
      /\ OneAskRead(posted, c) /\ OneAsk(items) => OneAskRead(posted', c)
      /\ InTurn(posted, c) => InTurn(posted', c)
  <2>1. "read" \in Kind
    BY DEF Kind
  <2> QED
    BY <1>1, <1>3, <2>1, Posts
<1>5. is_reading[c] /\ ~ Some(posted, c, "start") /\ life[c] = "accepted"
  BY <1>1, Reads
<1>6. HttpTypeOK'
  BY <1>1, <1>3, <1>4 DEF HttpTypeOK, flagVars, timerVars
<1>7. Frame(c)
  BY <1>1, <1>2, <1>3, <1>4 DEF Frame, Same, flagVars, timerVars
<1>8. ReadSide(c)' /\ WriteSide(c)'
  BY <1>1, <1>2, <1>4 DEF ConnOK, ReadSide, WriteSide, flagVars
<1>9. LifeOK(c)'
  BY <1>1, <1>4, <1>5 DEF ConnOK, LifeOK, flagVars
<1>10. PacedOK(c)'
  <2>1. Asking(c)' = Asking(c)
    BY <1>1 DEF Asking
  <2>2. ASSUME PacedOK(c), setup[c].paced PROVE PacedOK(c)'
    <3>1. OneAsk(inbox[c])
      BY <2>2 DEF PacedOK
    <3>2. /\ Sending(c)' <=> HasAsk(rest)
          /\ Reading(c)' <=> Reading(c) \/ HasAsk(items)
          /\ Fed(c)' <=> Fed(c)
          /\ Replying(c)' <=> Replying(c)
          /\ HasAsk(items) \/ HasAsk(rest) => Sending(c)
          /\ ~ (HasAsk(items) /\ HasAsk(rest))
      BY <1>1, <1>3, <1>4, <3>1 DEF Sending, Reading, Fed, Replying
    <3> QED
      BY <1>1, <1>3, <1>4, <2>1, <2>2, <3>1, <3>2 DEF PacedOK
  <2> QED
    BY <1>1, <2>2 DEF ConnOK, PacedOK
<1>11. DeadlinesOK'
  BY <1>1, <1>2 DEF DeadlinesOK, KeysOK, timerVars
<1> QED
  BY <1>6, <1>7, <1>8, <1>9, <1>10, <1>11, StepKeeps DEF ConnOK

LEMMA WriteCompletesKeeps ==
  ASSUME HttpInv, NEW c \in Conn, WriteCompletes(c)
  PROVE  HttpInv'
<1>1. /\ HttpTypeOK /\ ConnOK(c) /\ DeadlinesOK /\ wr[c] # <<>>
      /\ wr' = [wr EXCEPT ![c] = Tail(@)]
      /\ posted' = Post(c, "write", peer[c] # "gone", <<>>)
      /\ replies' = IF peer[c] = "gone" THEN replies
                    ELSE [replies EXCEPT ![c] = Append(@, Head(wr[c]))]
      /\ UNCHANGED <<setup, sent, inbox, peer, rd, life, open, flagVars, timerVars, feed, overlap,
                     mishap>>
  BY DEF WriteCompletes, HttpInv
<1>2. /\ wr[c] \in Seq(Said) /\ Tail(wr[c]) \in Seq(Said) /\ Head(wr[c]) \in Said
      /\ Len(wr[c]) = 1 => Tail(wr[c]) = <<>>
  <2>1. wr[c] \in Seq(Said) /\ wr[c] # <<>>
    BY <1>1 DEF HttpTypeOK
  <2> DEFINE t == Tail(wr[c])
  <2>2. t \in Seq(Said) /\ Head(wr[c]) \in Said /\ Len(t) = Len(wr[c]) - 1
    BY <2>1
  <2> HIDE DEF t
  <2>3. Len(t) = 0 => t = <<>>
    BY <2>2
  <2>4. Len(wr[c]) = 1 => Len(t) = 0
    BY <2>2
  <2> QED
    BY <2>1, <2>2, <2>3, <2>4 DEF t
<1>3. /\ wr' \in [Conn -> Seq(Said)] /\ wr'[c] = Tail(wr[c])
      /\ \A d \in Conn \ {c} : wr'[d] = wr[d]
  BY <1>1, <1>2 DEF HttpTypeOK
<1>4. /\ replies' \in [Conn -> Seq(Said)] /\ \A d \in Conn \ {c} : replies'[d] = replies[d]
      /\ Len(replies[c]) \in Nat
      /\ Len(replies'[c]) \in {Len(replies[c]), Len(replies[c]) + 1}
  BY <1>1, <1>2 DEF HttpTypeOK
<1>5. /\ Moves(c) /\ posted' \in Seq(Posted)
      /\ \A k : Some(posted', c, k) <=> Some(posted, c, k) \/ k = "write"
      /\ \A k : Lone(posted, c, k) /\ ~ (Some(posted, c, k) /\ k = "write") => Lone(posted', c, k)
      /\ AskRead(posted', c) <=> AskRead(posted, c)
      /\ OneAskRead(posted, c) => OneAskRead(posted', c)
      /\ InTurn(posted, c) /\ ~ AskRead(posted, c) => InTurn(posted', c)
  <2> DEFINE none == <<>>
             ok == peer[c] # "gone"
  <2>1. none \in Seq(Item) /\ "write" \in Kind /\ ok \in BOOLEAN
    BY DEF Kind
  <2>2. posted' = Post(c, "write", ok, none)
    BY <1>1
  <2> HIDE DEF none, ok
  <2> QED
    BY <1>1, <2>1, <2>2, Posts
<1>6. Some(posted, c, "start") => Still(c) /\ ~ overlap[c] /\ ~ is_writing[c]
  BY <1>1 DEF ConnOK, LifeOK, Still
<1>7. HttpTypeOK'
  BY <1>1, <1>3, <1>4, <1>5 DEF HttpTypeOK, flagVars, timerVars
<1>8. Frame(c)
  BY <1>1, <1>3, <1>4, <1>5 DEF Frame, Same, flagVars, timerVars
<1>9. ReadSide(c)'
  BY <1>1, <1>5 DEF ConnOK, ReadSide, flagVars
<1>10. WriteSide(c)'
  BY <1>1, <1>2, <1>3, <1>5 DEF ConnOK, WriteSide, flagVars
<1>11. LifeOK(c)'
  BY <1>1, <1>5 DEF ConnOK, LifeOK, Still, flagVars, timerVars
<1>12. PacedOK(c)'
  <2>1. Asking(c)' = Asking(c) /\ Cardinality(Asking(c)) \in Nat
    BY <1>1, AskingIs DEF Asking
  <2>2. ASSUME PacedOK(c), setup[c].paced PROVE PacedOK(c)'
    <3>1. Replying(c) /\ ~ overlap[c]
      BY <1>1, <2>2 DEF Replying, PacedOK
    <3>2. /\ ~ Sending(c) /\ ~ Reading(c) /\ ~ Fed(c)
          /\ Cardinality(Asking(c)) = Len(replies[c]) + 1
      BY <2>2, <3>1 DEF PacedOK
    <3>3. wr'[c] = <<>>
      BY <1>1, <1>2, <1>3, <3>1 DEF ConnOK, WriteSide
    <3>4. ~ Sending(c)' /\ ~ Reading(c)' /\ ~ Fed(c)' /\ ~ Replying(c)'
      BY <1>1, <1>5, <3>2, <3>3 DEF Sending, Reading, Fed, Replying
    <3>5. /\ Len(replies'[c]) <= Cardinality(Asking(c))
          /\ Cardinality(Asking(c)) <= Len(replies'[c]) + 1
      BY <1>4, <2>1, <3>2
    <3> QED
      BY <1>1, <1>5, <2>1, <2>2, <3>1, <3>2, <3>4, <3>5 DEF PacedOK, Reading
  <2> QED
    BY <1>1, <2>2 DEF ConnOK, PacedOK
<1>13. DeadlinesOK'
  BY <1>1 DEF DeadlinesOK, KeysOK, timerVars
<1> QED
  BY <1>7, <1>8, <1>9, <1>10, <1>11, <1>12, <1>13, StepKeeps DEF ConnOK

-----------------------------------------------------------------------------
(* What closing adds to the completions that are left.                     *)
Left(rest, c) == rest = posted \/ (posted # <<>> /\ Head(posted).conn = c /\ rest = Tail(posted))

LEMMA ClosePosts ==
  ASSUME HttpTypeOK, NEW c \in Conn, NEW rest, Left(rest, c), posted' = rest \o Aborted(c)
  PROVE  /\ Moves(c) /\ posted' \in Seq(Posted)
         /\ Some(posted', c, "read") <=> Some(rest, c, "read") \/ rd[c]
         /\ Some(posted', c, "write") <=> Some(rest, c, "write") \/ wr[c] # <<>>
         /\ Some(posted', c, "start") <=> Some(rest, c, "start")
         /\ Lone(rest, c, "start") => Lone(posted', c, "start")
         /\ Lone(rest, c, "read") /\ ~ (Some(rest, c, "read") /\ rd[c]) => Lone(posted', c, "read")
         /\ /\ Lone(rest, c, "write")
            /\ wr[c] # <<>> => Len(wr[c]) = 1 /\ ~ Some(rest, c, "write")
            => Lone(posted', c, "write")
         /\ AskRead(posted', c) <=> AskRead(rest, c)
         /\ OneAskRead(rest, c) => OneAskRead(posted', c)
         /\ InTurn(rest, c) /\ ~ (AskRead(rest, c) /\ wr[c] # <<>>) => InTurn(posted', c)
<1> DEFINE q == Aborted(c)
<1>1. /\ q \in Seq(Posted) /\ Owns(q, c)
      /\ Some(q, c, "read") <=> rd[c]
      /\ Some(q, c, "write") <=> wr[c] # <<>>
      /\ ~ Some(q, c, "start") /\ ~ AskRead(q, c)
      /\ Lone(q, c, "read") /\ Lone(q, c, "start") /\ OneAskRead(q, c) /\ InTurn(q, c)
      /\ Len(wr[c]) = 1 \/ wr[c] = <<>> => Lone(q, c, "write")
  BY AbortedIs
<1>2. posted \in Seq(Posted) /\ posted' = rest \o q
  BY DEF HttpTypeOK
<1> HIDE DEF q
<1>3. rest \in Seq(Posted)
  <2>1. posted # <<>> => Tail(posted) \in Seq(Posted)
    BY <1>2
  <2> QED
    BY <1>2, <2>1 DEF Left
<1>4. Moves(c)
  BY <1>1, <1>2 DEF Moves, Left
<1>5. \A k : /\ Some(posted', c, k) <=> Some(rest, c, k) \/ Some(q, c, k)
             /\ Lone(rest, c, k) /\ Lone(q, c, k) /\ ~ (Some(rest, c, k) /\ Some(q, c, k))
                  => Lone(posted', c, k)
  BY <1>1, <1>2, <1>3, Joined
<1>6. /\ posted' \in Seq(Posted)
      /\ AskRead(posted', c) <=> AskRead(rest, c) \/ AskRead(q, c)
      /\ OneAskRead(rest, c) /\ OneAskRead(q, c) => OneAskRead(posted', c)
      /\ InTurn(rest, c) /\ InTurn(q, c) /\ ~ (AskRead(rest, c) /\ Some(q, c, "write"))
           => InTurn(posted', c)
  BY <1>1, <1>2, <1>3, Joined
<1> QED
  BY <1>1, <1>4, <1>5, <1>6

(* A socket that is closed while nothing is fed has nothing outstanding.   *)
LEMMA CloseIs ==
  ASSUME HttpTypeOK, NEW c \in Conn, Close(c)
  PROVE  /\ open' \in [Conn -> BOOLEAN] /\ rd' \in [Conn -> BOOLEAN] /\ wr' \in [Conn -> Seq(Said)]
         /\ ~ open'[c] /\ ~ rd'[c] /\ wr'[c] = <<>>
         /\ \A d \in Conn \ {c} : open'[d] = open[d] /\ rd'[d] = rd[d] /\ wr'[d] = wr[d]
<1> DEFINE none == <<>>
<1>1. none \in Seq(Said)
  OBVIOUS
<1>2. /\ open' = [open EXCEPT ![c] = FALSE] /\ rd' = [rd EXCEPT ![c] = FALSE]
      /\ wr' = [wr EXCEPT ![c] = none]
  BY DEF Close
<1> HIDE DEF none
<1>3. wr' \in [Conn -> Seq(Said)] /\ wr'[c] = none /\ \A d \in Conn \ {c} : wr'[d] = wr[d]
  BY <1>1, <1>2 DEF HttpTypeOK
<1>4. /\ open' \in [Conn -> BOOLEAN] /\ rd' \in [Conn -> BOOLEAN] /\ ~ open'[c] /\ ~ rd'[c]
      /\ \A d \in Conn \ {c} : open'[d] = open[d] /\ rd'[d] = rd[d]
  BY <1>2 DEF HttpTypeOK
<1> QED
  BY <1>3, <1>4 DEF none

LEMMA ProcessKeeps ==
  ASSUME HttpInv, Process
  PROVE  HttpInv'
<1> DEFINE h == Head(dq)
<1>1. /\ HttpTypeOK /\ (\A d \in Conn : ConnOK(d)) /\ KeysOK /\ DeadlinesOK /\ MishapOK
      /\ Idle /\ dq # <<>> /\ dq' = Tail(dq) /\ step' = step + 1
      /\ UNCHANGED <<setup, sent, inbox, peer, replies, life, flagVars, key, feed, overlap>>
  BY DEF Process, HttpInv, DeadlinesOK, clientVars
<1>2. /\ dq' \in Seq(Conn \cup {NoConn}) /\ step' \in Nat /\ KeysOK'
      /\ h \in Conn \cup {NoConn} /\ \A d \in Conn : h = d <=> key[d] = step
  <2>1. key' = key
    BY <1>1
  <2> QED
    BY <1>1, <2>1, PopKeeps
<1> HIDE DEF h
<1>3. step \in Nat /\ \A d \in Conn : key[d] \in Int /\ (key[d] = step => key[d] # NoKey)
  BY <1>1 DEF HttpTypeOK, NoKey
<1>4. \A d \in Conn : rd[d] /\ h # d => step' <= key'[d]
  BY <1>1, <1>2, <1>3 DEF DeadlinesOK
<1>5. CASE UNCHANGED <<rd, wr, posted, open, mishap>> /\ \A d \in Conn : rd[d] => h # d
  <2>1. HttpTypeOK'
    BY <1>1, <1>2, <1>5 DEF HttpTypeOK, flagVars
  <2>2. DeadlinesOK'
    BY <1>2, <1>4, <1>5 DEF DeadlinesOK
  <2>3. ASSUME NEW d \in Conn PROVE ConnOK(d)'
    <3>1. ReadSide(d)' /\ WriteSide(d)' /\ LifeOK(d)'
      BY <1>1, <1>5 DEF ConnOK, ReadSide, WriteSide, LifeOK, Still, flagVars
    <3>2. PacedOK(d)'
      BY <1>1, <1>5 DEF ConnOK, PacedOK, Asking, Sending, Reading, Fed, Replying
    <3> QED
      BY <3>1, <3>2 DEF ConnOK
  <2>4. MishapOK'
    BY <1>1, <1>5 DEF MishapOK
  <2> QED
    BY <2>1, <2>2, <2>3, <2>4 DEF HttpInv
<1>6. CASE /\ h \in Conn /\ open[h] /\ Close(h) /\ posted' = posted \o Aborted(h)
           /\ UNCHANGED mishap
  <2>0. PICK c \in Conn : c = h
    BY <1>6
  <2>1. c \in Conn /\ ConnOK(c) /\ key[c] # NoKey /\ life[c] # "deleted"
    BY <1>1, <1>2, <1>3, <2>0 DEF ConnOK, LifeOK
  <2>2. ~ Some(posted, c, "start") /\ life[c] = "accepted"
    BY <1>1, <2>1 DEF ConnOK, LifeOK, Still, HttpTypeOK
  <2>3. Left(posted, c)
    BY DEF Left
  <2>4. Close(c) /\ posted' = posted \o Aborted(c)
    BY <1>6, <2>0
  <2>5. /\ open' \in [Conn -> BOOLEAN] /\ rd' \in [Conn -> BOOLEAN] /\ wr' \in [Conn -> Seq(Said)]
        /\ ~ open'[c] /\ ~ rd'[c] /\ wr'[c] = <<>>
        /\ \A d \in Conn \ {c} : open'[d] = open[d] /\ rd'[d] = rd[d] /\ wr'[d] = wr[d]
    BY <1>1, <2>1, <2>4, CloseIs
  <2>6. /\ Moves(c) /\ posted' \in Seq(Posted)
        /\ Some(posted', c, "read") <=> Some(posted, c, "read") \/ rd[c]
        /\ Some(posted', c, "write") <=> Some(posted, c, "write") \/ wr[c] # <<>>
        /\ ~ Some(posted', c, "start") /\ Lone(posted', c, "start")
    BY <1>1, <2>1, <2>2, <2>3, <2>4, ClosePosts DEF ConnOK, LifeOK
  <2>7. HttpTypeOK'
    BY <1>1, <1>2, <1>6, <2>5, <2>6 DEF HttpTypeOK, flagVars
  <2>8. Frame(c)
    BY <1>1, <1>6, <2>5, <2>6 DEF Frame, Same, flagVars
  <2>9. feed.conn # c
    BY <1>1, <2>1, HttpAssumption DEF Idle, NoFeed
  <2>10. ReadSide(c)'
    <3>1. Lone(posted', c, "read")
      BY <1>1, <2>1, <2>3, <2>4, ClosePosts DEF ConnOK, ReadSide
    <3> QED
      BY <1>1, <2>1, <2>5, <2>6, <2>9, <3>1 DEF ConnOK, ReadSide, flagVars
  <2>11. WriteSide(c)'
    <3>1. ~ overlap[c] => Lone(posted', c, "write")
      BY <1>1, <2>1, <2>3, <2>4, ClosePosts DEF ConnOK, WriteSide
    <3> QED
      BY <1>1, <2>1, <2>5, <2>6, <3>1 DEF ConnOK, WriteSide, flagVars
  <2>12. LifeOK(c)'
    BY <1>1, <2>2, <2>6 DEF LifeOK
  <2>13. PacedOK(c)'
    <3> SUFFICES ASSUME setup[c].paced PROVE PacedOK(c)'
      BY <1>1 DEF PacedOK
    <3>1. PacedOK(c) /\ ~ (AskRead(posted, c) /\ wr[c] # <<>>)
      BY <2>1 DEF ConnOK, PacedOK, Reading, Replying
    <3>2. /\ AskRead(posted', c) <=> AskRead(posted, c)
          /\ OneAskRead(posted', c) /\ InTurn(posted', c)
      BY <1>1, <2>1, <2>3, <2>4, <3>1, ClosePosts DEF PacedOK
    <3>3. Asking(c)' = Asking(c)
      BY <1>1 DEF Asking
    <3>4. ~ Fed(c)' /\ ~ Replying(c)' /\ (Sending(c)' <=> Sending(c)) /\ (Reading(c)' <=> Reading(c))
      BY <1>1, <2>5, <2>9, <3>2 DEF Fed, Replying, Sending, Reading
    <3> QED
      BY <1>1, <2>9, <3>1, <3>2, <3>3, <3>4 DEF PacedOK
  <2>14. DeadlinesOK'
    BY <1>2, <1>4, <2>0, <2>5 DEF DeadlinesOK
  <2> QED
    BY <2>1, <2>7, <2>8, <2>10, <2>11, <2>12, <2>13, <2>14, StepKeeps DEF ConnOK
<1>7. ASSUME h \in Conn PROVE life[h] # "deleted" /\ (~ open[h] => ~ rd[h])
  BY <1>1, <1>2, <1>3, <1>7 DEF ConnOK, LifeOK, ReadSide
<1>8. \/ UNCHANGED <<rd, wr, posted, open, mishap>> /\ (h \in Conn => ~ open[h])
      \/ /\ h \in Conn /\ open[h] /\ Close(h) /\ posted' = posted \o Aborted(h)
         /\ UNCHANGED mishap
  BY <1>2, <1>7, HttpAssumption DEF Process, h, opVars
<1> QED
  BY <1>5, <1>6, <1>7, <1>8

-----------------------------------------------------------------------------
(* The io thread handles a completion.                                     *)

LEMMA VanishedKeeps ==
  ASSUME HttpInv, Vanished
  PROVE  HttpInv'
<1>1. /\ HttpTypeOK /\ (\A d \in Conn : ConnOK(d)) /\ DeadlinesOK
      /\ posted # <<>> /\ life[Head(posted).conn] = "deleted" /\ mishap' = "freed"
      /\ UNCHANGED <<setup, sent, inbox, peer, replies, rd, wr, posted, life, open, flagVars,
                     timerVars, feed, overlap>>
  BY DEF Vanished, HttpInv, clientVars, opVars
<1>2. Head(posted) \in Posted /\ posted[1] = Head(posted) /\ 1 \in 1 .. Len(posted)
  BY <1>1 DEF HttpTypeOK
<1>3. PICK c \in Conn, kind \in Kind : Is(Head(posted), c, kind) /\ life[c] = "deleted"
  BY <1>1, <1>2 DEF Posted, Is
<1>4. ConnOK(c) /\ Some(posted, c, kind)
  BY <1>1, <1>2, <1>3 DEF Some
<1>5. ~ is_reading[c] /\ (overlap[c] \/ ~ is_writing[c])
  BY <1>3, <1>4 DEF ConnOK, LifeOK
<1>6. kind = "write"
  BY <1>3, <1>4, <1>5 DEF ConnOK, LifeOK, ReadSide, Kind
<1>7. overlap[c]
  BY <1>4, <1>5, <1>6 DEF ConnOK, WriteSide
<1>8. MishapOK'
  BY <1>1, <1>3, <1>7 DEF MishapOK
<1>9. HttpTypeOK'
  BY <1>1 DEF HttpTypeOK, flagVars, timerVars
<1>10. ASSUME NEW d \in Conn PROVE ConnOK(d)'
  <2>1. ReadSide(d)' /\ WriteSide(d)' /\ LifeOK(d)'
    BY <1>1 DEF ConnOK, ReadSide, WriteSide, LifeOK, Still, flagVars, timerVars
  <2>2. PacedOK(d)'
    <3>1. /\ Asking(d)' = Asking(d) /\ (Sending(d)' <=> Sending(d)) /\ (Reading(d)' <=> Reading(d))
          /\ (Fed(d)' <=> Fed(d)) /\ (Replying(d)' <=> Replying(d))
      BY <1>1 DEF Asking, Sending, Reading, Fed, Replying
    <3> QED
      BY <1>1, <3>1 DEF ConnOK, PacedOK
  <2> QED
    BY <2>1, <2>2 DEF ConnOK
<1>11. DeadlinesOK'
  BY <1>1 DEF DeadlinesOK, KeysOK, timerVars
<1> QED
  BY <1>8, <1>9, <1>10, <1>11 DEF HttpInv

(* What is left when the first completion, one of c's, is handled.         *)
LEMMA TakenIs ==
  ASSUME HttpTypeOK, NEW c \in Conn, NEW kind, NEW ok, Handles(c, kind, ok)
  PROVE  /\ posted # <<>> /\ Head(posted).conn = c /\ Left(Tail(posted), c)
         /\ Tail(posted) \in Seq(Posted) /\ Head(posted).items \in Seq(Item)
         /\ feed = NoFeed /\ feed.conn # c /\ life[c] = "accepted"
         /\ Some(posted, c, kind)
         /\ Lone(posted, c, kind) => Lone(Tail(posted), c, kind) /\ ~ Some(Tail(posted), c, kind)
         /\ \A k : k # kind => /\ Some(Tail(posted), c, k) <=> Some(posted, c, k)
                               /\ Lone(posted, c, k) => Lone(Tail(posted), c, k)
         /\ AskRead(posted, c) <=> (kind = "read" /\ HasAsk(Head(posted).items)) \/ AskRead(Tail(posted), c)
         /\ OneAskRead(posted, c) =>
              OneAskRead(Tail(posted), c) /\ (kind = "read" => OneAsk(Head(posted).items))
         /\ InTurn(posted, c) =>
              /\ InTurn(Tail(posted), c)
              /\ kind = "read" /\ HasAsk(Head(posted).items) => ~ Some(Tail(posted), c, "write")
<1>1. /\ posted \in Seq(Posted) /\ posted # <<>> /\ Head(posted).conn = c /\ Head(posted).kind = kind
      /\ feed = NoFeed /\ life[c] = "accepted"
  BY DEF Handles, Idle, HttpTypeOK
<1>2. Left(Tail(posted), c) /\ feed.conn # c
  BY <1>1, HttpAssumption DEF Left, NoFeed
<1>3. /\ \A k : Is(Head(posted), c, k) <=> k = kind
      /\ Brings(Head(posted), c) <=> kind = "read" /\ HasAsk(Head(posted).items)
  BY <1>1 DEF Is, Brings
<1>4. \A k : /\ Some(posted, c, k) <=> Is(Head(posted), c, k) \/ Some(Tail(posted), c, k)
             /\ Lone(posted, c, k) =>
                  Lone(Tail(posted), c, k) /\ ~ (Is(Head(posted), c, k) /\ Some(Tail(posted), c, k))
  BY <1>1, Handled
<1>5. /\ Head(posted) \in Posted /\ Tail(posted) \in Seq(Posted)
      /\ AskRead(posted, c) <=> Brings(Head(posted), c) \/ AskRead(Tail(posted), c)
      /\ OneAskRead(posted, c) =>
           OneAskRead(Tail(posted), c) /\ (Is(Head(posted), c, "read") => OneAsk(Head(posted).items))
      /\ InTurn(posted, c) =>
           InTurn(Tail(posted), c) /\ (Brings(Head(posted), c) => ~ Some(Tail(posted), c, "write"))
  BY <1>1, Handled
<1>6. Head(posted).items \in Seq(Item)
  BY <1>5 DEF Posted
<1> QED
  BY <1>1, <1>2, <1>3, <1>4, <1>5, <1>6

LEMMA StartKeeps ==
  ASSUME HttpInv, NEW c \in Conn, Start(c)
  PROVE  HttpInv'
<1>1. /\ HttpTypeOK /\ ConnOK(c) /\ KeysOK /\ DeadlinesOK /\ Handles(c, "start", TRUE)
      /\ posted' = Tail(posted) /\ StartDeadline(c)
      /\ rd' = [rd EXCEPT ![c] = TRUE] /\ is_reading' = [is_reading EXCEPT ![c] = TRUE]
      /\ UNCHANGED <<setup, sent, inbox, peer, replies, wr, life, open, is_writing,
                     close_connection, completed, feed, overlap, mishap>>
  BY DEF Start, HttpInv, DeadlinesOK, clientVars
<1>2. /\ Moves(c) /\ posted' \in Seq(Posted) /\ feed.conn # c /\ life[c] = "accepted"
      /\ Some(posted, c, "start") /\ (Lone(posted, c, "start") => ~ Some(posted', c, "start"))
      /\ \A k : k # "start" => /\ Some(posted', c, k) <=> Some(posted, c, k)
                               /\ Lone(posted, c, k) => Lone(posted', c, k)
      /\ AskRead(posted', c) <=> AskRead(posted, c)
      /\ OneAskRead(posted, c) => OneAskRead(posted', c)
      /\ InTurn(posted, c) => InTurn(posted', c)
      /\ Lone(posted, c, "start") => Lone(posted', c, "start")
  <2>1. Lone(posted, c, "start") => Lone(posted', c, "start") /\ ~ Some(posted', c, "start")
    BY <1>1, TakenIs
  <2>2. \A k : k # "start" => /\ Some(posted', c, k) <=> Some(posted, c, k)
                              /\ Lone(posted, c, k) => Lone(posted', c, k)
    BY <1>1, TakenIs
  <2>3. AskRead(posted, c) <=> ("start" = "read" /\ HasAsk(Head(posted).items)) \/ AskRead(posted', c)
    BY <1>1, TakenIs
  <2>4. (OneAskRead(posted, c) => OneAskRead(posted', c)) /\ (InTurn(posted, c) => InTurn(posted', c))
    BY <1>1, TakenIs
  <2>5. /\ posted # <<>> /\ Head(posted).conn = c /\ posted' \in Seq(Posted) /\ feed.conn # c
        /\ life[c] = "accepted" /\ Some(posted, c, "start")
    BY <1>1, TakenIs
  <2>6. Moves(c)
    BY <1>1, <2>5, Rests
  <2> QED
    BY <2>1, <2>2, <2>3, <2>4, <2>5, <2>6
<1>3. /\ dq' \in Seq(Conn \cup {NoConn}) /\ step' = step /\ key' \in [Conn -> Nat \cup {NoKey}]
      /\ KeysOK' /\ step <= key'[c] /\ \A d \in Conn \ {c} : key'[d] = key[d]
  BY <1>1, DeadlineKeeps
<1>4. /\ rd' \in [Conn -> BOOLEAN] /\ is_reading' \in [Conn -> BOOLEAN]
      /\ rd'[c] /\ is_reading'[c]
      /\ \A d \in Conn \ {c} : rd'[d] = rd[d] /\ is_reading'[d] = is_reading[d]
  BY <1>1 DEF HttpTypeOK
<1>5. ~ is_reading[c] /\ ~ is_writing[c] /\ ~ overlap[c] /\ open[c] /\ ~ Some(posted', c, "start")
  BY <1>1, <1>2 DEF ConnOK, LifeOK, Still
<1>6. ~ rd[c] /\ ~ Some(posted, c, "read")
  BY <1>1, <1>5 DEF ConnOK, ReadSide
<1>7. HttpTypeOK'
  BY <1>1, <1>2, <1>3, <1>4 DEF HttpTypeOK
<1>8. Frame(c)
  BY <1>1, <1>2, <1>3, <1>4 DEF Frame, Same
<1>9. ReadSide(c)'
  BY <1>1, <1>2, <1>4, <1>5, <1>6 DEF ConnOK, ReadSide
<1>10. WriteSide(c)'
  BY <1>1, <1>2 DEF ConnOK, WriteSide
<1>11. LifeOK(c)'
  BY <1>1, <1>2, <1>5 DEF ConnOK, LifeOK
<1>12. PacedOK(c)'
  <2>1. Asking(c)' = Asking(c)
    BY <1>1 DEF Asking
  <2> QED
    BY <1>1, <1>2, <2>1 DEF ConnOK, PacedOK, Sending, Reading, Fed, Replying
<1>13. DeadlinesOK'
  BY <1>1, <1>3, <1>4 DEF DeadlinesOK
<1> QED
  BY <1>7, <1>8, <1>9, <1>10, <1>11, <1>12, <1>13, StepKeeps DEF ConnOK

LEMMA FeedBeginsKeeps ==
  ASSUME HttpInv, NEW c \in Conn, FeedBegins(c)
  PROVE  HttpInv'
<1> DEFINE got == Head(posted).items
<1>1. /\ HttpTypeOK /\ ConnOK(c) /\ DeadlinesOK /\ Handles(c, "read", TRUE)
      /\ posted' = Tail(posted) /\ feed' = [conn |-> c, left |-> got]
      /\ UNCHANGED <<setup, sent, inbox, peer, replies, rd, wr, life, open, flagVars, timerVars,
                     overlap, mishap>>
  BY DEF FeedBegins, HttpInv, clientVars, opVars
<1>2. /\ Moves(c) /\ posted' \in Seq(Posted) /\ got \in Seq(Item)
      /\ feed = NoFeed /\ feed.conn # c /\ life[c] = "accepted"
      /\ Some(posted, c, "read")
      /\ Lone(posted, c, "read") => Lone(posted', c, "read") /\ ~ Some(posted', c, "read")
      /\ \A k : k # "read" => /\ Some(posted', c, k) <=> Some(posted, c, k)
                              /\ Lone(posted, c, k) => Lone(posted', c, k)
      /\ AskRead(posted, c) <=> HasAsk(got) \/ AskRead(posted', c)
      /\ OneAskRead(posted, c) => OneAskRead(posted', c) /\ OneAsk(got)
      /\ InTurn(posted, c) => InTurn(posted', c) /\ (HasAsk(got) => ~ Some(posted', c, "write"))
  BY <1>1, TakenIs, Rests
<1> HIDE DEF got
<1>3. /\ feed' \in [conn : Conn \cup {NoConn}, left : Seq(Item)] /\ feed'.conn = c
      /\ feed'.left = got /\ feed'.conn # NoConn
  BY <1>1, <1>2, HttpAssumption
<1>4. ~ rd[c] /\ is_reading[c] /\ ~ Some(posted', c, "read") /\ Lone(posted', c, "read")
  BY <1>1, <1>2 DEF ConnOK, ReadSide
<1>5. HttpTypeOK'
  BY <1>1, <1>2, <1>3 DEF HttpTypeOK, flagVars, timerVars
<1>6. Frame(c)
  BY <1>1, <1>2, <1>3 DEF Frame, Same, flagVars, timerVars, NoFeed
<1>7. ReadSide(c)'
  BY <1>1, <1>3, <1>4 DEF ConnOK, ReadSide, flagVars
<1>8. WriteSide(c)'
  BY <1>1, <1>2 DEF ConnOK, WriteSide, flagVars
<1>9. LifeOK(c)'
  BY <1>1, <1>2 DEF ConnOK, LifeOK, Still, flagVars, timerVars
<1>10. PacedOK(c)'
  <2> SUFFICES ASSUME setup[c].paced PROVE PacedOK(c)'
    BY <1>1 DEF PacedOK
  <2>1. Asking(c)' = Asking(c)
    BY <1>1 DEF Asking
  <2>2. PacedOK(c)
    BY <1>1 DEF ConnOK
  <2>3. ~ Reading(c)'
    BY <1>4 DEF Reading, AskRead, Some, Brings
  <2>4. /\ Sending(c)' <=> Sending(c)
        /\ Replying(c)' <=> Replying(c)
        /\ Fed(c)' <=> HasAsk(got)
        /\ HasAsk(got) => Reading(c)
    BY <1>1, <1>2, <1>3 DEF Sending, Replying, Fed, Reading
  <2> QED
    BY <1>1, <1>2, <1>3, <2>1, <2>2, <2>3, <2>4 DEF PacedOK
<1>11. DeadlinesOK'
  BY <1>1 DEF DeadlinesOK, KeysOK, timerVars
<1> QED
  BY <1>5, <1>6, <1>7, <1>8, <1>9, <1>10, <1>11, StepKeeps DEF ConnOK

LEMMA RestIs ==
  ASSUME HttpTypeOK, NEW c, NEW rest, Left(rest, c)
  PROVE  /\ rest \in Seq(Posted)
         /\ \A k : /\ Lone(posted, c, k) => Lone(rest, c, k)
                   /\ Some(rest, c, k) => Some(posted, c, k)
         /\ AskRead(rest, c) => AskRead(posted, c)
         /\ OneAskRead(posted, c) => OneAskRead(rest, c)
         /\ InTurn(posted, c) => InTurn(rest, c)
<1>1. posted \in Seq(Posted)
  BY DEF HttpTypeOK
<1>2. CASE posted # <<>> /\ rest = Tail(posted)
  <2>1. \A k : /\ Lone(posted, c, k) => Lone(rest, c, k)
               /\ Some(rest, c, k) => Some(posted, c, k)
    BY <1>1, <1>2, Handled
  <2> QED
    BY <1>1, <1>2, <2>1, Handled
<1> QED
  BY <1>1, <1>2 DEF Left

(* A step that closes c's socket, deletes it or not, and ends its feed if  *)
(* it is in one: what it has to tell by the flags.                         *)
LEMMA ClosesKeep ==
  ASSUME HttpInv, NEW c \in Conn, NEW rest, Left(rest, c), Close(c), posted' = rest \o Aborted(c),
         UNCHANGED <<setup, sent, inbox, peer, replies, close_connection, overlap, mishap>>,
         completed' \in [Conn -> BOOLEAN],
         is_reading' \in [Conn -> BOOLEAN], is_writing' \in [Conn -> BOOLEAN],
         \A d \in Conn \ {c} : is_reading'[d] = is_reading[d] /\ is_writing'[d] = is_writing[d],
         feed' = NoFeed, feed.conn \in {c, NoConn}, life[c] = "accepted", ~ Some(posted, c, "start"),
         is_reading'[c] <=> rd[c] \/ Some(rest, c, "read"),
         ~ overlap[c] => (is_writing'[c] <=> wr[c] # <<>> \/ Some(rest, c, "write")),
         \/ life' = life /\ (CancelDeadline(c) \/ UNCHANGED timerVars)
         \/ /\ life' = [life EXCEPT ![c] = "deleted"] /\ CancelDeadline(c)
            /\ ~ is_reading'[c] /\ ~ (~ overlap[c] /\ is_writing'[c])
  PROVE  HttpInv'
<1>1. HttpTypeOK /\ ConnOK(c) /\ KeysOK /\ DeadlinesOK
  BY DEF HttpInv, DeadlinesOK
<1>2. /\ open' \in [Conn -> BOOLEAN] /\ rd' \in [Conn -> BOOLEAN] /\ wr' \in [Conn -> Seq(Said)]
      /\ ~ open'[c] /\ ~ rd'[c] /\ wr'[c] = <<>>
      /\ \A d \in Conn \ {c} : open'[d] = open[d] /\ rd'[d] = rd[d] /\ wr'[d] = wr[d]
  BY <1>1, CloseIs
<1>3. /\ rest \in Seq(Posted)
      /\ \A k : /\ Lone(posted, c, k) => Lone(rest, c, k)
                /\ Some(rest, c, k) => Some(posted, c, k)
      /\ AskRead(rest, c) => AskRead(posted, c)
      /\ OneAskRead(posted, c) => OneAskRead(rest, c)
      /\ InTurn(posted, c) => InTurn(rest, c)
  BY <1>1, RestIs
<1>4. /\ Moves(c) /\ posted' \in Seq(Posted)
      /\ Some(posted', c, "read") <=> Some(rest, c, "read") \/ rd[c]
      /\ Some(posted', c, "write") <=> Some(rest, c, "write") \/ wr[c] # <<>>
      /\ ~ Some(posted', c, "start") /\ Lone(posted', c, "start")
  BY <1>1, <1>3, ClosePosts DEF ConnOK, LifeOK
<1>5. /\ dq' \in Seq(Conn \cup {NoConn}) /\ step' = step /\ key' \in [Conn -> Nat \cup {NoKey}]
      /\ KeysOK' /\ \A d \in Conn \ {c} : key'[d] = key[d]
  <2>1. CASE CancelDeadline(c)
    BY <1>1, <2>1, CancelKeeps
  <2>2. CASE UNCHANGED timerVars
    BY <1>1, <2>2 DEF timerVars, HttpTypeOK, KeysOK
  <2> QED
    BY <2>1, <2>2
<1>6. /\ life' \in [Conn -> {"unborn", "accepted", "deleted"}]
      /\ \A d \in Conn \ {c} : life'[d] = life[d]
      /\ \/ life'[c] = "accepted"
         \/ life'[c] = "deleted" /\ key'[c] = NoKey /\ ~ is_reading'[c] /\ (overlap[c] \/ ~ is_writing'[c])
  <2>1. CASE life' = life
    BY <1>1, <2>1 DEF HttpTypeOK
  <2>2. CASE /\ life' = [life EXCEPT ![c] = "deleted"] /\ CancelDeadline(c)
             /\ ~ is_reading'[c] /\ ~ (~ overlap[c] /\ is_writing'[c])
    <3>1. key'[c] = NoKey
      BY <1>1, <2>2, CancelKeeps
    <3> QED
      BY <1>1, <2>2, <3>1 DEF HttpTypeOK
  <2> QED
    BY <2>1, <2>2
<1>7. NoFeed \in [conn : Conn \cup {NoConn}, left : Seq(Item)] /\ feed'.conn # c
  BY HttpAssumption DEF NoFeed
<1>8. HttpTypeOK'
  <2>1. step' \in Nat
    BY <1>1, <1>5 DEF HttpTypeOK
  <2> QED
    BY <1>1, <1>2, <1>4, <1>5, <1>6, <1>7, <2>1 DEF HttpTypeOK
<1>9. Frame(c)
  BY <1>1, <1>2, <1>4, <1>5, <1>6 DEF Frame, Same, NoFeed
<1>10. ReadSide(c)'
  <2>1. Lone(rest, c, "read") /\ ~ (Some(rest, c, "read") /\ rd[c])
    BY <1>1, <1>3 DEF ConnOK, ReadSide
  <2>2. Lone(posted', c, "read")
    BY <1>1, <2>1, ClosePosts
  <2> QED
    BY <1>2, <1>4, <1>7, <2>2 DEF ReadSide
<1>11. WriteSide(c)'
  <2> SUFFICES ASSUME ~ overlap[c] PROVE WriteSide(c)'
    BY DEF WriteSide
  <2>1. Lone(rest, c, "write") /\ (wr[c] # <<>> => Len(wr[c]) = 1 /\ ~ Some(rest, c, "write"))
    BY <1>1, <1>3 DEF ConnOK, WriteSide
  <2>2. Lone(posted', c, "write")
    BY <1>1, <2>1, ClosePosts
  <2> QED
    BY <1>2, <1>4, <2>2 DEF WriteSide
<1>12. LifeOK(c)'
  BY <1>4, <1>6, <1>7 DEF LifeOK
<1>13. PacedOK(c)'
  <2> SUFFICES ASSUME setup[c].paced PROVE PacedOK(c)'
    BY DEF PacedOK
  <2>1. PacedOK(c) /\ ~ (AskRead(posted, c) /\ wr[c] # <<>>)
    BY <1>1 DEF ConnOK, PacedOK, Reading, Replying
  <2>2. OneAskRead(rest, c) /\ InTurn(rest, c) /\ ~ (AskRead(rest, c) /\ wr[c] # <<>>)
    BY <1>3, <2>1 DEF PacedOK
  <2>3. OneAskRead(posted', c) /\ InTurn(posted', c) /\ (AskRead(posted', c) => AskRead(posted, c))
    BY <1>1, <1>3, <2>2, ClosePosts
  <2>4. Asking(c)' = Asking(c)
    BY DEF Asking
  <2>5. ~ Fed(c)' /\ ~ Replying(c)' /\ (Sending(c)' <=> Sending(c)) /\ (Reading(c)' => Reading(c))
    BY <1>2, <1>7, <2>3 DEF Fed, Replying, Sending, Reading
  <2> QED
    BY <1>7, <2>1, <2>3, <2>4, <2>5 DEF PacedOK
<1>14. DeadlinesOK'
  BY <1>1, <1>2, <1>5 DEF DeadlinesOK
<1> QED
  BY <1>8, <1>9, <1>10, <1>11, <1>12, <1>13, <1>14, StepKeeps DEF ConnOK

LEMMA ReadFailsKeeps ==
  ASSUME HttpInv, NEW c \in Conn, NEW rest, Left(rest, c), ReadFails(c, rest),
         (feed.conn = c /\ rest = posted) \/ (feed.conn = NoConn /\ Some(posted, c, "read")),
         ~ Some(rest, c, "read")
  PROVE  HttpInv'
<1>1. /\ HttpTypeOK /\ ConnOK(c)
      /\ is_reading' = [is_reading EXCEPT ![c] = FALSE] /\ feed' = NoFeed
      /\ UNCHANGED <<setup, sent, inbox, peer, replies, is_writing, close_connection, completed,
                     overlap, mishap>>
  BY DEF ReadFails, HttpInv, clientVars
<1>2. is_reading[c] /\ ~ Some(posted, c, "start") /\ life[c] = "accepted" /\ ~ rd[c]
  <2>1. ~ rd[c]
    BY <1>1 DEF ConnOK, ReadSide
  <2> QED
    BY <1>1, <2>1, Reads
<1>3. /\ is_reading' \in [Conn -> BOOLEAN] /\ ~ is_reading'[c]
      /\ \A d \in Conn \ {c} : is_reading'[d] = is_reading[d]
      /\ is_writing' \in [Conn -> BOOLEAN] /\ is_writing' = is_writing
      /\ completed' \in [Conn -> BOOLEAN]
  BY <1>1 DEF HttpTypeOK
<1>4. ~ overlap[c] => (is_writing'[c] <=> wr[c] # <<>> \/ Some(rest, c, "write"))
  <2>1. Some(posted, c, "write") <=> Some(rest, c, "write")
    <3>1. CASE rest = posted
      BY <3>1
    <3>2. CASE rest # posted
      <4>1. posted # <<>> /\ Head(posted).conn = c /\ rest = Tail(posted) /\ posted \in Seq(Posted)
        BY <1>1, <3>2 DEF Left, HttpTypeOK
      <4>2. \A k : Some(posted, c, k) <=> Is(Head(posted), c, k) \/ Some(rest, c, k)
        BY <4>1, Handled
      <4>3. Is(Head(posted), c, "read")
        BY <3>2, <4>2
      <4>4. ~ Is(Head(posted), c, "write")
        BY <4>3 DEF Is
      <4> QED
        BY <4>2, <4>4
    <3> QED
      BY <3>1, <3>2
  <2> QED
    BY <1>1, <1>3, <2>1 DEF ConnOK, WriteSide
<1>5. CASE is_writing[c]
  <2>1. Close(c) /\ posted' = rest \o Aborted(c) /\ CancelDeadline(c) /\ life' = life
    BY <1>5 DEF ReadFails
  <2> QED
    BY <1>1, <1>2, <1>3, <1>4, <2>1, ClosesKeep
<1>6. CASE ~ is_writing[c]
  <2>1. /\ life' = [life EXCEPT ![c] = "deleted"]
        /\ Close(c) /\ posted' = rest \o Aborted(c) /\ CancelDeadline(c)
    BY <1>6 DEF ReadFails, Destroy
  <2> QED
    BY <1>1, <1>2, <1>3, <1>4, <1>6, <2>1, ClosesKeep
<1> QED
  BY <1>5, <1>6

LEMMA ReadErrorKeeps ==
  ASSUME HttpInv, NEW c \in Conn, ReadError(c)
  PROVE  HttpInv'
<1>1. /\ HttpTypeOK /\ ConnOK(c) /\ Handles(c, "read", FALSE) /\ ReadFails(c, Tail(posted))
  BY DEF ReadError, HttpInv
<1>2. /\ Left(Tail(posted), c) /\ feed = NoFeed /\ Some(posted, c, "read")
      /\ Lone(posted, c, "read") => ~ Some(Tail(posted), c, "read")
  BY <1>1, TakenIs
<1>3. feed.conn = NoConn /\ ~ Some(Tail(posted), c, "read")
  BY <1>1, <1>2 DEF ConnOK, ReadSide, NoFeed
<1> QED
  BY <1>1, <1>2, <1>3, ReadFailsKeeps

LEMMA FeedFailsKeeps ==
  ASSUME HttpInv, NEW c \in Conn, FeedFails(c)
  PROVE  HttpInv'
<1>1. ConnOK(c) /\ feed.conn = c /\ ReadFails(c, posted) /\ Left(posted, c)
  BY DEF FeedFails, Refused, HttpInv, Left
<1>2. ~ Some(posted, c, "read")
  BY <1>1 DEF ConnOK, ReadSide
<1> QED
  BY <1>1, <1>2, ReadFailsKeeps

LEMMA GarbledIs ==
  ASSUME HttpTypeOK, NEW c \in Conn
  PROVE  Garbled(c) \in Seq(Said) /\ Len(Garbled(c)) = Len(wr[c]) /\ (wr[c] = <<>> => Garbled(c) = <<>>)
<1> DEFINE n == Len(wr[c])
           said(k) == IF wr[c][k] = "100" THEN "100" ELSE "garbled"
           g == [k \in 1 .. n |-> said(k)]
<1>1. wr[c] \in Seq(Said)
  BY DEF HttpTypeOK
<1>2. n \in Nat /\ (wr[c] = <<>> => n = 0) /\ Garbled(c) = g
  BY <1>1 DEF Garbled
<1>3. \A k : said(k) \in Said
  BY DEF Said
<1> HIDE DEF n, said
<1>4. g \in Seq(Said) /\ Len(g) = n
  BY <1>2, <1>3
<1> HIDE DEF g
<1>5. n = 0 => g = <<>>
  BY <1>4
<1> QED
  BY <1>2, <1>4, <1>5 DEF n

LEMMA WriteDoneKeeps ==
  ASSUME HttpInv, NEW c \in Conn, NEW ok \in BOOLEAN, WriteDone(c, ok)
  PROVE  HttpInv'
<1> DEFINE rest == Tail(posted)
<1>1. /\ HttpTypeOK /\ ConnOK(c) /\ DeadlinesOK /\ Handles(c, "write", ok)
      /\ is_writing' = [is_writing EXCEPT ![c] = FALSE]
      /\ completed' = [completed EXCEPT ![c] = FALSE]
      /\ UNCHANGED <<setup, sent, inbox, peer, replies, is_reading, close_connection, feed, overlap,
                     mishap>>
  BY DEF WriteDone, HttpInv, clientVars
<1>2. /\ Left(rest, c) /\ rest \in Seq(Posted) /\ posted # <<>> /\ Head(posted).conn = c
      /\ feed = NoFeed /\ feed.conn # c /\ life[c] = "accepted"
      /\ Some(posted, c, "write")
      /\ Lone(posted, c, "write") => ~ Some(rest, c, "write")
  BY <1>1, TakenIs
<1>3. \A k : k # "write" => (Some(rest, c, k) <=> Some(posted, c, k))
  BY <1>1, TakenIs
<1>4. /\ \A k : Lone(posted, c, k) => Lone(rest, c, k)
      /\ AskRead(rest, c) => AskRead(posted, c)
      /\ OneAskRead(posted, c) => OneAskRead(rest, c)
      /\ InTurn(posted, c) => InTurn(rest, c)
  BY <1>1, <1>2, RestIs
<1> HIDE DEF rest
<1>5. ~ overlap[c] => wr[c] = <<>> /\ ~ Some(rest, c, "write") /\ is_writing[c]
  BY <1>1, <1>2 DEF ConnOK, WriteSide
<1>6. ~ Some(posted, c, "start")
  BY <1>1, <1>5 DEF ConnOK, LifeOK, Still
<1>7. /\ is_writing' \in [Conn -> BOOLEAN] /\ ~ is_writing'[c]
      /\ \A d \in Conn \ {c} : is_writing'[d] = is_writing[d]
      /\ is_reading' \in [Conn -> BOOLEAN] /\ is_reading' = is_reading
      /\ completed' \in [Conn -> BOOLEAN]
  BY <1>1 DEF HttpTypeOK
<1>8. is_reading'[c] <=> rd[c] \/ Some(rest, c, "read")
  BY <1>1, <1>2, <1>3, <1>7 DEF ConnOK, ReadSide
<1>9. CASE (~ ok \/ close_connection[c]) /\ ~ is_reading[c]
  <2>1. /\ life' = [life EXCEPT ![c] = "deleted"]
        /\ Close(c) /\ posted' = rest \o Aborted(c) /\ CancelDeadline(c)
    BY <1>9 DEF WriteDone, Destroy, rest
  <2>2. feed' = NoFeed /\ feed.conn \in {c, NoConn}
    BY <1>1, <1>2 DEF NoFeed
  <2> QED
    BY <1>1, <1>2, <1>5, <1>6, <1>7, <1>8, <1>9, <2>1, <2>2, ClosesKeep
<1>10. CASE ~ ((~ ok \/ close_connection[c]) /\ ~ is_reading[c]) /\ ok /\ close_connection[c]
  <2>1. Close(c) /\ posted' = rest \o Aborted(c) /\ life' = life /\ UNCHANGED timerVars
    BY <1>10 DEF WriteDone, rest
  <2>2. feed' = NoFeed /\ feed.conn \in {c, NoConn}
    BY <1>1, <1>2 DEF NoFeed
  <2> QED
    BY <1>1, <1>2, <1>5, <1>6, <1>7, <1>8, <2>1, <2>2, ClosesKeep
<1>11. CASE /\ ~ ((~ ok \/ close_connection[c]) /\ ~ is_reading[c])
            /\ ~ (ok /\ close_connection[c])
  <2>1. /\ wr' = [wr EXCEPT ![c] = Garbled(c)] /\ posted' = rest
        /\ UNCHANGED <<rd, open, life, timerVars>>
    BY <1>11 DEF WriteDone, rest
  <2>2. Garbled(c) \in Seq(Said) /\ (wr[c] = <<>> => Garbled(c) = <<>>)
    BY <1>1, GarbledIs
  <2>3. /\ wr' \in [Conn -> Seq(Said)] /\ wr'[c] = Garbled(c)
        /\ \A d \in Conn \ {c} : wr'[d] = wr[d]
    BY <1>1, <2>1, <2>2 DEF HttpTypeOK
  <2>4. ~ overlap[c] => wr'[c] = <<>>
    BY <1>5, <2>2, <2>3
  <2>5. Moves(c)
    BY <1>1, <1>2, <2>1, Rests DEF rest
  <2>6. HttpTypeOK'
    BY <1>1, <1>2, <1>7, <2>1, <2>3 DEF HttpTypeOK, timerVars
  <2>7. Frame(c)
    BY <1>1, <1>7, <2>1, <2>3, <2>5 DEF Frame, Same, timerVars
  <2>8. ReadSide(c)'
    BY <1>1, <1>2, <1>3, <1>4, <1>7, <2>1 DEF ConnOK, ReadSide
  <2>9. WriteSide(c)'
    BY <1>1, <1>4, <1>5, <1>7, <2>1, <2>4 DEF ConnOK, WriteSide
  <2>10. LifeOK(c)'
    BY <1>1, <1>2, <1>3, <1>4, <1>6, <2>1 DEF ConnOK, LifeOK
  <2>11. PacedOK(c)'
    <3> SUFFICES ASSUME setup[c].paced PROVE PacedOK(c)'
      BY <1>1 DEF PacedOK
    <3>1. PacedOK(c) /\ ~ overlap[c] /\ wr'[c] = <<>> /\ wr[c] = <<>>
      BY <1>1, <1>5, <2>4 DEF ConnOK, PacedOK
    <3>2. Asking(c)' = Asking(c)
      BY <1>1 DEF Asking
    <3>3. ~ Fed(c)' /\ ~ Replying(c)' /\ (Sending(c)' <=> Sending(c)) /\ (Reading(c)' => Reading(c))
      BY <1>1, <1>2, <1>4, <2>1, <3>1 DEF Fed, Replying, Sending, Reading
    <3> QED
      BY <1>1, <1>2, <1>4, <2>1, <3>1, <3>2, <3>3 DEF PacedOK
  <2>12. DeadlinesOK'
    BY <1>1, <2>1 DEF DeadlinesOK, KeysOK, timerVars
  <2> QED
    BY <2>6, <2>7, <2>8, <2>9, <2>10, <2>11, <2>12, StepKeeps DEF ConnOK
<1> QED
  BY <1>9, <1>10, <1>11

-----------------------------------------------------------------------------
(* The io thread feeds the parser.                                         *)

(* A write that is begun while nothing is written.                         *)
LEMMA DoWriteIs ==
  ASSUME HttpTypeOK, NEW c \in Conn, ConnOK(c), NEW reply \in Said, DoWrite(c, reply)
  PROVE  /\ is_writing' \in [Conn -> BOOLEAN] /\ overlap' \in [Conn -> BOOLEAN]
         /\ wr' \in [Conn -> Seq(Said)] /\ rd' = rd /\ posted' = posted
         /\ is_writing'[c] /\ wr'[c] # <<>> /\ (overlap'[c] <=> overlap[c] \/ is_writing[c])
         /\ \A d \in Conn \ {c} : /\ is_writing'[d] = is_writing[d] /\ overlap'[d] = overlap[d]
                                  /\ wr'[d] = wr[d]
         /\ ~ overlap'[c] => Len(wr'[c]) = 1 /\ ~ Some(posted, c, "write")
<1>1. /\ is_writing' = [is_writing EXCEPT ![c] = TRUE]
      /\ overlap' = [overlap EXCEPT ![c] = @ \/ is_writing[c]]
      /\ wr' = [wr EXCEPT ![c] = Append(Garbled(c), reply)]
      /\ rd' = rd /\ posted' = posted
  BY DEF DoWrite
<1>2. /\ Garbled(c) \in Seq(Said) /\ Len(Garbled(c)) = Len(wr[c])
      /\ wr[c] = <<>> => Garbled(c) = <<>>
  BY GarbledIs
<1> DEFINE w == Append(Garbled(c), reply)
<1>3. w \in Seq(Said) /\ Len(w) = Len(wr[c]) + 1 /\ w # <<>>
  BY <1>2
<1> HIDE DEF w
<1>4. /\ wr' \in [Conn -> Seq(Said)] /\ wr'[c] = w
      /\ \A d \in Conn \ {c} : wr'[d] = wr[d]
  BY <1>1, <1>3 DEF HttpTypeOK, w
<1>5. /\ is_writing' \in [Conn -> BOOLEAN] /\ overlap' \in [Conn -> BOOLEAN]
      /\ is_writing'[c] /\ (overlap'[c] <=> overlap[c] \/ is_writing[c])
      /\ \A d \in Conn \ {c} : is_writing'[d] = is_writing[d] /\ overlap'[d] = overlap[d]
  BY <1>1 DEF HttpTypeOK
<1>6. ~ overlap'[c] => wr[c] = <<>> /\ ~ Some(posted, c, "write")
  BY <1>5 DEF ConnOK, WriteSide
<1>7. wr[c] = <<>> => Len(w) = 1
  BY <1>3
<1> QED
  BY <1>1, <1>3, <1>4, <1>5, <1>6, <1>7

LEMMA ConsumeIs ==
  ASSUME HttpTypeOK, NEW c \in Conn, NEW item, Feeds(c, item), Consume
  PROVE  /\ feed' \in [conn : Conn \cup {NoConn}, left : Seq(Item)]
         /\ feed.conn = c /\ feed'.conn = c /\ feed'.conn # NoConn
         /\ OneAsk(feed.left) => OneAsk(feed'.left)
         /\ OneAsk(feed.left) /\ HasAsk(feed'.left) => HasAsk(feed.left)
         /\ Asks(item) => HasAsk(feed.left) /\ (OneAsk(feed.left) => ~ HasAsk(feed'.left))
<1> DEFINE s == feed.left
<1>1. /\ s \in Seq(Item) /\ s # <<>> /\ Head(s) = item /\ feed.conn = c
      /\ feed = [conn |-> c, left |-> s]
  BY DEF HttpTypeOK, Feeds
<1>2. Tail(s) \in Seq(Item)
  BY <1>1
<1>3. feed' = [conn |-> c, left |-> Tail(s)]
  BY <1>1 DEF Consume
<1>4. /\ OneAsk(s) => OneAsk(Tail(s)) /\ (HasAsk(Tail(s)) => HasAsk(s))
      /\ OneAsk(s) /\ Asks(item) => ~ HasAsk(Tail(s))
  BY <1>1, ItemFed
<1>5. Asks(item) => HasAsk(s)
  <2>1. s[1] = item /\ 1 \in 1 .. Len(s)
    BY <1>1
  <2> QED
    BY <2>1 DEF HasAsk
<1> HIDE DEF s
<1>6. feed'.conn = c /\ feed'.left = Tail(s) /\ feed' \in [conn : Conn \cup {NoConn}, left : Seq(Item)]
  BY <1>2, <1>3
<1> QED
  BY <1>1, <1>4, <1>5, <1>6, HttpAssumption DEF s

(* A step that feeds an item to the parser, whose callback writes, posts   *)
(* an error, or neither, and may cancel the deadline.                      *)
LEMMA ItemKeeps ==
  ASSUME HttpInv, NEW c \in Conn, NEW item, Feeds(c, item), Consume,
         CancelDeadline(c) \/ UNCHANGED timerVars,
         UNCHANGED <<setup, sent, inbox, peer, replies, life, open, is_reading, mishap>>,
         close_connection' \in [Conn -> BOOLEAN], completed' \in [Conn -> BOOLEAN],
         \/ UNCHANGED <<is_writing, overlap, rd, wr, posted>>
         \/ Asks(item) /\ \E reply \in Said : DoWrite(c, reply)
         \/ /\ Asks(item) /\ posted' = Post(c, "write", FALSE, <<>>)
            /\ is_writing' = [is_writing EXCEPT ![c] = TRUE]
            /\ overlap' = [overlap EXCEPT ![c] = @ \/ is_writing[c]]
            /\ UNCHANGED <<rd, wr>>
  PROVE  HttpInv'
<1>1. HttpTypeOK /\ ConnOK(c) /\ KeysOK /\ DeadlinesOK
  BY DEF HttpInv, DeadlinesOK
<1>2. /\ feed' \in [conn : Conn \cup {NoConn}, left : Seq(Item)]
      /\ feed.conn = c /\ feed'.conn = c /\ feed'.conn # NoConn
      /\ OneAsk(feed.left) => OneAsk(feed'.left)
      /\ OneAsk(feed.left) /\ HasAsk(feed'.left) => HasAsk(feed.left)
      /\ Asks(item) => HasAsk(feed.left) /\ (OneAsk(feed.left) => ~ HasAsk(feed'.left))
  BY <1>1, ConsumeIs
<1>3. /\ is_reading[c] /\ ~ Some(posted, c, "start") /\ life[c] = "accepted"
      /\ ~ rd[c] /\ ~ Some(posted, c, "read")
  BY <1>1, <1>2, Reads DEF ConnOK, ReadSide
<1>4. /\ dq' \in Seq(Conn \cup {NoConn}) /\ step' = step /\ key' \in [Conn -> Nat \cup {NoKey}]
      /\ KeysOK' /\ \A d \in Conn \ {c} : key'[d] = key[d]
  <2>1. CASE CancelDeadline(c)
    BY <1>1, <2>1, CancelKeeps
  <2>2. CASE UNCHANGED timerVars
    BY <1>1, <2>2 DEF timerVars, HttpTypeOK, KeysOK
  <2> QED
    BY <2>1, <2>2
(* Who waits for replies is not written to, so there is no overlap. *)
<1>5. ASSUME Asks(item), setup[c].paced
      PROVE  Fed(c) /\ ~ is_writing[c] /\ ~ overlap[c] /\ ~ Fed(c)'
  <2>1. PacedOK(c) /\ Fed(c) /\ OneAsk(feed.left)
    BY <1>1, <1>2, <1>5 DEF ConnOK, PacedOK, Fed
  <2>2. ~ overlap[c] /\ ~ Replying(c) /\ ~ Some(posted, c, "write")
    BY <1>5, <2>1 DEF PacedOK
  <2>3. ~ is_writing[c]
    BY <1>1, <2>2 DEF ConnOK, WriteSide, Replying
  <2>4. ~ Fed(c)'
    BY <1>2, <1>5, <2>1 DEF Fed
  <2> QED
    BY <2>1, <2>2, <2>3, <2>4
<1>6. /\ is_writing' \in [Conn -> BOOLEAN] /\ overlap' \in [Conn -> BOOLEAN]
      /\ wr' \in [Conn -> Seq(Said)] /\ rd' = rd /\ posted' \in Seq(Posted) /\ Moves(c)
      /\ \A k : k # "write" => /\ Some(posted', c, k) <=> Some(posted, c, k)
                               /\ Lone(posted, c, k) => Lone(posted', c, k)
      /\ \A d \in Conn \ {c} : /\ is_writing'[d] = is_writing[d] /\ overlap'[d] = overlap[d]
                               /\ wr'[d] = wr[d]
      /\ overlap[c] => overlap'[c]
      /\ WriteSide(c)'
      /\ AskRead(posted', c) <=> AskRead(posted, c)
      /\ OneAskRead(posted, c) => OneAskRead(posted', c)
      /\ InTurn(posted, c) /\ ~ (Asks(item) /\ AskRead(posted, c)) => InTurn(posted', c)
      /\ setup[c].paced => /\ overlap'[c] <=> overlap[c]
                           /\ \/ Asks(item)
                              \/ wr' = wr /\ posted' = posted
  <2>1. CASE UNCHANGED <<is_writing, overlap, rd, wr, posted>>
    <3>1. WriteSide(c)'
      BY <1>1, <2>1 DEF ConnOK, WriteSide
    <3> QED
      BY <1>1, <2>1, <3>1, Rests DEF HttpTypeOK
  <2>2. CASE Asks(item) /\ \E reply \in Said : DoWrite(c, reply)
    <3>1. PICK reply \in Said : DoWrite(c, reply)
      BY <2>2
    <3>2. /\ is_writing' \in [Conn -> BOOLEAN] /\ overlap' \in [Conn -> BOOLEAN]
          /\ wr' \in [Conn -> Seq(Said)] /\ rd' = rd /\ posted' = posted
          /\ is_writing'[c] /\ wr'[c] # <<>> /\ (overlap'[c] <=> overlap[c] \/ is_writing[c])
          /\ \A d \in Conn \ {c} : /\ is_writing'[d] = is_writing[d] /\ overlap'[d] = overlap[d]
                                   /\ wr'[d] = wr[d]
          /\ ~ overlap'[c] => Len(wr'[c]) = 1 /\ ~ Some(posted, c, "write")
      BY <1>1, <3>1, DoWriteIs
    <3>3. WriteSide(c)'
      BY <1>1, <3>2 DEF ConnOK, WriteSide, Lone, Some
    <3>4. posted' \in Seq(Posted) /\ Moves(c)
      BY <1>1, <3>2, Rests DEF HttpTypeOK
    <3> QED
      BY <1>5, <2>2, <3>2, <3>3, <3>4
  <2>3. CASE /\ Asks(item) /\ posted' = Post(c, "write", FALSE, <<>>)
             /\ is_writing' = [is_writing EXCEPT ![c] = TRUE]
             /\ overlap' = [overlap EXCEPT ![c] = @ \/ is_writing[c]]
             /\ UNCHANGED <<rd, wr>>
    <3>1. /\ Moves(c) /\ posted' \in Seq(Posted)
          /\ \A k : Some(posted', c, k) <=> Some(posted, c, k) \/ k = "write"
          /\ \A k : Lone(posted, c, k) /\ ~ (Some(posted, c, k) /\ k = "write") => Lone(posted', c, k)
          /\ AskRead(posted', c) <=> AskRead(posted, c)
          /\ OneAskRead(posted, c) => OneAskRead(posted', c)
          /\ InTurn(posted, c) /\ ~ AskRead(posted, c) => InTurn(posted', c)
      <4> DEFINE none == <<>>
      <4>1. none \in Seq(Item) /\ "write" \in Kind /\ FALSE \in BOOLEAN
        BY DEF Kind
      <4>2. posted' = Post(c, "write", FALSE, none)
        BY <2>3
      <4> HIDE DEF none
      <4> QED
        BY <1>1, <4>1, <4>2, Posts
    <3>2. /\ is_writing' \in [Conn -> BOOLEAN] /\ overlap' \in [Conn -> BOOLEAN]
          /\ is_writing'[c] /\ (overlap'[c] <=> overlap[c] \/ is_writing[c])
          /\ \A d \in Conn \ {c} : is_writing'[d] = is_writing[d] /\ overlap'[d] = overlap[d]
          /\ wr' = wr /\ rd' = rd /\ wr' \in [Conn -> Seq(Said)]
      BY <1>1, <2>3 DEF HttpTypeOK
    <3>3. ~ overlap'[c] => ~ overlap[c] /\ wr[c] = <<>> /\ ~ Some(posted, c, "write")
      BY <1>1, <3>2 DEF ConnOK, WriteSide
    <3>4. WriteSide(c)'
      BY <1>1, <3>1, <3>2, <3>3 DEF ConnOK, WriteSide
    <3> QED
      BY <1>5, <2>3, <3>1, <3>2, <3>4
  <2> QED
    BY <2>1, <2>2, <2>3
<1>7. HttpTypeOK'
  <2>1. step' \in Nat
    BY <1>1, <1>4 DEF HttpTypeOK
  <2> QED
    BY <1>1, <1>2, <1>4, <1>6, <2>1 DEF HttpTypeOK
<1>8. Frame(c)
  BY <1>2, <1>4, <1>6 DEF Frame, Same
<1>9. ReadSide(c)'
  BY <1>1, <1>2, <1>3, <1>6 DEF ConnOK, ReadSide
<1>10. LifeOK(c)'
  BY <1>1, <1>3, <1>6 DEF ConnOK, LifeOK
<1>11. PacedOK(c)'
  <2> SUFFICES ASSUME setup[c].paced PROVE PacedOK(c)'
    BY DEF PacedOK
  <2>1. PacedOK(c) /\ OneAsk(feed.left)
    BY <1>1, <1>2 DEF ConnOK, PacedOK
  <2>2. Asking(c)' = Asking(c)
    BY DEF Asking
  <2>3. ~ Reading(c) /\ ~ Reading(c)' /\ (Sending(c)' <=> Sending(c)) /\ (Fed(c)' => Fed(c))
    BY <1>2, <1>3, <1>6, <2>1 DEF Reading, Sending, Fed, AskRead, Some, Brings
  <2>4. ~ overlap'[c] /\ OneAskRead(posted', c) /\ InTurn(posted', c) /\ OneAsk(feed'.left)
    BY <1>2, <1>6, <2>1, <2>3 DEF PacedOK, Reading
  <2>5. CASE Asks(item)
    <3>1. Fed(c) /\ ~ Fed(c)'
      BY <1>5, <2>5
    <3>2. ~ Sending(c)' /\ Cardinality(Asking(c)) = Len(replies[c]) + 1
      BY <2>1, <2>3, <3>1 DEF PacedOK
    <3> QED
      BY <2>1, <2>2, <2>3, <2>4, <3>1, <3>2 DEF PacedOK
  <2>6. CASE wr' = wr /\ posted' = posted
    <3>1. Replying(c)' <=> Replying(c)
      BY <2>6 DEF Replying
    <3> QED
      BY <2>1, <2>2, <2>3, <2>4, <2>6, <3>1 DEF PacedOK
  <2> QED
    BY <1>6, <2>5, <2>6
<1>12. DeadlinesOK'
  BY <1>1, <1>3, <1>4, <1>6 DEF DeadlinesOK
<1> QED
  BY <1>6, <1>7, <1>8, <1>9, <1>10, <1>11, <1>12, StepKeeps DEF ConnOK

LEMMA HandleHeaderKeeps ==
  ASSUME HttpInv, NEW c \in Conn, HandleHeader(c)
  PROVE  HttpInv'
<1>1. /\ HttpTypeOK /\ Feeds(c, "expect") /\ Consume
      /\ UNCHANGED <<setup, sent, inbox, peer, replies, life, open, is_reading, close_connection,
                     completed, timerVars, mishap>>
  BY DEF HandleHeader, HttpInv, clientVars
<1>2. Asks("expect") /\ "100" \in Said
  BY DEF Asks, Said
<1>3. \/ DoWrite(c, "100")
      \/ /\ posted' = Post(c, "write", FALSE, <<>>)
         /\ is_writing' = [is_writing EXCEPT ![c] = TRUE]
         /\ overlap' = [overlap EXCEPT ![c] = @ \/ is_writing[c]]
         /\ UNCHANGED <<rd, wr>>
  BY DEF HandleHeader, opVars
<1>4. close_connection' \in [Conn -> BOOLEAN] /\ completed' \in [Conn -> BOOLEAN]
  BY <1>1 DEF HttpTypeOK
<1> QED
  BY <1>1, <1>2, <1>3, <1>4, ItemKeeps

LEMMA HandleGetKeeps ==
  ASSUME HttpInv, NEW c \in Conn, NEW item \in {"get", "last"}, HandleGet(c, item)
  PROVE  HttpInv'
<1> DEFINE reply == IF completed[c] THEN "stale" ELSE "200"
<1>1. /\ HttpTypeOK /\ Feeds(c, item) /\ Consume /\ CancelDeadline(c) /\ CompleteRequest(c, reply)
      /\ close_connection' = [close_connection EXCEPT ![c] = @ \/ item = "last"]
      /\ completed' = [completed EXCEPT ![c] = TRUE]
      /\ UNCHANGED <<setup, sent, inbox, peer, replies, life, open, is_reading, mishap>>
  BY DEF HandleGet, HttpInv, clientVars
<1>2. Asks(item) /\ reply \in Said
  BY DEF Asks, Said
<1> HIDE DEF reply
<1>3. DoWrite(c, reply) \/ UNCHANGED <<is_writing, overlap, rd, wr, posted>>
  BY <1>1 DEF CompleteRequest, opVars
<1>4. close_connection' \in [Conn -> BOOLEAN] /\ completed' \in [Conn -> BOOLEAN]
  BY <1>1 DEF HttpTypeOK
<1> QED
  BY <1>1, <1>2, <1>3, <1>4, ItemKeeps

LEMMA HandleNoHostKeeps ==
  ASSUME HttpInv, NEW c \in Conn, HandleNoHost(c)
  PROVE  HttpInv'
<1>1. /\ HttpTypeOK /\ Feeds(c, "nohost") /\ Consume /\ CancelDeadline(c) /\ CompleteRequest(c, "400")
      /\ completed' = [completed EXCEPT ![c] = FALSE]
      /\ UNCHANGED <<setup, sent, inbox, peer, replies, life, open, is_reading, close_connection,
                     mishap>>
  BY DEF HandleNoHost, HttpInv, clientVars
<1>2. Asks("nohost") /\ "400" \in Said
  BY DEF Asks, Said
<1>3. DoWrite(c, "400") \/ UNCHANGED <<is_writing, overlap, rd, wr, posted>>
  BY <1>1 DEF CompleteRequest, opVars
<1>4. close_connection' \in [Conn -> BOOLEAN] /\ completed' \in [Conn -> BOOLEAN]
  BY <1>1 DEF HttpTypeOK
<1> QED
  BY <1>1, <1>2, <1>3, <1>4, ItemKeeps

LEMMA HandleUpgradeKeeps ==
  ASSUME HttpInv, NEW c \in Conn, HandleUpgrade(c)
  PROVE  HttpInv'
<1>1. /\ HttpTypeOK /\ Feeds(c, "upgrade") /\ Consume /\ CancelDeadline(c)
      /\ close_connection' = [close_connection EXCEPT ![c] = TRUE]
      /\ completed' = [completed EXCEPT ![c] = TRUE]
      /\ UNCHANGED <<setup, sent, inbox, peer, replies, rd, wr, posted, life, open, is_reading,
                     is_writing, overlap, mishap>>
  BY DEF HandleUpgrade, HttpInv, clientVars, opVars
<1>2. close_connection' \in [Conn -> BOOLEAN] /\ completed' \in [Conn -> BOOLEAN]
  BY <1>1 DEF HttpTypeOK
<1> QED
  BY <1>1, <1>2, ItemKeeps

LEMMA FeedClosesKeeps ==
  ASSUME HttpInv, NEW c \in Conn, FeedCloses(c)
  PROVE  HttpInv'
<1>1. /\ HttpTypeOK /\ ConnOK(c) /\ KeysOK /\ DeadlinesOK /\ feed.conn = c /\ feed' = NoFeed
      /\ is_reading' = [is_reading EXCEPT ![c] = FALSE]
      /\ UNCHANGED <<setup, sent, inbox, peer, replies, is_writing, close_connection, completed,
                     overlap, mishap>>
  BY DEF FeedCloses, HttpInv, DeadlinesOK, clientVars
<1>2. /\ is_reading[c] /\ ~ Some(posted, c, "start") /\ life[c] = "accepted"
      /\ ~ rd[c] /\ ~ Some(posted, c, "read")
  BY <1>1, Reads DEF ConnOK, ReadSide
<1>3. /\ is_reading' \in [Conn -> BOOLEAN] /\ ~ is_reading'[c]
      /\ \A d \in Conn \ {c} : is_reading'[d] = is_reading[d]
      /\ is_writing' \in [Conn -> BOOLEAN] /\ is_writing' = is_writing
      /\ completed' \in [Conn -> BOOLEAN]
  BY <1>1 DEF HttpTypeOK
<1>4. CASE ~ is_writing[c]
  <2>1. /\ life' = [life EXCEPT ![c] = "deleted"]
        /\ Close(c) /\ posted' = posted \o Aborted(c) /\ CancelDeadline(c) /\ Left(posted, c)
    BY <1>4 DEF FeedCloses, Destroy, Left
  <2>2. ~ overlap[c] => (is_writing'[c] <=> wr[c] # <<>> \/ Some(posted, c, "write"))
    BY <1>1, <1>3 DEF ConnOK, WriteSide
  <2> QED
    BY <1>1, <1>2, <1>3, <1>4, <2>1, <2>2, ClosesKeep
<1>5. CASE is_writing[c]
  <2>1. CancelDeadline(c) /\ UNCHANGED <<life, open, rd, wr, posted>>
    BY <1>5 DEF FeedCloses, opVars
  <2>2. /\ dq' \in Seq(Conn \cup {NoConn}) /\ step' = step /\ key' \in [Conn -> Nat \cup {NoKey}]
        /\ KeysOK' /\ \A d \in Conn \ {c} : key'[d] = key[d]
    BY <1>1, <2>1, CancelKeeps
  <2>3. NoFeed \in [conn : Conn \cup {NoConn}, left : Seq(Item)] /\ feed'.conn # c
    BY <1>1, HttpAssumption DEF NoFeed
  <2>4. HttpTypeOK'
    BY <1>1, <1>3, <2>1, <2>2, <2>3 DEF HttpTypeOK
  <2>5. Frame(c)
    BY <1>1, <1>3, <2>1, <2>2, Rests DEF Frame, Same, NoFeed
  <2>6. ReadSide(c)' /\ WriteSide(c)' /\ LifeOK(c)'
    BY <1>1, <1>2, <1>3, <2>1, <2>3 DEF ConnOK, ReadSide, WriteSide, LifeOK
  <2>7. PacedOK(c)'
    <3>1. /\ Asking(c)' = Asking(c) /\ ~ Fed(c)' /\ (Sending(c)' <=> Sending(c))
          /\ (Reading(c)' <=> Reading(c)) /\ (Replying(c)' <=> Replying(c))
      BY <1>1, <2>1, <2>3 DEF Asking, Fed, Sending, Reading, Replying
    <3> QED
      BY <1>1, <2>1, <2>3, <3>1 DEF ConnOK, PacedOK
  <2>8. DeadlinesOK'
    BY <1>1, <1>2, <2>1, <2>2 DEF DeadlinesOK
  <2> QED
    BY <2>4, <2>5, <2>6, <2>7, <2>8, StepKeeps DEF ConnOK
<1> QED
  BY <1>4, <1>5

LEMMA FeedGoesOnKeeps ==
  ASSUME HttpInv, NEW c \in Conn, FeedGoesOn(c)
  PROVE  HttpInv'
<1>1. /\ HttpTypeOK /\ ConnOK(c) /\ KeysOK /\ DeadlinesOK /\ feed.conn = c /\ open[c]
      /\ feed' = NoFeed /\ StartDeadline(c) /\ rd' = [rd EXCEPT ![c] = TRUE]
      /\ UNCHANGED <<setup, sent, inbox, peer, replies, wr, posted, life, open, flagVars, overlap,
                     mishap>>
  BY DEF FeedGoesOn, HttpInv, DeadlinesOK, clientVars
<1>2. /\ is_reading[c] /\ ~ Some(posted, c, "start") /\ life[c] = "accepted"
      /\ ~ rd[c] /\ ~ Some(posted, c, "read")
  BY <1>1, Reads DEF ConnOK, ReadSide
<1>3. /\ dq' \in Seq(Conn \cup {NoConn}) /\ step' = step /\ key' \in [Conn -> Nat \cup {NoKey}]
      /\ KeysOK' /\ step <= key'[c] /\ \A d \in Conn \ {c} : key'[d] = key[d]
  BY <1>1, DeadlineKeeps
<1>4. NoFeed \in [conn : Conn \cup {NoConn}, left : Seq(Item)] /\ feed'.conn # c
  BY <1>1, HttpAssumption DEF NoFeed
<1>5. rd' \in [Conn -> BOOLEAN] /\ rd'[c] /\ \A d \in Conn \ {c} : rd'[d] = rd[d]
  BY <1>1 DEF HttpTypeOK
<1>6. HttpTypeOK'
  BY <1>1, <1>3, <1>4, <1>5 DEF HttpTypeOK, flagVars
<1>7. Frame(c)
  BY <1>1, <1>3, <1>5, Rests DEF Frame, Same, NoFeed, flagVars
<1>8. ReadSide(c)' /\ WriteSide(c)' /\ LifeOK(c)'
  BY <1>1, <1>2, <1>4, <1>5 DEF ConnOK, ReadSide, WriteSide, LifeOK, flagVars
<1>9. PacedOK(c)'
  <2>1. /\ Asking(c)' = Asking(c) /\ ~ Fed(c)' /\ (Sending(c)' <=> Sending(c))
        /\ (Reading(c)' <=> Reading(c)) /\ (Replying(c)' <=> Replying(c))
    BY <1>1, <1>4 DEF Asking, Fed, Sending, Reading, Replying
  <2> QED
    BY <1>1, <1>4, <2>1 DEF ConnOK, PacedOK
<1>10. DeadlinesOK'
  BY <1>1, <1>3, <1>5 DEF DeadlinesOK
<1> QED
  BY <1>6, <1>7, <1>8, <1>9, <1>10, StepKeeps DEF ConnOK

-----------------------------------------------------------------------------
(* The whole server.                                                       *)

LEMMA HttpInit ==
  ASSUME ServerInit
  PROVE  HttpInv
<1> DEFINE none == <<>>
<1>1. /\ setup \in Setup
      /\ sent = [c \in Conn |-> 0] /\ inbox = [c \in Conn |-> none] /\ peer = [c \in Conn |-> "up"]
      /\ replies = [c \in Conn |-> none]
      /\ rd = [c \in Conn |-> FALSE] /\ wr = [c \in Conn |-> none] /\ posted = none
      /\ life = [c \in Conn |-> "unborn"] /\ open = [c \in Conn |-> TRUE]
      /\ is_reading = [c \in Conn |-> FALSE] /\ is_writing = [c \in Conn |-> FALSE]
      /\ close_connection = [c \in Conn |-> FALSE] /\ completed = [c \in Conn |-> FALSE]
      /\ dq = none /\ step = 0 /\ key = [c \in Conn |-> NoKey]
      /\ feed = NoFeed /\ overlap = [c \in Conn |-> FALSE] /\ mishap = "none"
  BY DEF ServerInit, Init
<1>2. /\ none \in Seq(Item) /\ none \in Seq(Said) /\ none \in Seq(Posted)
      /\ none \in Seq(Conn \cup {NoConn}) /\ Len(none) = 0
      /\ NoFeed \in [conn : Conn \cup {NoConn}, left : Seq(Item)]
  BY DEF NoFeed
<1>3. /\ ~ HasAsk(none) /\ OneAsk(none) /\ ~ AskRead(none, 0)
      /\ \A c, k : ~ Some(none, c, k) /\ Lone(none, c, k)
      /\ \A c : ~ AskRead(none, c) /\ OneAskRead(none, c) /\ InTurn(none, c)
  BY NoneIsQuiet
<1> HIDE DEF none
<1>4. HttpTypeOK
  <2>1. inbox \in [Conn -> Seq(Item)] /\ replies \in [Conn -> Seq(Said)] /\ wr \in [Conn -> Seq(Said)]
    BY <1>1, <1>2
  <2>2. /\ setup \in Setup /\ sent \in [Conn -> Nat] /\ peer \in [Conn -> {"up", "shut", "gone"}]
        /\ life \in [Conn -> {"unborn", "accepted", "deleted"}] /\ open \in [Conn -> BOOLEAN]
        /\ key \in [Conn -> Nat \cup {NoKey}] /\ step \in Nat /\ mishap \in {"none", "timer", "freed"}
        /\ feed = NoFeed
    BY <1>1
  <2>3. /\ rd \in [Conn -> BOOLEAN] /\ is_reading \in [Conn -> BOOLEAN]
        /\ is_writing \in [Conn -> BOOLEAN] /\ close_connection \in [Conn -> BOOLEAN]
        /\ completed \in [Conn -> BOOLEAN] /\ overlap \in [Conn -> BOOLEAN]
    BY <1>1
  <2>4. posted \in Seq(Posted) /\ dq \in Seq(Conn \cup {NoConn})
    BY <1>1, <1>2
  <2> QED
    BY <1>2, <2>1, <2>2, <2>3, <2>4 DEF HttpTypeOK
<1>5. ASSUME NEW c \in Conn PROVE ConnOK(c)
  <2>1. feed.conn # c /\ feed.conn = NoConn
    BY <1>1, HttpAssumption DEF NoFeed
  <2>2. /\ ~ is_reading[c] /\ ~ is_writing[c] /\ ~ rd[c] /\ wr[c] = none /\ life[c] = "unborn"
        /\ open[c] /\ ~ overlap[c] /\ key[c] = NoKey /\ inbox[c] = none /\ replies[c] = none
        /\ sent[c] = 0
    BY <1>1
  <2>3. ReadSide(c) /\ LifeOK(c)
    BY <1>1, <1>3, <2>1, <2>2 DEF ReadSide, LifeOK, Still
  <2>4. WriteSide(c)
    BY <1>1, <1>3, <2>2 DEF WriteSide, none
  <2>5. Asking(c) = {}
    BY <2>2 DEF Asking
  <2>6. Cardinality(Asking(c)) = 0
    BY <2>5, FS_EmptySet
  <2>7. ~ Sending(c) /\ ~ Reading(c) /\ ~ Fed(c) /\ ~ Replying(c)
    BY <1>1, <1>3, <2>1, <2>2 DEF Sending, Reading, Fed, Replying, none
  <2>8. Len(replies[c]) = 0
    BY <1>2, <2>2
  <2>9. /\ ~ overlap[c] /\ OneAsk(inbox[c]) /\ OneAskRead(posted, c) /\ feed.conn # c
        /\ InTurn(posted, c)
    BY <1>1, <1>3, <2>1, <2>2
  <2>10. PacedOK(c)
    BY <2>6, <2>7, <2>8, <2>9 DEF PacedOK
  <2> QED
    BY <2>3, <2>4, <2>10 DEF ConnOK
<1>6. DeadlinesOK
  BY <1>1, <1>2 DEF DeadlinesOK, KeysOK, NoKey
<1> QED
  BY <1>1, <1>4, <1>5, <1>6 DEF HttpInv, MishapOK

LEMMA HttpSame ==
  ASSUME HttpInv, UNCHANGED vars
  PROVE  HttpInv'
<1>1. /\ UNCHANGED <<setup, sent, inbox, peer, replies, rd, wr, posted, life, open>>
      /\ UNCHANGED <<is_reading, is_writing, close_connection, completed, dq, step, key>>
      /\ UNCHANGED <<feed, overlap, mishap>>
  BY DEF vars, clientVars, opVars, flagVars, timerVars
<1>2. HttpTypeOK'
  BY <1>1 DEF HttpInv, HttpTypeOK
<1>3. ASSUME NEW d \in Conn PROVE ConnOK(d)'
  <2>1. ConnOK(d)
    BY DEF HttpInv
  <2>2. ReadSide(d)' /\ WriteSide(d)' /\ LifeOK(d)'
    BY <1>1, <2>1 DEF ConnOK, ReadSide, WriteSide, LifeOK, Still
  <2>3. /\ Asking(d)' = Asking(d) /\ (Fed(d)' <=> Fed(d)) /\ (Sending(d)' <=> Sending(d))
        /\ (Reading(d)' <=> Reading(d)) /\ (Replying(d)' <=> Replying(d))
    BY <1>1 DEF Asking, Fed, Sending, Reading, Replying
  <2>4. PacedOK(d)'
    BY <1>1, <2>1, <2>3 DEF ConnOK, PacedOK
  <2> QED
    BY <2>2, <2>4 DEF ConnOK
<1>4. DeadlinesOK' /\ MishapOK'
  BY <1>1 DEF HttpInv, DeadlinesOK, KeysOK, MishapOK
<1> QED
  BY <1>2, <1>3, <1>4 DEF HttpInv

LEMMA HttpStep ==
  ASSUME HttpInv, [ServerNext]_serverVars
  PROVE  HttpInv'
<1>1. CASE Program
  <2>1. UNCHANGED vars
    BY <1>1 DEF Program, MainRuns, MainInstallsHandler, MainLeaves, MakeServer, MakePool, WorkerRuns,
                ServerAccepts, ServerLeaves, WorkerEnds, SignalSetStops, HandlerStopsServer,
                HandlerStopsPool, HandlerClearsFlag
  <2> QED
    BY <2>1, HttpSame
<1>2. CASE Signal
  BY <1>2, HttpSame DEF Signal
<1>3. CASE Io
  <2>1. CASE Vanished
    BY <2>1, VanishedKeeps
  <2>2. ASSUME NEW c \in Conn, Completion(c) PROVE HttpInv'
    BY <2>2, StartKeeps, FeedBeginsKeeps, ReadErrorKeeps, WriteDoneKeeps DEF Completion
  <2>3. ASSUME NEW c \in Conn, Feeding(c) PROVE HttpInv'
    BY <2>3, HandleHeaderKeeps, HandleGetKeeps, HandleNoHostKeeps, HandleUpgradeKeeps,
       FeedFailsKeeps, FeedClosesKeeps, FeedGoesOnKeeps DEF Feeding
  <2> QED
    BY <1>3, <2>1, <2>2, <2>3 DEF Io, IoThread
<1>4. CASE Deadline
  BY <1>4, ProcessKeeps DEF Deadline
<1>5. ASSUME NEW c \in Conn, Reactor(c) \/ Accepts(c) \/ Client(c) PROVE HttpInv'
  BY <1>5, ReadCompletesKeeps, WriteCompletesKeeps, AcceptKeeps, SendKeeps, LeaveKeeps
     DEF Reactor, Accepts, Client
<1>6. CASE UNCHANGED serverVars
  BY <1>6, HttpSame DEF serverVars
<1> QED
  BY <1>1, <1>2, <1>3, <1>4, <1>5, <1>6 DEF ServerNext

LEMMA HttpInvFinds ==
  ASSUME HttpInv
  PROVE  CallbacksFindConnection
<1>1. HttpTypeOK /\ (\A c \in Conn : ConnOK(c)) /\ KeysOK /\ DeadlinesOK /\ MishapOK
  BY DEF HttpInv, DeadlinesOK
<1>2. ASSUME NEW c \in Conn PROVE overlap[c] => ~ setup[c].paced
  BY <1>1 DEF ConnOK, PacedOK
<1>3. ASSUME NEW c \in Conn
      PROVE  /\ Cardinality(Deadlines(c)) <= 1
             /\ rd[c] => Deadlines(c) = {key[c] - step + 1}
             /\ life[c] = "deleted" => Deadlines(c) = {}
  <2> DEFINE j == key[c] - step + 1
             n == Len(dq)
  <2>1. /\ n \in Nat /\ DOMAIN dq = 1 .. n /\ step \in Nat /\ key[c] \in Int
        /\ key[c] = NoKey => key[c] < step
    BY <1>1 DEF HttpTypeOK, NoKey
  <2>2. key[c] < step + n /\ \A k \in 1 .. n : dq[k] = c <=> key[c] = step + k - 1
    BY <1>1 DEF KeysOK
  <2>3. \A k \in 1 .. n : dq[k] = c <=> k = j
    BY <2>1, <2>2
  <2>4. rd[c] => j \in 1 .. n
    BY <1>1, <2>1, <2>2 DEF DeadlinesOK
  <2>5. life[c] = "deleted" => j \notin 1 .. n
    <3>1. life[c] = "deleted" => key[c] = NoKey
      BY <1>1 DEF ConnOK, LifeOK
    <3> QED
      BY <2>1, <3>1
  <2> HIDE DEF j, n
  <2>6. Deadlines(c) = {k \in 1 .. n : k = j}
    BY <2>1, <2>3 DEF Deadlines
  <2>7. Cardinality(Deadlines(c)) <= 1
    <3>1. CASE j \in 1 .. n
      <4>1. Deadlines(c) = {j}
        BY <2>6, <3>1
      <4> QED
        BY <4>1, FS_Singleton
    <3>2. CASE j \notin 1 .. n
      <4>1. Deadlines(c) = {}
        BY <2>6, <3>2
      <4> QED
        BY <4>1, FS_EmptySet
    <3> QED
      BY <3>1, <3>2
  <2>8. rd[c] => Deadlines(c) = {j}
    BY <2>4, <2>6
  <2>9. life[c] = "deleted" => Deadlines(c) = {}
    BY <2>5, <2>6
  <2> QED
    BY <2>7, <2>8, <2>9 DEF j
<1> QED
  BY <1>1, <1>2, <1>3 DEF CallbacksFindConnection, WaitingHasDeadline, MishapOK

(* For any number of connections and clients, whatever the clients send,   *)
(* leave or are stopped in: a handler of a read, a write or a deadline     *)
(* finds its Connection, unless the server wrote to a client while it      *)
(* wrote, as it only does to one that does not wait for replies; and a     *)
(* connection that waits for its client has one deadline, where its key    *)
(* says.                                                                   *)
THEOREM CallbacksStayFound == ServerSpec => []CallbacksFindConnection
<1>1. ServerInit => HttpInv
  BY HttpInit
<1>2. HttpInv /\ [ServerNext]_serverVars => HttpInv'
  BY HttpStep
<1>3. HttpInv => CallbacksFindConnection
  BY HttpInvFinds
<1> QED
  BY <1>1, <1>2, <1>3, PTL DEF ServerSpec
=============================================================================
