---------------------------- MODULE LthreadQueue ----------------------------
(***************************************************************************)
(* The queues of the L-thread schedulers (lthread_queue.h), the pools of   *)
(* nodes they are made of (lthread_pool.h) and the caches of objects built *)
(* on them (lthread_objcache.h), access by access to what schedulers       *)
(* share.                                                                  *)
(*                                                                         *)
(* An insertion exchanges the head and then links the former head to the   *)
(* new node; in between the list has a gap.  A scheduler takes nodes from  *)
(* its own pool and gives a node back to the pool it came from, which may  *)
(* be another scheduler's.  Only the owner of a queue or a pool removes    *)
(* from it.                                                                *)
(***************************************************************************)
EXTENDS Naturals, Sequences, SequencesExt

CONSTANTS
  Sched,       \* schedulers, 1 .. n
  Queue,       \* queues: <<owner, "ready" | "pready" | "cache">>
  Obj,         \* objects: L-threads, stacks, mutexes
  Prealloc,    \* nodes a pool, and objects a cache, adds when it is empty
  ObjPrealloc,
  MaxNode,     \* bound: nodes there can be
  Plan,        \* what is looked at: [queues, hand, max, nodes, objs], the
               \* queues, the objects schedulers have taken from caches before,
               \* and bounds: the insertions and allocations each begins and
               \* the nodes and objects that memory is enough for
  Beyond       \* go on after a mishap

Node == 1 .. MaxNode
Null == 0
None == "none"
NoQueue == <<>>

VARIABLES
  plan,
  next, data, pool,   \* of each node
  qhead, qtail,       \* of each queue
  head, tail, fast,   \* of each pool: head, tail, fast_alloc
  nodes, objs,        \* allocated so far: how many nodes, which objects
  home,               \* root_sched of each object
  hand,               \* objects a scheduler has at hand
  pc, op, q, it, left,  \* where each scheduler is, the operation, its queue,
                        \* its object, what is left to preallocate
  n, former, back,      \* node at hand or to be linked, the former head, where
                      \* the insertion returns to
  grown,              \* nodes that its _qnode_alloc has preallocated
  line,               \* objects in each queue, in the order of the exchanges
  begun,              \* insertions and allocations so far
  gap,                \* it has found a list end that was a gap
  mishap

poolVars == <<head, tail, fast>>
queueVars == <<qhead, qtail>>
memVars == <<nodes, objs, home>>
opVars == <<op, q, it, left>>
qvars == <<plan, next, data, pool, poolVars, queueVars, memVars, hand, pc, opVars,
           n, former, back, grown, gap, begun, line, mishap>>

Stub(s) == s
Goto(s, label) == pc' = [pc EXCEPT ![s] = label]

-----------------------------------------------------------------------------
(* Lists with their gaps closed: what they will be when every insertion    *)
(* under way has linked its node.                                          *)

Succ ==
  [x \in Node |->
     IF \E s \in Sched : pc[s] = "link" /\ former[s] = x
     THEN n[CHOOSE s \in Sched : pc[s] = "link" /\ former[s] = x]
     ELSE next[x]]

(* The nodes from x on that are not among seen. *)
RECURSIVE Reach(_, _, _)
Reach(succ, x, seen) ==
  IF x = Null \/ x \in seen THEN seen ELSE Reach(succ, succ[x], seen \cup {x})

List(succ, first) == Reach(succ, first, {})

-----------------------------------------------------------------------------
(* Each scheduler has created its pool, which is empty. *)
QueueInit ==
  /\ plan \in Plan
  /\ next = [x \in Node |-> Null] /\ data = [x \in Node |-> None]
  /\ pool = [x \in Node |-> IF x \in Sched THEN x ELSE Null]
  /\ qhead = [r \in Queue |-> Null] /\ qtail = qhead
  /\ head = [s \in Sched |-> Stub(s)] /\ tail = head
  /\ fast = [s \in Sched |-> Null]
  /\ nodes = Cardinality(Sched)
  /\ hand = plan.hand /\ objs = UNION Range(hand)
  /\ home = [o \in Obj |-> IF o \in objs THEN CHOOSE s \in Sched : o \in hand[s] ELSE Null]
  /\ pc = [s \in Sched |-> "create"]
  /\ op = [s \in Sched |-> None] /\ q = [s \in Sched |-> NoQueue]
  /\ it = [s \in Sched |-> None] /\ left = [s \in Sched |-> 0]
  /\ n = [s \in Sched |-> Null] /\ former = n /\ back = op
  /\ grown = [s \in Sched |-> 0] /\ gap = [s \in Sched |-> FALSE]
  /\ line = [r \in Queue |-> <<>>]
  /\ begun = [s \in Sched |-> 0]
  /\ mishap = {}

(* What an insertion and a removal return to. *)
Finish(s) ==
  IF op[s] = "fill"
  THEN /\ Goto(s, "make")
       /\ left' = [left EXCEPT ![s] = @ - 1]
       /\ it' = [it EXCEPT ![s] = None]
       /\ UNCHANGED <<op, q>>
  ELSE /\ Goto(s, IF op[s] = "create" THEN "create" ELSE "idle")
       /\ op' = [op EXCEPT ![s] = None] /\ q' = [q EXCEPT ![s] = NoQueue]
       /\ it' = [it EXCEPT ![s] = None] /\ left' = [left EXCEPT ![s] = 0]

(* Exchange the head of p's list for x, x's link being empty. *)
Exchange(s, p, x, to) ==
  /\ next' = [next EXCEPT ![x] = Null]
  /\ head' = [head EXCEPT ![p] = x]
  /\ former' = [former EXCEPT ![s] = head[p]]
  /\ n' = [n EXCEPT ![s] = x]
  /\ back' = [back EXCEPT ![s] = to]
  /\ Goto(s, "link")

(* prev->next = n, the end of every insertion. *)
Link(s) ==
  /\ pc[s] = "link"
  /\ next' = [next EXCEPT ![former[s]] = n[s]]
  /\ former' = [former EXCEPT ![s] = Null] /\ n' = [n EXCEPT ![s] = Null]
  /\ back' = [back EXCEPT ![s] = None]
  /\ IF back[s] \in {"grow", "swung"}
     THEN Goto(s, back[s]) /\ UNCHANGED opVars
     ELSE Finish(s)
  /\ UNCHANGED <<data, pool, poolVars, queueVars, memVars, hand, grown, gap, mishap>>

-----------------------------------------------------------------------------
(* _qnode_alloc. *)

Same == UNCHANGED <<data, pool, queueVars, memVars, hand, opVars, back, mishap>>

MutAllocFast(s) ==
  /\ pc[s] = "alloc" /\ fast[s] # Null
  /\ n' = [n EXCEPT ![s] = fast[s]]
  /\ Goto(s, "put")
  /\ UNCHANGED <<next, head, tail, fast, former, grown, gap>> /\ Same

AllocFast(s) ==
  /\ pc[s] = "alloc" /\ fast[s] # Null
  /\ n' = [n EXCEPT ![s] = fast[s]]
  /\ fast' = [fast EXCEPT ![s] = Null]
  /\ Goto(s, "put")
  /\ UNCHANGED <<next, head, tail, former, grown, gap>> /\ Same

AllocSlow(s) ==
  /\ pc[s] = "alloc" /\ fast[s] = Null
  /\ Goto(s, "remove")
  /\ grown' = [grown EXCEPT ![s] = 0] /\ gap' = [gap EXCEPT ![s] = FALSE]
  /\ UNCHANGED <<next, poolVars, n, former>> /\ Same

(* _pool_remove: the tail passes the stub.                                 *)
PassStub(s) ==
  LET x == next[Stub(s)]
  IN /\ pc[s] = "remove" /\ tail[s] = Stub(s)
     /\ tail' = [tail EXCEPT ![s] = IF x = Null THEN @ ELSE x]
     /\ Goto(s, IF x = Null THEN "retry" ELSE "passed")
     /\ gap' = [gap EXCEPT ![s] = @ \/ Succ[Stub(s)] # x]
     /\ UNCHANGED <<next, head, fast, n, former, grown>> /\ Same

(* If the tail has a next, the tail is removed; it has none when it is the *)
(* head too, or in a gap.                                                  *)
TakeTail(s, otherwise) ==
  LET x == next[tail[s]]
  IN /\ IF x # Null
        THEN /\ n' = [n EXCEPT ![s] = tail[s]]
             /\ tail' = [tail EXCEPT ![s] = x]
             /\ Goto(s, "put")
        ELSE /\ Goto(s, otherwise)
             /\ UNCHANGED <<n, tail>>
     /\ gap' = [gap EXCEPT ![s] = @ \/ Succ[tail[s]] # x]
     /\ UNCHANGED <<next, head, fast, former, grown>> /\ Same

PoolRemove(s) ==
  /\ pc[s] \in {"passed", "remove"}
  /\ pc[s] = "remove" => tail[s] # Stub(s)
  /\ TakeTail(s, "swing")

(* The last node stays; in a gap the stub is inserted.                     *)
Swing(s) ==
  /\ pc[s] = "swing"
  /\ IF tail[s] = head[s]
     THEN Goto(s, "retry") /\ UNCHANGED <<next, head, former, n, back, mishap>>
     ELSE /\ Exchange(s, s, Stub(s), "swung")
          /\ mishap' = mishap \cup
                       {"stub inserted twice" : x \in List(Succ, tail[s]) \cap {Stub(s)}}
  /\ UNCHANGED <<data, pool, tail, fast, queueVars, memVars, hand, opVars, grown, gap>>

PoolRemoveSwung(s) == pc[s] = "swung" /\ TakeTail(s, "retry")

(* _qnode_pool_remove goes on while the pool does not look empty; then     *)
(* _qnode_alloc adds nodes and tries again, once, and takes it that it now *)
(* has one.                                                                *)
Retry(s) ==
  /\ pc[s] = "retry"
  /\ LET again == head[s] # tail[s] /\ tail[s] # Stub(s)
     IN /\ Goto(s, IF again THEN "remove" ELSE IF grown[s] = 0 THEN "grow" ELSE "dead")
        /\ mishap' = mishap \cup {"no node" : x \in {s} \cap {t \in Sched : ~ again /\ grown[t] > 0}}
  /\ UNCHANGED <<next, data, pool, poolVars, queueVars, memVars, hand, opVars, n, former, back, grown, gap>>

(* A new node goes into the pool. *)
Grow(s) ==
  /\ pc[s] = "grow" /\ grown[s] < Prealloc /\ nodes < plan.nodes
  /\ nodes' = nodes + 1
  /\ pool' = [pool EXCEPT ![nodes'] = s]
  /\ grown' = [grown EXCEPT ![s] = @ + 1]
  /\ Exchange(s, s, nodes', "grow")
  /\ UNCHANGED <<data, tail, fast, queueVars, objs, home, hand, opVars, gap, mishap>>

MutGrown(s) ==
  /\ pc[s] = "grow" /\ grown[s] = Prealloc - 1
  /\ Goto(s, "remove")
  /\ UNCHANGED <<next, poolVars, n, former, grown, gap>> /\ Same

Grown(s) ==
  /\ pc[s] = "grow" /\ grown[s] = Prealloc
  /\ Goto(s, "remove")
  /\ UNCHANGED <<next, poolVars, n, former, grown, gap>> /\ Same

(* No memory: the insertion returns NULL, which nobody looks at, and the   *)
(* object is gone.                                                         *)
GrowFails(s) ==
  /\ pc[s] = "grow" /\ grown[s] < Prealloc /\ nodes = plan.nodes
  /\ op[s] # "create"  (* bound: there is memory to begin with *)
  /\ hand' = [hand EXCEPT ![s] = @ \ {it[s]}]
  /\ Finish(s)
  /\ UNCHANGED <<next, data, pool, poolVars, queueVars, memVars, n, former, back, grown, gap, mishap>>

-----------------------------------------------------------------------------
(* The queues.                                                             *)

(* The next queue of s to be created; then all schedulers are waited for.  *)
Missing(s) == {r \in plan.queues : r[1] = s /\ qhead[r] = Null}
Create(s) ==
  /\ pc[s] = "create"
  /\ IF Missing(s) # {}
     THEN /\ op' = [op EXCEPT ![s] = "create"]
          /\ q' = [q EXCEPT ![s] = CHOOSE r \in Missing(s) : TRUE]
          /\ Goto(s, "alloc")
     ELSE /\ \A r \in plan.queues : qhead[r] # Null
          /\ Goto(s, "idle")
          /\ UNCHANGED <<op, q>>
  /\ UNCHANGED <<next, data, pool, poolVars, queueVars, memVars, hand, it, left, n, former, back, grown, gap, mishap>>

(* The node becomes the queue's first, without data. *)
Created(s) ==
  /\ pc[s] = "put" /\ op[s] = "create"
  /\ next' = [next EXCEPT ![n[s]] = Null]
  /\ qhead' = [qhead EXCEPT ![q[s]] = n[s]] /\ qtail' = [qtail EXCEPT ![q[s]] = n[s]]
  /\ n' = [n EXCEPT ![s] = Null]
  /\ Finish(s)
  /\ UNCHANGED <<data, pool, poolVars, memVars, hand, former, back, grown, gap, mishap>>

(* _lthread_queue_insert_mp: others may insert before prev->next is set; and  *)
(* _lthread_queue_insert_sp, on a queue only its owner inserts into.       *)
Put(s) ==
  /\ pc[s] = "put" /\ op[s] # "create"
  /\ data' = [data EXCEPT ![n[s]] = it[s]]
  /\ line' = [line EXCEPT ![q[s]] = Append(@, it[s])]
  /\ hand' = [hand EXCEPT ![s] = @ \ {it[s]}]
  /\ qhead' = [qhead EXCEPT ![q[s]] = n[s]]
  /\ IF q[s][2] = "ready"
     THEN /\ next' = [next EXCEPT ![n[s]] = Null, ![qhead[q[s]]] = n[s]]
          /\ n' = [n EXCEPT ![s] = Null]
          /\ Finish(s) /\ UNCHANGED <<former, back>>
     ELSE /\ next' = [next EXCEPT ![n[s]] = Null]
          /\ former' = [former EXCEPT ![s] = qhead[q[s]]]
          /\ back' = [back EXCEPT ![s] = "inserted"]
          /\ Goto(s, "link")
          /\ UNCHANGED <<opVars, n>>
  /\ UNCHANGED <<pool, poolVars, qtail, memVars, grown, gap, mishap>>

(* _lthread_queue_poll: the second node becomes the first, its object is   *)
(* taken and the first is freed.                                           *)
Poll(s) ==
  LET t == qtail[q[s]]
      x == next[t]
  IN /\ pc[s] = "poll"
     /\ IF x # Null
        THEN /\ qtail' = [qtail EXCEPT ![q[s]] = x]
             /\ data' = [data EXCEPT ![x] = None]  (* not read again *)
             /\ hand' = [hand EXCEPT ![s] = @ \cup {data[x]}]
             /\ line' = [line EXCEPT ![q[s]] = Tail(@)]
             /\ n' = [n EXCEPT ![s] = t]
             /\ Goto(s, "free") /\ UNCHANGED opVars
        ELSE /\ IF op[s] = "get" THEN Finish(s) ELSE Goto(s, "empty") /\ UNCHANGED opVars
             /\ UNCHANGED <<qtail, data, hand, line, n>>
     /\ UNCHANGED <<next, pool, poolVars, qhead, memVars, former, back, grown, gap, mishap>>

(* _qnode_free: kept for the next allocation, or into its pool.            *)
FreeNode(s) ==
  LET p == pool[n[s]]
  IN /\ pc[s] = "free"
     /\ IF fast[p] # Null \/ p # s
        THEN Exchange(s, p, n[s], "freed") /\ UNCHANGED <<fast, opVars>>
        ELSE /\ fast' = [fast EXCEPT ![p] = n[s]]
             /\ n' = [n EXCEPT ![s] = Null]
             /\ Finish(s)
             /\ UNCHANGED <<next, head, former, back>>
     /\ UNCHANGED <<data, pool, tail, queueVars, memVars, hand, grown, gap, mishap>>

(* _lthread_queue_remove polls until the queue is empty.                   *)
Empty(s) ==
  /\ pc[s] = "empty"
  /\ IF qhead[q[s]] # qtail[q[s]]
     THEN Goto(s, "poll") /\ UNCHANGED opVars
     ELSE IF op[s] = "new"
     THEN /\ Goto(s, "make")
          /\ op' = [op EXCEPT ![s] = "fill"] /\ left' = [left EXCEPT ![s] = ObjPrealloc]
          /\ UNCHANGED <<q, it>>
     ELSE Finish(s)
  /\ UNCHANGED <<next, data, pool, poolVars, queueVars, memVars, hand, n, former, back, grown, gap, mishap>>

(* _lthread_objcache_alloc of an empty cache: new objects are inserted and *)
(* one is removed.                                                         *)
Make(s) ==
  /\ pc[s] = "make" /\ left[s] > 0 /\ objs # plan.objs
  /\ LET o == CHOOSE o \in plan.objs \ objs : TRUE
     IN /\ objs' = objs \cup {o}
        /\ home' = [home EXCEPT ![o] = s]
        /\ hand' = [hand EXCEPT ![s] = @ \cup {o}]
        /\ it' = [it EXCEPT ![s] = o]
  /\ Goto(s, "alloc")
  /\ UNCHANGED <<next, data, pool, poolVars, queueVars, nodes, op, q, left, n, former, back, grown, gap, mishap>>

Made(s) ==
  /\ pc[s] = "make" /\ left[s] = 0
  /\ op' = [op EXCEPT ![s] = "again"]
  /\ Goto(s, "poll")
  /\ UNCHANGED <<next, data, pool, poolVars, queueVars, memVars, hand, q, it, left, n, former, back, grown, gap, mishap>>

MakeFails(s) ==
  /\ pc[s] = "make" /\ left[s] > 0 /\ objs = plan.objs
  /\ Goto(s, "idle")
  /\ op' = [op EXCEPT ![s] = None] /\ q' = [q EXCEPT ![s] = NoQueue]
  /\ left' = [left EXCEPT ![s] = 0]
  /\ UNCHANGED <<next, data, pool, poolVars, queueVars, memVars, hand, it, n, former, back, grown, gap, mishap>>

-----------------------------------------------------------------------------
(* What a scheduler does: it makes an L-thread ready on its own or         *)
(* another scheduler, polls its ready queues, allocates from its caches    *)
(* and frees to the cache an object came from.                             *)

Begin(s, what, r, o, to) ==
  /\ pc[s] = "idle" /\ r \in plan.queues
  /\ begun' = IF what = "get" THEN begun ELSE [begun EXCEPT ![s] = @ + 1]
  /\ begun'[s] <= plan.max[s]
  /\ op' = [op EXCEPT ![s] = what] /\ q' = [q EXCEPT ![s] = r]
  /\ it' = [it EXCEPT ![s] = o]
  /\ Goto(s, to)
  /\ UNCHANGED <<next, data, pool, poolVars, queueVars, memVars, hand, left, n, former, back, grown, gap, line, mishap>>

(* Objects are alike: any of those at hand. *)
AtHand(s) == CHOOSE o \in hand[s] : TRUE
MakeReady(s, t) ==
  /\ hand[s] # {}
  /\ Begin(s, "send", <<t, IF t = s THEN "ready" ELSE "pready">>, AtHand(s), "alloc")
GiveBack(s) ==
  /\ hand[s] # {}
  /\ Begin(s, "send", <<home[AtHand(s)], "cache">>, AtHand(s), "alloc")
GetReady(s, kind) == Begin(s, "get", <<s, kind>>, None, "poll")
NewObject(s) == Begin(s, "new", <<s, "cache">>, None, "poll")

Step(s) ==
  \/ Create(s) \/ Created(s)
  \/ AllocFast(s) \/ AllocSlow(s) \/ PassStub(s) \/ PoolRemove(s) \/ Swing(s)
  \/ PoolRemoveSwung(s) \/ Retry(s) \/ Grow(s) \/ Grown(s) \/ GrowFails(s)
  \/ Link(s) \/ FreeNode(s) \/ Empty(s)
  \/ Make(s) \/ Made(s) \/ MakeFails(s)

QueueNext ==
  /\ Beyond \/ mishap = {}
  /\ UNCHANGED plan
  /\ \E s \in Sched :
       \/ Step(s) /\ UNCHANGED <<begun, line>>
       \/ (Put(s) \/ Poll(s)) /\ UNCHANGED begun
       \/ GiveBack(s) \/ \E t \in Sched : MakeReady(s, t)
       \/ \E kind \in {"ready", "pready"} : GetReady(s, kind)
       \/ NewObject(s)

-----------------------------------------------------------------------------
(* Properties.                                                             *)

QueueChannels ==
  INSTANCE Channel WITH
    Actor <- Sched, Line <- Queue, Item <- Obj,
    Senders <- [r \in Queue |-> IF r[2] = "ready" THEN {r[1]} ELSE Sched],
    Receivers <- [r \in Queue |-> {r[1]}]

(* The queues implement channels: an object takes its place in the queue   *)
(* when the head is exchanged, is received once, and stays in order with   *)
(* the others, with gaps in the list and with nodes that go back and forth *)
(* between the pools, as long as no pool has come apart.                   *)
QueueIsChannel == QueueChannels!Spec

(* Where the nodes are: in a pool, kept by a pool, in a queue, in the hands *)
(* of a scheduler.                                                         *)
Places ==
  LET succ == Succ
  IN UNION {{<<"pool", s>>} \X List(succ, tail[s]) : s \in Sched}
     \cup UNION {{<<"queue", r>>} \X List(succ, qtail[r]) : r \in plan.queues}
     \cup {<<<<"fast", s>>, fast[s]>> : s \in {t \in Sched : fast[t] # Null}}
     \cup {<<<<"hand", s>>, n[s]>> : s \in {t \in Sched : pc[t] \in {"put", "free"}}}

(* "L-threads can free nodes to any pool ... safely": a node is in one     *)
(* place, so nobody is given a node that somebody uses.                    *)
NodesAreExclusive == Cardinality(Places) = Cardinality({p[2] : p \in Places})

(* A pool comes apart, by inserting its stub twice or by being found empty *)
(* right after nodes were added to it, only when its owner has met a gap:  *)
(* an insertion of another scheduler that had exchanged the head and not   *)
(* linked the node yet.                                                    *)
MishapHasCause ==
  mishap # {} => \E s \in Sched : pc[s] \in {"link", "dead"} /\ gap[s]
=============================================================================
