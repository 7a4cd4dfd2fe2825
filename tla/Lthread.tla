------------------------------ MODULE Lthread -------------------------------
(***************************************************************************)
(* liblthread_dpdk: cooperative threads under one scheduler per lcore,     *)
(* their queues, join and exit, cancelling, sleeping, migration, a mutex   *)
(* and a condition variable.  Lcores interleave at every access to what    *)
(* they share; what only the lcore itself touches is done in one step with *)
(* the access before it.  What lthreads do is given by short programs.     *)
(***************************************************************************)
EXTENDS Integers, Sequences, FiniteSets

CONSTANTS
  Lcore,   \* numbers
  Thread,  \* struct lthread's of the caches, whole numbers
  Setup    \* [root : what each lcore creates before lthread_run,
           \*  prog : the operations of each thread, num : num_schedulers]

Null == 0

(* The struct lthread that an operation takes from the caches: that of a   *)
(* new thread, or of the tasklet of lthread_cancel. *)
Taken(op) == IF op[1] = "create" THEN op[2] ELSE IF op[1] = "cancel" THEN op[3] ELSE Null

(* Operations name threads and lcores that there are; a thread does not    *)
(* cancel itself, which is refused. *)
WellNamed(t, op) ==
  /\ op[1] = "create" => op[2] \in Thread /\ op[3] \in Lcore
  /\ op[1] = "cancel" => op[2] \in Thread \ {t} /\ op[3] \in Thread
  /\ op[1] \in {"_cancel", "join"} => op[2] \in Thread
  /\ op[1] = "affinity" => op[2] \in Lcore

(* A struct that is in use is not taken again: each is taken by one        *)
(* operation, or once before lthread_run. *)
TakenOnce(s) ==
  /\ \A c, d \in Lcore : \A i \in DOMAIN s.root[c], j \in DOMAIN s.root[d] :
       s.root[c][i] = s.root[d][j] => c = d /\ i = j
  /\ \A t, u \in Thread : \A i \in DOMAIN s.prog[t], j \in DOMAIN s.prog[u] :
       Taken(s.prog[t][i]) = Taken(s.prog[u][j]) => (t = u /\ i = j) \/ Taken(s.prog[t][i]) = Null
  /\ \A c \in Lcore, t \in Thread : \A i \in DOMAIN s.root[c], j \in DOMAIN s.prog[t] :
       s.root[c][i] # Taken(s.prog[t][j])

(* It is invalid to join a thread that is joined (lthread_join refuses     *)
(* that, but not when the joins race): one operation does it. *)
JoinedOnce(s) ==
  \A t, u \in Thread : \A i \in DOMAIN s.prog[t], j \in DOMAIN s.prog[u] :
    s.prog[t][i][1] = "join" /\ s.prog[u][j][1] = "join" /\ s.prog[t][i][2] = s.prog[u][j][2]
      => t = u /\ i = j

(* Who cancels a thread has its pointer: it has created the thread, or the *)
(* thread was there before lthread_run, on the same lcore or on any if all *)
(* schedulers wait for each other. *)
CancelsKnown(s) ==
  \A t \in Thread : \A i \in DOMAIN s.prog[t] : s.prog[t][i][1] = "cancel" =>
    \/ \E j \in 1 .. i - 1 : s.prog[t][j][1] = "create" /\ s.prog[t][j][2] = s.prog[t][i][2]
    \/ \E c \in Lcore : \E j \in DOMAIN s.root[c] :
         /\ s.root[c][j] = s.prog[t][i][2]
         /\ s.num >= Cardinality(Lcore) \/ \E k \in DOMAIN s.root[c] : s.root[c][k] = t

(* Only the tasklet that lthread_cancel creates for a thread marks it. *)
OnlyTasklets(s) ==
  \A t \in Thread : \A i \in DOMAIN s.prog[t] : s.prog[t][i][1] = "_cancel" =>
    /\ \A c \in Lcore : \A j \in DOMAIN s.root[c] : s.root[c][j] # t
    /\ \A u \in Thread : \A j \in DOMAIN s.prog[u] :
         Taken(s.prog[u][j]) = t => s.prog[u][j][1] = "cancel" /\ s.prog[u][j][2] = s.prog[t][i][2]

ASSUME LthreadAssumption ==
  /\ Lcore \subseteq Nat /\ IsFiniteSet(Lcore)
  /\ Thread \subseteq Nat \ {0} /\ IsFiniteSet(Thread)
  /\ \A s \in Setup :
       /\ s.root \in [Lcore -> Seq(Thread)] /\ s.num \in Nat
       /\ \A t \in Thread : Len(s.prog[t]) \in Nat /\ DOMAIN s.prog[t] = 1 .. Len(s.prog[t])
       /\ \A t \in Thread : \A i \in DOMAIN s.prog[t] : WellNamed(t, s.prog[t][i])
       /\ TakenOnce(s) /\ JoinedOnce(s) /\ CancelsKnown(s) /\ OnlyTasklets(s)

Mutex == <<"mutex", 0>>
Cond == <<"cond", 0>>
Ready(c) == <<"ready", c>>
PReady(c) == <<"pready", c>>
QueueName == {Ready(c) : c \in Lcore} \cup {PReady(c) : c \in Lcore} \cup {Mutex, Cond}
Nowhere == <<>>

VARIABLES
  setup,                \* what the lthreads do
  queue, link,          \* the queues, and the node each lcore has still to link
  sc, cur, next, cb,    \* scheduler: place, current_lthread, where its loop
                        \* goes on, the state the timer callback saved
  nb, run, active, num, \* nb_blocked_threads, run_flag, the two counts
  state, sched, pend,   \* struct lthread: state bits, sched, pending_wr_queue
  join, joiner, got,    \* join, lt_join, what *lt_exit_ptr holds
  timer,                \* the lcore with a thread's timer
  ip, pc, susp,         \* operation, place in it, whether inside _suspend
  un,                   \* `unblocked`
  owner, count, holds,  \* the mutex; who has been told he has it
  mishap                \* what went wrong for good

schedVars == <<sc, cur, next, cb>>
flagVars == <<run, active, num>>
joinVars == <<join, joiner, got>>
mutexVars == <<owner, count, holds>>
vars == <<setup, queue, link, schedVars, nb, flagVars, state, sched, pend, joinVars, timer, ip, pc,
          susp, un, mutexVars, mishap>>

Op(t) == IF ip[t] > Len(setup.prog[t]) THEN <<"return">> ELSE setup.prog[t][ip[t]]
Exists(c) == sc[c] # "off"

Init ==
  /\ setup \in Setup
  /\ queue = [q \in QueueName |-> <<>>] /\ link = [c \in Lcore |-> Nowhere]
  /\ sc = [c \in Lcore |-> "off"] /\ cur = [c \in Lcore |-> Null]
  /\ next = [c \in Lcore |-> "top"] /\ cb = [c \in Lcore |-> Nowhere]
  /\ nb = [c \in Lcore |-> 0] /\ run = [c \in Lcore |-> TRUE]
  /\ active = 0 /\ num = setup.num
  /\ state = [t \in Thread |-> {}] /\ sched = [t \in Thread |-> -1]
  /\ pend = [t \in Thread |-> Nowhere]
  /\ join = [t \in Thread |-> "INITIAL"] /\ joiner = [t \in Thread |-> Null]
  /\ got = [t \in Thread |-> 0]
  /\ timer = [t \in Thread |-> -1]
  /\ ip = [t \in Thread |-> 1] /\ pc = [t \in Thread |-> "op"]
  /\ susp = [t \in Thread |-> FALSE] /\ un = [t \in Thread |-> Null]
  /\ owner = Null /\ count = 0 /\ holds = {}
  /\ mishap = "none"

-----------------------------------------------------------------------------
(* Queues.  An insert by another lcore first moves the head and then links *)
(* the node: until then what is behind it cannot be polled.                *)

Linked(q) == \A c \in Lcore : link[c] # <<q, Head(queue[q])>>
Pollable(q) == queue[q] # <<>> /\ Linked(q)

InsertMp(c, q, t) ==
  /\ queue' = [queue EXCEPT ![q] = Append(@, t)]
  /\ link' = [link EXCEPT ![c] = <<q, t>>]

(* _ready_queue_insert of the scheduler of d, on lcore c *)
ReadyInsert(c, d, t) ==
  IF c = d
  THEN queue' = [queue EXCEPT ![Ready(c)] = Append(@, t)] /\ UNCHANGED link
  ELSE InsertMp(c, PReady(d), t)

Link(c) ==
  /\ link[c] # Nowhere
  /\ link' = [link EXCEPT ![c] = Nowhere]
  /\ UNCHANGED <<setup, queue, schedVars, nb, flagVars, state, sched, pend, joinVars, timer, ip,
                 pc, susp, un, mutexVars, mishap>>

-----------------------------------------------------------------------------
(* The scheduler.                                                          *)

(* _lthread_sched_create and lthread_create of the first threads, then     *)
(* _lthread_schedulers_sync_start.                                         *)
Start(c) ==
  /\ sc[c] = "off"
  /\ sc' = [sc EXCEPT ![c] = "sync"]
  /\ queue' = [queue EXCEPT ![Ready(c)] = setup.root[c]]
  /\ state' = [t \in Thread |-> IF \E i \in 1 .. Len(setup.root[c]) : setup.root[c][i] = t
                                THEN {"INIT"} ELSE state[t]]
  /\ active' = active + 1
  /\ UNCHANGED <<setup, link, cur, next, cb, nb, run, num, sched, pend, joinVars, timer, ip, pc,
                 susp, un, mutexVars, mishap>>

Synced(c) ==
  /\ sc[c] = "sync" /\ active >= num
  /\ sc' = [sc EXCEPT ![c] = "top"]
  /\ UNCHANGED <<setup, queue, link, cur, next, cb, nb, flagVars, state, sched, pend, joinVars,
                 timer, ip, pc, susp, un, mutexVars, mishap>>

(* _lthread_sched_isdone: read in one step, as run_flag is never set again *)
(* and only pready changes by another lcore.                               *)
IsDone(c) == ~run[c] /\ queue[Ready(c)] = <<>> /\ queue[PReady(c)] = <<>> /\ nb[c] = 0

Top(c) ==
  /\ sc[c] = "top"
  /\ IF IsDone(c)
     THEN /\ sc' = [sc EXCEPT ![c] = "stop"]
          /\ active' = active - 1 /\ num' = num - 1
     ELSE /\ sc' = [sc EXCEPT ![c] = "ready"]
          /\ UNCHANGED <<active, num>>
  /\ UNCHANGED <<setup, queue, link, cur, next, cb, nb, run, state, sched, pend, joinVars, timer,
                 ip, pc, susp, un, mutexVars, mishap>>

(* _lthread_schedulers_sync_stop *)
Stopped(c) ==
  /\ sc[c] = "stop" /\ active = 0
  /\ sc' = [sc EXCEPT ![c] = "stopped"]
  /\ UNCHANGED <<setup, queue, link, cur, next, cb, nb, flagVars, state, sched, pend, joinVars,
                 timer, ip, pc, susp, un, mutexVars, mishap>>

MutResume(c, t, st, n) ==
  /\ cur' = [cur EXCEPT ![c] = t] /\ sc' = [sc EXCEPT ![c] = "run"]
  /\ sched' = IF "INIT" \in st THEN [sched EXCEPT ![t] = c] ELSE sched
  /\ state' = [state EXCEPT ![t] = IF "INIT" \in st THEN {"READY"} ELSE st]
  /\ susp' = [susp EXCEPT ![t] = FALSE]
  /\ nb' = [nb EXCEPT ![c] = IF susp[t] THEN n - 1 ELSE n]

(* _lthread_resume of a thread in state st, nb_blocked_threads being n.    *)
(* The first thing a thread does after _suspend is to count itself out.    *)
Resume(c, t, st, n) ==
  IF "DETACH" \in st /\ st \cap {"CANCELLED", "EXITED"} # {}
  THEN /\ state' = [state EXCEPT ![t] = {"FREED"}]
       /\ cur' = [cur EXCEPT ![c] = Null] /\ sc' = [sc EXCEPT ![c] = "back"]
       /\ nb' = [nb EXCEPT ![c] = n]
       /\ susp' = [susp EXCEPT ![t] = @ /\ n = nb[c]]
       /\ UNCHANGED sched
  ELSE /\ cur' = [cur EXCEPT ![c] = t] /\ sc' = [sc EXCEPT ![c] = "run"]
       /\ sched' = IF "INIT" \in st THEN [sched EXCEPT ![t] = c] ELSE sched
       /\ state' = [state EXCEPT ![t] = IF "INIT" \in st THEN {"READY"} ELSE st]
       /\ susp' = [susp EXCEPT ![t] = FALSE]
       /\ nb' = [nb EXCEPT ![c] = IF susp[t] THEN n - 1 ELSE n]

(* rte_timer_manage: an expired timer of this lcore calls _sched_timer_cb. *)
TimerExpires(c, t) ==
  /\ sc[c] = "ready" /\ timer[t] = c
  /\ timer' = [timer EXCEPT ![t] = -1]
  /\ Resume(c, t, state[t] \cup {"EXPIRED"}, IF "CANCELLED" \in state[t] THEN nb[c] - 1 ELSE nb[c])
  /\ next' = [next EXCEPT ![c] = "timer"]
  /\ cb' = [cb EXCEPT ![c] = <<t, state[t] \ {"EXPIRED"}>>]
  /\ UNCHANGED <<setup, queue, link, flagVars, pend, joinVars, ip, pc, un, mutexVars, mishap>>

Poll(c, q, here, there) ==
  /\ sc[c] = here
  /\ IF Pollable(q)
     THEN LET t == Head(queue[q])
          IN /\ queue' = [queue EXCEPT ![q] = Tail(@)]
             /\ Resume(c, t, state[t], nb[c])
             /\ next' = [next EXCEPT ![c] = there]
     ELSE /\ sc' = [sc EXCEPT ![c] = there]
          /\ UNCHANGED <<queue, cur, next, nb, state, sched, susp>>
  /\ UNCHANGED <<setup, link, cb, flagVars, pend, joinVars, timer, ip, pc, un, mutexVars, mishap>>

PollReady(c) == Poll(c, Ready(c), "ready", "pready")
PollPReady(c) == Poll(c, PReady(c), "pready", "top")

(* Back in _lthread_resume after the thread's ctx_switch: the pending      *)
(* queue is written now that the context is saved.                         *)
SwitchedBack(c) ==
  /\ sc[c] = "back"
  /\ LET t == cur[c]
     IN IF t # Null /\ pend[t] # Nowhere
        THEN InsertMp(c, pend[t], t) /\ pend' = [pend EXCEPT ![t] = Nowhere]
        ELSE UNCHANGED <<queue, link, pend>>
  /\ cur' = [cur EXCEPT ![c] = Null]
  /\ sc' = [sc EXCEPT ![c] = next[c]] /\ next' = [next EXCEPT ![c] = "top"]
  /\ UNCHANGED <<setup, nb, flagVars, state, sched, joinVars, timer, ip, pc, susp, un, mutexVars,
                 cb, mishap>>

(* _sched_timer_cb puts back the state it read before the thread ran.      *)
Restore(c) ==
  /\ sc[c] = "timer"
  /\ IF "FREED" \in state[cb[c][1]]
     THEN mishap' = "freed" /\ UNCHANGED state
     ELSE state' = [state EXCEPT ![cb[c][1]] = cb[c][2]] /\ UNCHANGED mishap
  /\ sc' = [sc EXCEPT ![c] = "ready"] /\ cb' = [cb EXCEPT ![c] = Nowhere]
  /\ UNCHANGED <<setup, queue, link, cur, next, nb, flagVars, sched, pend, joinVars, timer, ip, pc,
                 susp, un, mutexVars>>

(* What a scheduler does while no thread runs. *)
Schedule(c) ==
  \/ Start(c) \/ Synced(c) \/ Top(c) \/ Stopped(c) \/ PollReady(c) \/ PollPReady(c)
  \/ \E t \in Thread : TimerExpires(c, t)
  \/ SwitchedBack(c) \/ Restore(c)

-----------------------------------------------------------------------------
(* Steps of the thread t that lcore c runs.                                *)

At(c, t, place) == sc[c] = "run" /\ cur[c] = t /\ pc[t] = place
Calls(c, t, f) == At(c, t, "op") /\ Op(t)[1] = f
Goto(t, place) == pc' = [pc EXCEPT ![t] = place] /\ UNCHANGED ip
Advance(t) == pc' = [pc EXCEPT ![t] = "op"] /\ ip' = [ip EXCEPT ![t] = @ + 1]

(* ctx_switch to the scheduler; _suspend counts the thread before. *)
Switch(c) == sc' = [sc EXCEPT ![c] = "back"] /\ UNCHANGED <<nb, susp>>
MutSuspend(c, t) ==
  /\ sc' = [sc EXCEPT ![c] = "back"]
  /\ susp' = [susp EXCEPT ![t] = TRUE] /\ UNCHANGED nb
Suspend(c, t) ==
  /\ sc' = [sc EXCEPT ![c] = "back"]
  /\ susp' = [susp EXCEPT ![t] = TRUE]
  /\ nb' = [nb EXCEPT ![c] = @ + 1]
Stay == UNCHANGED <<sc, nb, susp>>

Same == UNCHANGED <<setup, cur, next, cb>>

Yield(c, t) ==
  /\ Calls(c, t, "yield")
  /\ ReadyInsert(c, c, t) /\ Switch(c) /\ Advance(t) /\ Same
  /\ UNCHANGED <<flagVars, state, sched, pend, joinVars, timer, un, mutexVars, mishap>>

Sleep(c, t) ==
  /\ Calls(c, t, "sleep")
  /\ timer' = [timer EXCEPT ![t] = c]
  /\ state' = [state EXCEPT ![t] = @ \cup {"SLEEPING"}]
  /\ Suspend(c, t) /\ Advance(t) /\ Same
  /\ UNCHANGED <<queue, link, flagVars, sched, pend, joinVars, un, mutexVars, mishap>>

MutSetAffinity(c, t) ==
  /\ Calls(c, t, "affinity") /\ Advance(t) /\ Same
  /\ LET d == Op(t)[2]
     IN IF Exists(d) /\ d # c
        THEN /\ sched' = [sched EXCEPT ![t] = d]
             /\ InsertMp(c, PReady(d), t) /\ Switch(c)
        ELSE Stay /\ UNCHANGED <<sched, queue, link>>
  /\ UNCHANGED <<flagVars, state, pend, joinVars, timer, un, mutexVars, mishap>>

SetAffinity(c, t) ==
  /\ Calls(c, t, "affinity") /\ Advance(t) /\ Same
  /\ LET d == Op(t)[2]
     IN IF Exists(d) /\ d # c
        THEN /\ sched' = [sched EXCEPT ![t] = d]
             /\ pend' = [pend EXCEPT ![t] = PReady(d)]
             /\ Switch(c)
        ELSE Stay /\ UNCHANGED <<sched, pend>>
  /\ UNCHANGED <<queue, link, flagVars, state, joinVars, timer, un, mutexVars, mishap>>

Detach(c, t) ==
  /\ Calls(c, t, "detach") /\ Advance(t) /\ Stay /\ Same
  /\ state' = [state EXCEPT ![t] = @ \cup {"DETACH"}]
  /\ UNCHANGED <<queue, link, flagVars, sched, pend, joinVars, timer, un, mutexVars, mishap>>

(* lthread_create of u for the scheduler of d, which may not exist yet *)
NewThread(c, u, d) ==
  IF Exists(d)
  THEN /\ state' = [state EXCEPT ![u] = {"INIT"}]
       /\ ReadyInsert(c, d, u) /\ UNCHANGED mishap
  ELSE mishap' = "noSched" /\ UNCHANGED <<state, queue, link>>

Create(c, t) ==
  /\ Calls(c, t, "create") /\ Advance(t) /\ Stay /\ Same
  /\ NewThread(c, Op(t)[2], Op(t)[3])
  /\ UNCHANGED <<flagVars, sched, pend, joinVars, timer, un, mutexVars>>

(* lthread_cancel: a thread of another lcore is marked by a tasklet there. *)
Cancel(c, t) ==
  /\ Calls(c, t, "cancel") /\ Advance(t) /\ Stay /\ Same
  /\ LET u == Op(t)[2]
     IN IF sched[u] = c
        THEN /\ state' = [state EXCEPT ![u] = @ \cup {"CANCELLED"}]
             /\ UNCHANGED <<queue, link, mishap>>
        ELSE IF sched[u] = -1
        THEN mishap' = "unborn" /\ UNCHANGED <<state, queue, link>>
        ELSE NewThread(c, Op(t)[3], sched[u])
  /\ UNCHANGED <<flagVars, sched, pend, joinVars, timer, un, mutexVars>>

(* The tasklet detaches itself, not the thread it cancels. *)
CancelTasklet(c, t) ==
  /\ Calls(c, t, "_cancel") /\ Advance(t) /\ Stay /\ Same
  /\ state' = [state EXCEPT ![Op(t)[2]] = @ \cup {"CANCELLED"}, ![t] = @ \cup {"DETACH"}]
  /\ UNCHANGED <<queue, link, flagVars, sched, pend, joinVars, timer, un, mutexVars, mishap>>

(* lthread_scheduler_shutdown_all, which waits for every scheduler's start *)
ShutdownAll(c, t) ==
  /\ Calls(c, t, "shutdown_all") /\ active >= num /\ Advance(t) /\ Stay /\ Same
  /\ run' = [d \in Lcore |-> run[d] /\ ~Exists(d)]
  /\ UNCHANGED <<queue, link, active, num, state, sched, pend, joinVars, timer, un, mutexVars, mishap>>

-----------------------------------------------------------------------------
(* lthread_exit, lthread_join.                                             *)

(* The function returned: _lthread_exit_handler. *)
Return(c, t) ==
  /\ Calls(c, t, "return") /\ Stay /\ Same
  /\ state' = [state EXCEPT ![t] = @ \cup {"EXITED"}]
  /\ Goto(t, IF "DETACH" \in state[t] THEN "leave" ELSE "exit")
  /\ UNCHANGED <<queue, link, flagVars, sched, pend, joinVars, timer, un, mutexVars, mishap>>

ExitCall(c, t) ==
  /\ Calls(c, t, "exit") /\ Stay /\ Same
  /\ IF "DETACH" \in state[t] THEN Advance(t) ELSE Goto(t, "exit")
  /\ UNCHANGED <<queue, link, flagVars, state, sched, pend, joinVars, timer, un, mutexVars, mishap>>

ExitFirst(c, t) ==
  /\ At(c, t, "exit") /\ join[t] = "INITIAL"
  /\ join' = [join EXCEPT ![t] = "EXITING"]
  /\ Suspend(c, t) /\ Goto(t, "exitval") /\ Same
  /\ UNCHANGED <<queue, link, flagVars, state, sched, pend, joiner, got, timer, un, mutexVars, mishap>>

ExitValue(t) == IF Op(t)[1] = "exit" THEN Op(t)[2] ELSE Null
SetValue(t) ==
  /\ got' = IF ExitValue(t) # Null THEN [got EXCEPT ![joiner[t]] = ExitValue(t)] ELSE got
  /\ join' = [join EXCEPT ![t] = "EXIT_VAL_SET"]

(* somebody joined while it was suspended *)
ExitResumed(c, t) ==
  /\ At(c, t, "exitval") /\ SetValue(t) /\ Goto(t, "exitwait") /\ Stay /\ Same
  /\ UNCHANGED <<queue, link, flagVars, state, sched, pend, joiner, timer, un, mutexVars, mishap>>

MutExitSecond(c, t) ==
  /\ At(c, t, "exit") /\ join[t] # "INITIAL"
  /\ SetValue(t) /\ Goto(t, "exitwait") /\ Stay /\ Same
  /\ UNCHANGED <<queue, link, flagVars, state, sched, pend, joiner, timer, un, mutexVars, mishap>>

(* somebody has joined before *)
ExitSecond(c, t) ==
  /\ At(c, t, "exit") /\ join[t] # "INITIAL"
  /\ SetValue(t) /\ Goto(t, "exitwake") /\ Stay /\ Same
  /\ UNCHANGED <<queue, link, flagVars, state, sched, pend, joiner, timer, un, mutexVars, mishap>>

ExitWakes(c, t) ==
  /\ At(c, t, "exitwake")
  /\ ReadyInsert(c, sched[joiner[t]], joiner[t])
  /\ Goto(t, "exitwait") /\ Stay /\ Same
  /\ UNCHANGED <<flagVars, state, sched, pend, joinVars, timer, un, mutexVars, mishap>>

(* The value was collected: detached, so that it can be freed.  A thread   *)
(* that called lthread_exit itself goes on with its function.              *)

ExitCollected(c, t) ==
  /\ At(c, t, "exitwait") /\ join[t] = "EXIT_VAL_READ" /\ Stay /\ Same
  /\ join' = [join EXCEPT ![t] = "INITIAL"]
  /\ state' = [state EXCEPT ![t] = @ \cup {"DETACH", "EXITED"}]
  /\ IF Op(t)[1] = "return" THEN Goto(t, "leave") ELSE Advance(t)
  /\ UNCHANGED <<queue, link, flagVars, sched, pend, joiner, got, timer, un, mutexVars, mishap>>

Reschedule(c, t, place) ==
  /\ ReadyInsert(c, c, t) /\ Switch(c) /\ Goto(t, place) /\ Same
  /\ UNCHANGED <<flagVars, state, sched, pend, joinVars, timer, un, mutexVars, mishap>>

ExitWaits(c, t) == At(c, t, "exitwait") /\ join[t] # "EXIT_VAL_READ" /\ Reschedule(c, t, "exitwait")

(* The scheduler should now free it and never come back. *)
Leave(c, t) == At(c, t, "leave") /\ Reschedule(c, t, "left")

Derail(c, t) ==
  /\ At(c, t, "left")
  /\ mishap' = "derailed"
  /\ UNCHANGED <<setup, queue, link, schedVars, nb, flagVars, state, sched, pend, joinVars, timer,
                 ip, pc, susp, un, mutexVars>>

JoinCall(c, t) ==
  /\ Calls(c, t, "join") /\ Stay /\ Same
  /\ LET u == Op(t)[2]
     IN IF "DETACH" \in state[u] \/ join[u] = "THREAD_SET"
        THEN Advance(t) /\ UNCHANGED joiner
        ELSE Goto(t, "join") /\ joiner' = [joiner EXCEPT ![u] = t]
  /\ UNCHANGED <<queue, link, flagVars, state, sched, pend, join, got, timer, un, mutexVars, mishap>>

JoinFirst(c, t) ==
  /\ At(c, t, "join") /\ join[Op(t)[2]] = "INITIAL" /\ Same
  /\ join' = [join EXCEPT ![Op(t)[2]] = "THREAD_SET"]
  /\ Suspend(c, t) /\ Goto(t, "joinwait")
  /\ UNCHANGED <<queue, link, flagVars, state, sched, pend, joiner, got, timer, un, mutexVars, mishap>>

JoinSecond(c, t) ==
  /\ At(c, t, "join") /\ join[Op(t)[2]] # "INITIAL" /\ Stay /\ Same
  /\ ReadyInsert(c, sched[Op(t)[2]], Op(t)[2]) /\ Goto(t, "joinwait")
  /\ UNCHANGED <<flagVars, state, sched, pend, joinVars, timer, un, mutexVars, mishap>>

JoinWaits(c, t) ==
  /\ At(c, t, "joinwait") /\ join[Op(t)[2]] # "EXIT_VAL_SET" /\ Reschedule(c, t, "joinwait")

JoinCollects(c, t) ==
  /\ At(c, t, "joinwait") /\ join[Op(t)[2]] = "EXIT_VAL_SET" /\ Advance(t) /\ Stay /\ Same
  /\ join' = [join EXCEPT ![Op(t)[2]] = "EXIT_VAL_READ"]
  /\ UNCHANGED <<queue, link, flagVars, state, sched, pend, joiner, got, timer, un, mutexVars, mishap>>

-----------------------------------------------------------------------------
(* lthread_mutex: count is of the owner and of those who wait or try.      *)

Owned(t) == owner' = t /\ holds' = holds \cup {t}

(* No recursion.  A thread woken by an unlock competes again. *)
LockCall(c, t) ==
  /\ Calls(c, t, "lock") \/ At(c, t, "lock")
  /\ Stay /\ Same
  /\ IF owner = t THEN Advance(t) /\ UNCHANGED count
     ELSE Goto(t, "lockcas") /\ count' = count + 1
  /\ UNCHANGED <<queue, link, flagVars, state, sched, pend, joinVars, timer, un, owner, holds, mishap>>

LockCas(c, t) ==
  /\ At(c, t, "lockcas") /\ Stay /\ Same
  /\ IF owner = Null THEN Owned(t) /\ Advance(t)
     ELSE Goto(t, "lockcount") /\ UNCHANGED <<owner, holds>>
  /\ UNCHANGED <<queue, link, flagVars, state, sched, pend, joinVars, timer, un, count, mishap>>

(* Block unless count = 1 and, read after that, the mutex has no owner.    *)
Block(c, t) == pend' = [pend EXCEPT ![t] = Mutex] /\ Suspend(c, t) /\ Goto(t, "lock")

LockCount(c, t) ==
  /\ At(c, t, "lockcount") /\ Same
  /\ IF count = 1 THEN Goto(t, "lockowner") /\ Stay /\ UNCHANGED pend ELSE Block(c, t)
  /\ UNCHANGED <<queue, link, flagVars, state, sched, joinVars, timer, un, mutexVars, mishap>>

LockOwner(c, t) ==
  /\ At(c, t, "lockowner") /\ Same
  /\ IF owner = Null THEN Goto(t, "lockcas") /\ Stay /\ UNCHANGED pend ELSE Block(c, t)
  /\ UNCHANGED <<queue, link, flagVars, state, sched, joinVars, timer, un, mutexVars, mishap>>

TrylockCall(c, t) ==
  /\ Calls(c, t, "trylock") /\ Stay /\ Same
  /\ IF owner = t THEN Advance(t) /\ UNCHANGED count
     ELSE Goto(t, "try") /\ count' = count + 1
  /\ UNCHANGED <<queue, link, flagVars, state, sched, pend, joinVars, timer, un, owner, holds, mishap>>

TrylockCas(c, t) ==
  /\ At(c, t, "try") /\ Stay /\ Same
  /\ IF owner = Null THEN Owned(t) /\ Advance(t)
     ELSE Goto(t, "busy") /\ UNCHANGED <<owner, holds>>
  /\ UNCHANGED <<queue, link, flagVars, state, sched, pend, joinVars, timer, un, count, mishap>>

TrylockBusy(c, t) ==
  /\ At(c, t, "busy") /\ Advance(t) /\ Stay /\ Same
  /\ count' = count - 1
  /\ UNCHANGED <<queue, link, flagVars, state, sched, pend, joinVars, timer, un, owner, holds, mishap>>

MutUnlockCall(c, t) ==
  /\ Calls(c, t, "unlock") /\ Stay /\ Same
  /\ Goto(t, "check") /\ count' = count - 1 /\ holds' = holds \ {t}
  /\ UNCHANGED <<queue, link, flagVars, state, sched, pend, joinVars, timer, un, owner, mishap>>

UnlockCall(c, t) ==
  /\ Calls(c, t, "unlock") /\ Stay /\ Same
  /\ IF owner # t THEN Advance(t) /\ UNCHANGED <<count, holds>>
     ELSE Goto(t, "check") /\ count' = count - 1 /\ holds' = holds \ {t}
  /\ UNCHANGED <<queue, link, flagVars, state, sched, pend, joinVars, timer, un, owner, mishap>>

MutUnlockCheck(c, t) ==
  /\ At(c, t, "check") /\ Goto(t, IF count > 1 THEN "remove" ELSE "release") /\ Stay /\ Same
  /\ UNCHANGED <<queue, link, flagVars, state, sched, pend, joinVars, timer, un, mutexVars, mishap>>

UnlockCheck(c, t) ==
  /\ At(c, t, "check") /\ Goto(t, IF count > 0 THEN "remove" ELSE "release") /\ Stay /\ Same
  /\ UNCHANGED <<queue, link, flagVars, state, sched, pend, joinVars, timer, un, mutexVars, mishap>>

(* _lthread_queue_remove retries while the queue is not empty and its      *)
(* first node not linked; found and empty say where the caller goes on.    *)
Remove(c, t, q, found, empty) ==
  /\ Stay /\ Same
  /\ \/ /\ Pollable(q) /\ Goto(t, found)
        /\ queue' = [queue EXCEPT ![q] = Tail(@)] /\ un' = [un EXCEPT ![t] = Head(queue[q])]
     \/ queue[q] = <<>> /\ empty /\ UNCHANGED <<queue, un>>
  /\ UNCHANGED <<link, flagVars, state, sched, pend, joinVars, timer, mutexVars, mishap>>

UnlockRemove(c, t) == At(c, t, "remove") /\ Remove(c, t, Mutex, "wake", Goto(t, "check"))

(* Makes the thread in `unblocked` ready. *)
Wake(c, t) ==
  /\ ReadyInsert(c, sched[un[t]], un[t]) /\ un' = [un EXCEPT ![t] = Null]
  /\ Stay /\ Same
  /\ UNCHANGED <<flagVars, state, sched, pend, joinVars, timer, owner, holds, mishap>>

UnlockWakes(c, t) == At(c, t, "wake") /\ Wake(c, t) /\ count' = count - 1 /\ Goto(t, "release")

UnlockReleases(c, t) ==
  /\ At(c, t, "release") /\ Advance(t) /\ Stay /\ Same
  /\ owner' = Null
  /\ UNCHANGED <<queue, link, flagVars, state, sched, pend, joinVars, timer, un, count, holds, mishap>>

-----------------------------------------------------------------------------
(* lthread_cond.                                                           *)

CondWait(c, t) ==
  /\ Calls(c, t, "wait") /\ Same
  /\ pend' = [pend EXCEPT ![t] = Cond] /\ Suspend(c, t) /\ Advance(t)
  /\ UNCHANGED <<queue, link, flagVars, state, sched, joinVars, timer, un, mutexVars, mishap>>

CondSignal(c, t) == Calls(c, t, "signal") /\ Remove(c, t, Cond, "signalled", Advance(t))
CondSignals(c, t) == At(c, t, "signalled") /\ Wake(c, t) /\ UNCHANGED count /\ Advance(t)

CondBroadcast(c, t) ==
  Calls(c, t, "broadcast") /\ Remove(c, t, Cond, "broadcast", Goto(t, "broadcasted"))
CondBroadcasts(c, t) == At(c, t, "broadcast") /\ Wake(c, t) /\ UNCHANGED count /\ Goto(t, "op")
CondYields(c, t) ==
  /\ At(c, t, "broadcasted") /\ ReadyInsert(c, c, t) /\ Switch(c) /\ Advance(t) /\ Same
  /\ UNCHANGED <<flagVars, state, sched, pend, joinVars, timer, un, mutexVars, mishap>>

-----------------------------------------------------------------------------
ThreadStep(c, t) ==
  \/ Yield(c, t) \/ Sleep(c, t) \/ SetAffinity(c, t) \/ Detach(c, t)
  \/ Create(c, t) \/ Cancel(c, t) \/ CancelTasklet(c, t) \/ ShutdownAll(c, t)
  \/ Return(c, t) \/ ExitCall(c, t) \/ ExitFirst(c, t) \/ ExitResumed(c, t) \/ ExitSecond(c, t)
  \/ ExitWakes(c, t) \/ ExitCollected(c, t) \/ ExitWaits(c, t) \/ Leave(c, t) \/ Derail(c, t)
  \/ JoinCall(c, t) \/ JoinFirst(c, t) \/ JoinSecond(c, t) \/ JoinWaits(c, t) \/ JoinCollects(c, t)
  \/ LockCall(c, t) \/ LockCas(c, t) \/ LockCount(c, t) \/ LockOwner(c, t)
  \/ TrylockCall(c, t) \/ TrylockCas(c, t) \/ TrylockBusy(c, t)
  \/ UnlockCall(c, t) \/ UnlockCheck(c, t) \/ UnlockRemove(c, t) \/ UnlockWakes(c, t)
  \/ UnlockReleases(c, t)
  \/ CondWait(c, t) \/ CondSignal(c, t) \/ CondSignals(c, t)
  \/ CondBroadcast(c, t) \/ CondBroadcasts(c, t) \/ CondYields(c, t)

Idle(c) == mishap = "none" /\ link[c] = Nowhere

LcoreStep(c) ==
  \/ mishap = "none" /\ Link(c)
  \/ Idle(c) /\ Schedule(c)
  \/ Idle(c) /\ \E t \in Thread : ThreadStep(c, t)

Next == \E c \in Lcore : LcoreStep(c)

(* Every lcore runs, and rte_timer_manage, called in every round, finds a  *)
(* timer expired some day.                                                 *)
Spec ==
  /\ Init /\ [][Next]_vars
  /\ \A c \in Lcore : WF_vars(LcoreStep(c))
  /\ \A c \in Lcore, t \in Thread : SF_vars(Idle(c) /\ TimerExpires(c, t))

-----------------------------------------------------------------------------
(* Properties.                                                             *)

Alive(t) == state[t] # {} /\ "FREED" \notin state[t]

(* Where a thread is that no lcore runs. *)
Places(t) ==
  (UNION {{<<q, i>> : i \in {j \in 1 .. Len(queue[q]) : queue[q][j] = t}} : q \in QueueName})
  \cup {<<"timer", x>> : x \in {c \in Lcore : timer[t] = c}}
  \cup {<<"woken by", x>> : x \in {u \in Thread : un[u] = t}}

On(t) == {c \in Lcore : cur[c] = t}
Parked(t) == susp[t] /\ pc[t] \in {"joinwait", "exitval"}

(* A thread is never run by two lcores, or run while some queue, timer or  *)
(* waker has it too, and a freed one is nowhere; one that is alive is      *)
(* somewhere or waits in a join or an exit.  Queue writes that other       *)
(* lcores see are deferred for this until the context is saved.            *)
OnePlace ==
  mishap = "none" => \A t \in Thread :
    /\ Cardinality(On(t)) <= 1 /\ Cardinality(Places(t)) <= 1
    /\ \A c \in On(t) : sc[c] = "run" => Places(t) = {}
    /\ "FREED" \in state[t] => On(t) = {} /\ Places(t) = {}
    /\ Alive(t) => On(t) # {} \/ Places(t) # {} \/ Parked(t)

(* Who has been told that he has the mutex is alone, in whatever order     *)
(* lcores lock, try, unlock, wake and block.                               *)
MutexExcludes == \A t \in holds : holds = {t} /\ owner = t

Does(t, f) == \E i \in 1 .. Len(setup.prog[t]) : setup.prog[t][i][1] = f

(* lthread_sleep, called by itself or by libsusanow *)
SleepOps == {"sleep", "ssn_sleep", "dummy"}
CancelsSleeper ==
  \E t, u \in Thread : \E i \in DOMAIN setup.prog[t], j \in DOMAIN setup.prog[u] :
    /\ setup.prog[t][i][1] = "cancel" /\ setup.prog[t][i][2] = u
    /\ setup.prog[u][j][1] \in SleepOps
    /\ \A k \in 1 .. j - 1 : setup.prog[u][k][1] # "detach"

(* A scheduler that has left its loop has left no thread behind, if no     *)
(* other lcore sends it one.                                               *)
Sent(t) == Does(t, "create") \/ Does(t, "affinity") \/ Does(t, "cancel")
StoppedIsIdle ==
  (\A t \in Thread : ~Sent(t)) =>
     \A c \in Lcore, t \in Thread : sc[c] \in {"stop", "stopped"} /\ sched[t] = c => ~Alive(t)

(* A scheduler never waits for more of its threads than are suspended, and *)
(* it knows exactly how many they are, so it does not stop without them.   *)
(* Only a sleeper cancelled before its timer expires is counted out twice, *)
(* unless it has detached itself and the timer frees it.                   *)
Suspended(c) == {t \in Thread : susp[t] /\ sched[t] = c}
SuspendedAreCounted ==
  /\ \A c \in Lcore : nb[c] <= Cardinality(Suspended(c))
  /\ CancelsSleeper \/ \A c \in Lcore : nb[c] = Cardinality(Suspended(c))
  /\ StoppedIsIdle

(* Only a create for an lcore whose scheduler has not started goes to a    *)
(* scheduler that does not exist, never if num_schedulers is set; only the *)
(* cancelling of a thread that has not run yet looks for its lcore in vain;*)
(* only the old state bits of the timer callback make a thread run past    *)
(* its end or have it written to when it is free.                          *)
MishapsHaveCauses ==
  /\ mishap = "noSched" => setup.num < Cardinality(Lcore)
  /\ mishap = "unborn" => \E t \in Thread : Does(t, "cancel") /\ \E u \in Thread : state[u] = {"INIT"}
  /\ mishap \in {"freed", "derailed"} => \E t \in Thread : \E f \in SleepOps : Does(t, f)

Locking(t) == pc[t] \in {"lock", "lockcas", "lockcount", "lockowner"}

(* Among the threads of one lcore, an lthread_mutex_lock returns if those  *)
(* who have the mutex unlock it.                                           *)
LocksAreGranted == \A t \in Thread : setup.num = 1 /\ Locking(t) ~> ~Locking(t)

(* A join returns if the joined thread ends, on the same lcore or not.     *)
JoinsReturn == \A t \in Thread : pc[t] \in {"join", "joinwait"} ~> pc[t] = "op" \/ mishap # "none"

=============================================================================
