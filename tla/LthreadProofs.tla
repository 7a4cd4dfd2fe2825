---------------------------- MODULE LthreadProofs ----------------------------
(***************************************************************************)
(* Proofs about lthreads, for any number of lcores and threads, whatever   *)
(* their programs are.                                                     *)
(***************************************************************************)
EXTENDS ThreadLocal, TLAPS, FiniteSetTheorems

(* Where lthread_mutex_unlock is between the caller's last use of what the *)
(* mutex protects and the end of his ownership.                            *)
Releasing == {"check", "remove", "wake", "release"}

(* Who has been told that he has the mutex owns it, and so does who is     *)
(* giving it back, who no longer counts as having it.  An unlock by        *)
(* somebody else is refused before it gets that far.                       *)
MutexInv ==
  /\ pc = [t \in Thread |-> pc[t]]
  /\ \A t \in holds : t \in Thread /\ owner = t
  /\ \A t \in Thread : pc[t] \in Releasing => owner = t /\ t \notin holds

-----------------------------------------------------------------------------
(* Steps that leave the mutex alone and go to no place of an unlock.       *)
Elsewhere ==
  /\ UNCHANGED <<owner, holds>>
  /\ \/ UNCHANGED pc
     \/ \E t \in Thread : \E place : place \notin Releasing /\ pc' = [pc EXCEPT ![t] = place]

LEMMA ElsewhereKeeps ==
  ASSUME MutexInv, Elsewhere
  PROVE  MutexInv'
<1>1. CASE UNCHANGED pc
  BY <1>1 DEF MutexInv, Elsewhere
<1>2. CASE \E t \in Thread : \E place : place \notin Releasing /\ pc' = [pc EXCEPT ![t] = place]
  <2>1. PICK t \in Thread : \E place : place \notin Releasing /\ pc' = [pc EXCEPT ![t] = place]
    BY <1>2
  <2>2. PICK place : place \notin Releasing /\ pc' = [pc EXCEPT ![t] = place]
    BY <2>1
  <2>3. \A u \in Thread : pc'[u] = IF u = t THEN place ELSE pc[u]
    BY <2>2 DEF MutexInv
  <2>4. pc' = [u \in Thread |-> pc'[u]]
    BY <2>2 DEF MutexInv
  <2> QED
    BY <2>2, <2>3, <2>4 DEF MutexInv, Elsewhere
<1> QED
  BY <1>1, <1>2 DEF Elsewhere

LEMMA SchedulerIsElsewhere ==
  ASSUME NEW c \in Lcore, Schedule(c) \/ Link(c)
  PROVE  Elsewhere
<1>1. UNCHANGED <<pc, mutexVars>>
  BY DEF Schedule, Link, Start, Synced, Top, Stopped, PollReady, PollPReady, Poll, TimerExpires,
         SwitchedBack, Restore
<1> QED
  BY <1>1 DEF Elsewhere, mutexVars

LEMMA MainIsElsewhere ==
  ASSUME MainStep
  PROVE  Elsewhere
<1>1. UNCHANGED <<pc, mutexVars>>
  BY DEF MainStep, Register, Registered, LaunchRefused, Launch, Join, JoinMisses, Unregister,
         UnregisterRefused, Unregistered, Unscheduled, lthreadVars, vars
<1> QED
  BY <1>1 DEF Elsewhere, mutexVars

LEMMA GreenIsElsewhere ==
  ASSUME NEW c \in Lcore, NEW t \in Thread, GreenThreadStep(c, t)
  PROVE  Elsewhere
<1>1. UNCHANGED <<owner, holds>>
  BY DEF GreenThreadStep, Sleeps, Yields, Spawned, DummyStarts, DummySleeps, DummyYields,
         DummyEnds, SleepStep, YieldStep, NoStep, Untouched, mutexVars
<1>2. \E place : place \notin Releasing /\ pc' = [pc EXCEPT ![t] = place]
  BY DEF GreenThreadStep, Sleeps, Yields, Spawned, DummyStarts, DummySleeps, DummyYields,
         DummyEnds, Goto, Advance, Releasing
<1> QED
  BY <1>1, <1>2 DEF Elsewhere

LEMMA KeysAreElsewhere ==
  ASSUME NEW c \in Lcore, NEW t \in Thread, KeyStep(c, t)
  PROVE  Elsewhere
<1>1. UNCHANGED <<owner, holds>>
  BY DEF KeyStep, KeyCreate, KeyDelete, SetSpecific, GetSpecific, KeyOp, NoStep, Untouched,
         mutexVars
<1>2. \E place : place \notin Releasing /\ pc' = [pc EXCEPT ![t] = place]
  BY DEF KeyStep, KeyCreate, KeyDelete, SetSpecific, GetSpecific, KeyOp, Advance, Releasing
<1> QED
  BY <1>1, <1>2 DEF Elsewhere

-----------------------------------------------------------------------------
(* What a thread does but lock, try and unlock. *)
LEMMA ThreadIsElsewhere ==
  ASSUME NEW c \in Lcore, NEW t \in Thread, ThreadStep(c, t),
         ~ LockCas(c, t), ~ TrylockCas(c, t), ~ UnlockCall(c, t), ~ UnlockCheck(c, t),
         ~ UnlockRemove(c, t), ~ UnlockWakes(c, t), ~ UnlockReleases(c, t)
  PROVE  Elsewhere
<1>1. UNCHANGED <<owner, holds>>
  <2>1. CASE Yield(c, t) \/ Sleep(c, t) \/ SetAffinity(c, t) \/ Detach(c, t) \/ Create(c, t)
             \/ Cancel(c, t) \/ CancelTasklet(c, t) \/ ShutdownAll(c, t)
    BY <2>1 DEF Yield, Sleep, SetAffinity, Detach, Create, Cancel, CancelTasklet, ShutdownAll,
                mutexVars
  <2>2. CASE Return(c, t) \/ ExitCall(c, t) \/ ExitFirst(c, t) \/ ExitResumed(c, t)
             \/ ExitSecond(c, t) \/ ExitWakes(c, t) \/ ExitCollected(c, t) \/ ExitWaits(c, t)
             \/ Leave(c, t) \/ Derail(c, t)
    BY <2>2 DEF Return, ExitCall, ExitFirst, ExitResumed, ExitSecond, ExitWakes, ExitCollected,
                ExitWaits, Leave, Derail, Reschedule, mutexVars
  <2>3. CASE JoinCall(c, t) \/ JoinFirst(c, t) \/ JoinSecond(c, t) \/ JoinWaits(c, t)
             \/ JoinCollects(c, t)
    BY <2>3 DEF JoinCall, JoinFirst, JoinSecond, JoinWaits, JoinCollects, Reschedule, mutexVars
  <2>4. CASE LockCall(c, t) \/ LockCount(c, t) \/ LockOwner(c, t) \/ TrylockCall(c, t)
             \/ TrylockBusy(c, t)
    BY <2>4 DEF LockCall, LockCount, LockOwner, TrylockCall, TrylockBusy, mutexVars
  <2>5. CASE CondWait(c, t) \/ CondSignal(c, t) \/ CondSignals(c, t) \/ CondBroadcast(c, t)
             \/ CondBroadcasts(c, t) \/ CondYields(c, t)
    BY <2>5 DEF CondWait, CondSignal, CondSignals, CondBroadcast, CondBroadcasts, CondYields,
                Remove, Wake, mutexVars
  <2> QED
    BY <2>1, <2>2, <2>3, <2>4, <2>5 DEF ThreadStep
<1>2. \/ UNCHANGED pc
      \/ \E place : place \notin Releasing /\ pc' = [pc EXCEPT ![t] = place]
  <2> USE DEF Goto, Advance, Releasing
  <2>1. CASE Yield(c, t) \/ Sleep(c, t) \/ SetAffinity(c, t) \/ Detach(c, t) \/ Create(c, t)
             \/ Cancel(c, t) \/ CancelTasklet(c, t) \/ ShutdownAll(c, t)
    BY <2>1 DEF Yield, Sleep, SetAffinity, Detach, Create, Cancel, CancelTasklet, ShutdownAll
  <2>2. CASE Return(c, t) \/ ExitCall(c, t) \/ ExitFirst(c, t) \/ ExitResumed(c, t)
             \/ ExitSecond(c, t) \/ ExitWakes(c, t) \/ ExitCollected(c, t) \/ ExitWaits(c, t)
             \/ Leave(c, t) \/ Derail(c, t)
    BY <2>2 DEF Return, ExitCall, ExitFirst, ExitResumed, ExitSecond, ExitWakes, ExitCollected,
                ExitWaits, Leave, Derail, Reschedule
  <2>3. CASE JoinCall(c, t) \/ JoinFirst(c, t) \/ JoinSecond(c, t) \/ JoinWaits(c, t)
             \/ JoinCollects(c, t)
    BY <2>3 DEF JoinCall, JoinFirst, JoinSecond, JoinWaits, JoinCollects, Reschedule
  <2>4. CASE LockCall(c, t) \/ LockCount(c, t) \/ LockOwner(c, t) \/ TrylockCall(c, t)
             \/ TrylockBusy(c, t)
    BY <2>4 DEF LockCall, LockCount, LockOwner, TrylockCall, TrylockBusy, Block
  <2>5. CASE CondWait(c, t) \/ CondSignal(c, t) \/ CondSignals(c, t) \/ CondBroadcast(c, t)
             \/ CondBroadcasts(c, t) \/ CondYields(c, t)
    BY <2>5 DEF CondWait, CondSignal, CondSignals, CondBroadcast, CondBroadcasts, CondYields,
                Remove, Wake
  <2> QED
    BY <2>1, <2>2, <2>3, <2>4, <2>5 DEF ThreadStep
<1> QED
  BY <1>1, <1>2 DEF Elsewhere

(* The mutex is taken by a compare-and-swap that finds no owner. *)
LEMMA TakingKeeps ==
  ASSUME MutexInv, NEW c \in Lcore, NEW t \in Thread, LockCas(c, t) \/ TrylockCas(c, t)
  PROVE  MutexInv'
<1>1. CASE owner # Null
  <2>1. Elsewhere
    BY <1>1 DEF LockCas, TrylockCas, Elsewhere, Goto, Releasing
  <2> QED
    BY <2>1, ElsewhereKeeps
<1>2. CASE owner = Null
  <2>1. holds = {} /\ \A u \in Thread : pc[u] \notin Releasing
    BY <1>2, LthreadAssumption DEF MutexInv, Null
  <2>2. owner' = t /\ holds' = {t} /\ pc' = [pc EXCEPT ![t] = "op"]
    BY <1>2, <2>1 DEF LockCas, TrylockCas, Owned, Advance
  <2> QED
    BY <2>1, <2>2 DEF MutexInv, Releasing
<1> QED
  BY <1>1, <1>2

(* Only its owner gives the mutex back, and he is told off first. *)
LEMMA GivingBackKeeps ==
  ASSUME MutexInv, NEW c \in Lcore, NEW t \in Thread,
         \/ UnlockCall(c, t) \/ UnlockCheck(c, t) \/ UnlockRemove(c, t) \/ UnlockWakes(c, t)
         \/ UnlockReleases(c, t)
  PROVE  MutexInv'
<1>1. CASE UnlockCall(c, t)
  <2>1. CASE owner # t
    <3>1. Elsewhere
      BY <1>1, <2>1 DEF UnlockCall, Elsewhere, Advance, Releasing
    <3> QED
      BY <3>1, ElsewhereKeeps
  <2>2. CASE owner = t
    BY <1>1, <2>2 DEF UnlockCall, MutexInv, Goto, Releasing
  <2> QED
    BY <2>1, <2>2
<1>2. CASE UnlockCheck(c, t)
  BY <1>2 DEF UnlockCheck, At, MutexInv, Goto, Releasing, mutexVars
<1>3. CASE UnlockRemove(c, t)
  BY <1>3 DEF UnlockRemove, Remove, At, MutexInv, Goto, Releasing, mutexVars
<1>4. CASE UnlockWakes(c, t)
  BY <1>4 DEF UnlockWakes, Wake, At, MutexInv, Goto, Releasing
<1>5. CASE UnlockReleases(c, t)
  <2>1. owner = t /\ t \notin holds /\ holds = {}
    BY <1>5 DEF UnlockReleases, At, MutexInv, Releasing
  <2>2. owner' = Null /\ holds' = holds /\ pc' = [pc EXCEPT ![t] = "op"]
    BY <1>5 DEF UnlockReleases, Advance
  <2>3. \A u \in Thread : pc'[u] \notin Releasing
    BY <2>1, <2>2 DEF MutexInv, Releasing
  <2> QED
    BY <2>1, <2>2, <2>3 DEF MutexInv
<1> QED
  BY <1>1, <1>2, <1>3, <1>4, <1>5

LEMMA LcoreKeepsMutex ==
  ASSUME MutexInv, NEW c \in Lcore, LcoreStep(c)
  PROVE  MutexInv'
<1>1. CASE Link(c) \/ Schedule(c)
  BY <1>1, SchedulerIsElsewhere, ElsewhereKeeps
<1>2. ASSUME NEW t \in Thread, ThreadStep(c, t)
      PROVE  MutexInv'
  BY <1>2, ThreadIsElsewhere, ElsewhereKeeps, TakingKeeps, GivingBackKeeps
<1> QED
  BY <1>1, <1>2 DEF LcoreStep

LEMMA MutexStep ==
  ASSUME MutexInv, [TlsNext]_threadVars
  PROVE  MutexInv'
<1>1. CASE MainStep
  BY <1>1, MainIsElsewhere, ElsewhereKeeps
<1>2. ASSUME NEW c \in Lcore, GreenStep(c)
      PROVE  MutexInv'
  <2>1. CASE Launcher(c)
    <3>1. Elsewhere
      BY <2>1 DEF Launcher, lthreadVars, vars, mutexVars, Elsewhere
    <3> QED
      BY <3>1, ElsewhereKeeps
  <2>2. CASE LcoreStep(c)
    BY <2>2, LcoreKeepsMutex
  <2>3. ASSUME NEW t \in Thread, GreenThreadStep(c, t)
        PROVE  MutexInv'
    BY <2>3, GreenIsElsewhere, ElsewhereKeeps
  <2> QED
    BY <1>2, <2>1, <2>2, <2>3 DEF GreenStep
<1>3. ASSUME NEW c \in Lcore, NEW t \in Thread, KeyStep(c, t)
      PROVE  MutexInv'
  BY <1>3, KeysAreElsewhere, ElsewhereKeeps
<1>4. CASE UNCHANGED threadVars
  BY <1>4 DEF threadVars, allVars, vars, mutexVars, MutexInv
<1> QED
  BY <1>1, <1>2, <1>3, <1>4 DEF TlsNext, TlsStep

(* lthread_mutex_lock, _trylock and _unlock: whoever returns from a lock   *)
(* is alone, on however many lcores the others run, and until he has       *)
(* called the unlock himself.                                              *)
THEOREM MutexAlwaysExcludes == TlsSpec => []MutexExcludes
<1>1. TlsInit => MutexInv
  BY DEF TlsInit, GreenInit, Init, MutexInv, Releasing
<1>2. MutexInv => MutexExcludes
  BY DEF MutexInv, MutexExcludes
<1> QED
  BY <1>1, <1>2, MutexStep, PTL DEF TlsSpec

-----------------------------------------------------------------------------
(* Where threads are: the inductive invariant behind OnePlace.            *)

Has(s, t) == \E i \in 1 .. Len(s) : s[i] = t
Distinct(s) == \A i, j \in 1 .. Len(s) : s[i] = s[j] => i = j

(* K is the kind of place each thread is at and A which place of that kind: *)
(* the queue of a thread that is in one, the lcore that runs it or has yet *)
(* to write its pending queue, the thread that holds it in `unblocked`.    *)
(* Both are functions that the invariant says exist: no variable keeps     *)
(* them.                                                                   *)
Kind == {"unborn", "freed", "parked", "timer", "on", "pend", "un", "queue"}
Spot == Nat \cup QueueName

Waking == {"wake", "signalled", "broadcast"}
Blocking == {Mutex, Cond}
ScPlace == {"off", "made", "sync", "top", "ready", "pready", "run", "back", "timer", "stop", "stopped"}

(* A queue has exactly the threads that are placed there, each once.       *)
QueuesHold(K, A) ==
  /\ queue = [q \in QueueName |-> queue[q]]
  /\ \A q \in QueueName : queue[q] \in Seq(Thread) /\ Distinct(queue[q])
  /\ \A q \in QueueName, t \in Thread : Has(queue[q], t) <=> K[t] = "queue" /\ A[t] = q
  /\ \A t \in Thread : K[t] = "queue" => A[t] \in QueueName

TimersHold(K, A) ==
  /\ timer = [t \in Thread |-> timer[t]]
  /\ \A t \in Thread : timer[t] # -1 <=> K[t] = "timer"
  /\ \A t \in Thread : timer[t] # -1 => timer[t] = sched[t]

WakersHold(K, A) ==
  /\ un \in [Thread -> Thread \cup {Null}]
  /\ \A u, t \in Thread : un[u] = t <=> K[t] = "un" /\ A[t] = u
  /\ \A t \in Thread : K[t] = "un" => A[t] \in Thread

(* A lcore runs, or is about to put into a queue, who is placed there.     *)
(* Back from a thread with no pending queue it may still name the thread,  *)
(* which is somewhere else already, but with the same scheduler and alive. *)
LcoresHold(K, A) ==
  /\ cur \in [Lcore -> Thread \cup {Null}] /\ sc \in [Lcore -> ScPlace]
  /\ pend \in [Thread -> QueueName \cup {Nowhere}]
  /\ \A c \in Lcore : /\ sc[c] = "run" => cur[c] # Null
                      /\ cur[c] # Null => sc[c] \in {"run", "back"}
  /\ \A c \in Lcore, t \in Thread :
       /\ cur[c] = t /\ sc[c] = "run" <=> K[t] = "on" /\ A[t] = c
       /\ cur[c] = t /\ sc[c] = "back" /\ pend[t] # Nowhere <=> K[t] = "pend" /\ A[t] = c
       /\ cur[c] = t /\ sc[c] = "back" /\ pend[t] = Nowhere => sched[t] = c /\ K[t] # "freed"
  /\ \A t \in Thread : /\ K[t] \in {"on", "pend"} => A[t] \in Lcore
                       /\ pend[t] # Nowhere => K[t] = "pend"

(* Who has not run has no lcore and is in a ready queue; nobody is in the  *)
(* ready queues of another scheduler than his own.                         *)
SchedsHold(K, A) ==
  /\ sched \in [Thread -> Lcore \cup {-1}]
  /\ \A t \in Thread :
       /\ K[t] = "on" => sched[t] = A[t]
       /\ sched[t] = -1 => K[t] = "unborn" \/ (K[t] = "queue" /\ A[t] \notin Blocking)
       /\ K[t] = "unborn" => sched[t] = -1
       /\ sched[t] # -1 => Exists(sched[t])
       /\ \A c \in Lcore :
            /\ K[t] = "queue" /\ A[t] \in {Ready(c), PReady(c)} => sched[t] \in {c, -1} /\ Exists(c)
            /\ pend[t] # Ready(c)
            /\ pend[t] = PReady(c) => sched[t] = c

(* Places that threads get to by _suspend. *)
Sleepy(K, A, t) ==
  \/ K[t] \in {"un", "parked", "timer"}
  \/ K[t] = "queue" /\ A[t] \in Blocking
  \/ pend[t] \in Blocking

StatesHold(K, A) ==
  /\ state = [t \in Thread |-> state[t]] /\ susp \in [Thread -> BOOLEAN]
  /\ \A t \in Thread :
       /\ state[t] = {} <=> K[t] = "unborn"
       /\ "FREED" \in state[t] <=> K[t] = "freed"
       /\ "INIT" \in state[t] <=> sched[t] = -1 /\ K[t] # "unborn"
       /\ "INIT" \in state[t] => state[t] = {"INIT"}
       /\ K[t] = "timer" => "SLEEPING" \in state[t]
       /\ Sleepy(K, A, t) => susp[t]
       /\ K[t] = "on" \/ sched[t] = -1 => ~susp[t]

(* What the timer callback saved is the state of a sleeper. *)
CallbacksHold ==
  /\ next \in [Lcore -> {"top", "timer", "pready"}] /\ cb = [c \in Lcore |-> cb[c]]
  /\ \A c \in Lcore : sc[c] \notin {"run", "back"} => next[c] = "top"
  /\ \A c \in Lcore : sc[c] = "timer" \/ next[c] = "timer" =>
       /\ cb[c][1] \in Thread /\ sched[cb[c][1]] # -1
       /\ "SLEEPING" \in cb[c][2] /\ "INIT" \notin cb[c][2] /\ "FREED" \notin cb[c][2]

Placed(K, A) ==
  /\ K \in [Thread -> Kind] /\ A \in [Thread -> Spot]
  /\ QueuesHold(K, A) /\ TimersHold(K, A) /\ WakersHold(K, A) /\ LcoresHold(K, A)
  /\ SchedsHold(K, A) /\ StatesHold(K, A) /\ CallbacksHold

Ending == {"exitval", "exitwake", "exitwait"}

(* What a join and an exit owe each other: by the join field, who of the   *)
(* two is suspended and who has still to wake him.                         *)
Waits(w, u) == pc[w] = "joinwait" /\ Op(w)[2] = u
Joined(w, u) == \E i \in DOMAIN setup.prog[w] : i < ip[w] /\ setup.prog[w][i][1] = "join" /\ setup.prog[w][i][2] = u

JoinsHold(K) ==
  /\ joiner \in [Thread -> Thread \cup {Null}] /\ join = [t \in Thread |-> join[t]]
  /\ \A w \in Thread : pc[w] \in {"join", "joinwait"} => Op(w)[1] = "join" /\ joiner[Op(w)[2]] = w
  /\ \A t \in Thread : K[t] = "parked" => pc[t] \in {"joinwait", "exitval"}
  /\ \A u \in Thread :
       \/ /\ join[u] = "INITIAL"
          /\ pc[u] \notin Ending /\ \A w \in Thread : ~Waits(w, u)
       \/ /\ join[u] = "THREAD_SET" /\ joiner[u] # Null
          /\ pc[u] \notin Ending /\ Waits(joiner[u], u) /\ K[joiner[u]] = "parked"
       \/ /\ join[u] = "EXITING" /\ pc[u] = "exitval"
          /\ K[u] = "parked" \/ \E w \in Thread : Waits(w, u)
       \/ /\ join[u] = "EXIT_VAL_SET" /\ joiner[u] # Null /\ Waits(joiner[u], u)
          /\ \/ pc[u] = "exitwake" /\ K[joiner[u]] = "parked"
             \/ pc[u] = "exitwait"
       \/ /\ join[u] = "EXIT_VAL_READ" /\ pc[u] = "exitwait"
          /\ \A w \in Thread : ~Waits(w, u)
          /\ \E w \in Thread : Joined(w, u)

(* Somebody has taken the struct. *)
Born(t) ==
  \/ \E c \in Lcore : Exists(c) /\ sc[c] # "made" /\ \E i \in DOMAIN setup.root[c] : setup.root[c][i] = t
  \/ \E u \in Thread : \E i \in DOMAIN setup.prog[u] : i < ip[u] /\ Taken(setup.prog[u][i]) = t
  \/ \E i \in DOMAIN setup.main : i < mip /\ setup.main[i][1] = "launch" /\ setup.main[i][2] = t

(* The tasklet of lthread_cancel is for a thread that has run. *)
HasTarget(t) ==
  \A i \in DOMAIN setup.prog[t] : setup.prog[t][i][1] = "_cancel" => sched[setup.prog[t][i][2]] # -1

ProgsHold(K) ==
  /\ ip \in [Thread -> Nat \ {0}] /\ pc = [t \in Thread |-> pc[t]]
  /\ \A t \in Thread : un[t] # Null <=> pc[t] \in Waking
  /\ \A t \in Thread : K[t] # "unborn" => Born(t) /\ HasTarget(t)

MainHolds ==
  /\ setup \in Setup /\ mip \in Nat \ {0}
  /\ lstate = [c \in Lcore |-> lstate[c]] /\ remote = [c \in Lcore |-> remote[c]]
  /\ mpc = "registered" => Call[1] = "register"
  /\ Green => lstate[Master] # "GREEN" /\ remote[Master] = "WAIT" /\ sc[Master] \in {"off", "made"}
  /\ \A c \in Lcore : sc[c] = "made" => Green /\ c = Master

-----------------------------------------------------------------------------
LEMMA QueueNames ==
  /\ Mutex \in QueueName /\ Cond \in QueueName /\ Nowhere \notin QueueName
  /\ Mutex # Cond
  /\ \A c \in Lcore : /\ Ready(c) \in QueueName /\ PReady(c) \in QueueName
                      /\ Ready(c) \notin Blocking /\ PReady(c) \notin Blocking
                      /\ \A d \in Lcore : Ready(c) # PReady(d)
  /\ \A c, d \in Lcore : c # d => Ready(c) # Ready(d) /\ PReady(c) # PReady(d)
  /\ \A q \in QueueName : q \in Blocking \/ \E c \in Lcore : q = Ready(c) \/ q = PReady(c)
  BY DEF QueueName, Mutex, Cond, Nowhere, Ready, PReady, Blocking

LEMMA Numbers == Null = 0 /\ Null \notin Thread /\ -1 \notin Lcore /\ Lcore \subseteq Nat /\ Thread \subseteq Nat
  BY LthreadAssumption DEF Null

LEMMA AppendIs ==
  ASSUME NEW s \in Seq(Thread), NEW t \in Thread, Distinct(s), ~ Has(s, t)
  PROVE  /\ Append(s, t) \in Seq(Thread) /\ Distinct(Append(s, t))
         /\ \A x \in Thread : Has(Append(s, t), x) <=> Has(s, x) \/ x = t
<1>1. /\ Append(s, t) \in Seq(Thread) /\ Len(Append(s, t)) = Len(s) + 1 /\ Len(s) \in Nat
      /\ \A i \in 1 .. Len(s) : Append(s, t)[i] = s[i]
      /\ Append(s, t)[Len(s) + 1] = t
  OBVIOUS
<1>2. Distinct(Append(s, t))
  BY <1>1 DEF Distinct, Has
<1>3. \A x \in Thread : Has(Append(s, t), x) <=> Has(s, x) \/ x = t
  BY <1>1 DEF Has
<1> QED
  BY <1>1, <1>2, <1>3

LEMMA TailIs ==
  ASSUME NEW S, NEW s \in Seq(S), Distinct(s), s # <<>>
  PROVE  /\ Head(s) \in S /\ Has(s, Head(s)) /\ Tail(s) \in Seq(S) /\ Distinct(Tail(s))
         /\ \A x \in S : Has(Tail(s), x) <=> Has(s, x) /\ x # Head(s)
<1>1. /\ Head(s) = s[1] /\ Head(s) \in S /\ Len(s) \in Nat \ {0}
      /\ Tail(s) \in Seq(S) /\ Len(Tail(s)) = Len(s) - 1
      /\ \A i \in 1 .. Len(s) - 1 : Tail(s)[i] = s[i + 1]
  OBVIOUS
<1>2. Distinct(Tail(s))
  BY <1>1 DEF Distinct
<1>3. Has(s, Head(s))
  BY <1>1 DEF Has
<1>4. ASSUME NEW x \in S PROVE Has(Tail(s), x) <=> Has(s, x) /\ x # Head(s)
  <2>1. Has(Tail(s), x) => Has(s, x) /\ x # Head(s)
    BY <1>1 DEF Has, Distinct
  <2>2. ASSUME Has(s, x), x # Head(s) PROVE Has(Tail(s), x)
    <3>1. PICK i \in 1 .. Len(s) : s[i] = x
      BY <2>2 DEF Has
    <3>2. i - 1 \in 1 .. Len(Tail(s)) /\ Tail(s)[i - 1] = x
      BY <1>1, <3>1, <2>2
    <3> QED
      BY <3>2 DEF Has
  <2> QED
    BY <2>1, <2>2
<1> QED
  BY <1>1, <1>2, <1>3, <1>4

-----------------------------------------------------------------------------
(* One thread goes to another place. *)
Moved(K, A, K2, A2, t, k, a) ==
  /\ K2 \in [Thread -> Kind] /\ A2 \in [Thread -> Spot]
  /\ K2[t] = k /\ A2[t] = a
  /\ \A x \in Thread : x # t => K2[x] = K[x] /\ A2[x] = A[x]

LEMMA QueueSame ==
  ASSUME NEW K, NEW A, NEW K2, NEW A2, QueuesHold(K, A), UNCHANGED queue,
         \A x \in Thread : K2[x] = "queue" <=> K[x] = "queue",
         \A x \in Thread : K[x] = "queue" => A2[x] = A[x]
  PROVE  QueuesHold(K2, A2)'
  BY DEF QueuesHold

LEMMA QueueAppend ==
  ASSUME NEW K, NEW A, NEW K2, NEW A2, NEW q \in QueueName, NEW t \in Thread,
         QueuesHold(K, A), K[t] # "queue", Moved(K, A, K2, A2, t, "queue", q),
         queue' = [queue EXCEPT ![q] = Append(@, t)]
  PROVE  QueuesHold(K2, A2)'
<1>1. queue[q] \in Seq(Thread) /\ Distinct(queue[q]) /\ ~ Has(queue[q], t)
  BY DEF QueuesHold
<1>2. /\ Append(queue[q], t) \in Seq(Thread) /\ Distinct(Append(queue[q], t))
      /\ \A x \in Thread : Has(Append(queue[q], t), x) <=> Has(queue[q], x) \/ x = t
  BY <1>1, AppendIs
<1>3. /\ queue' = [r \in QueueName |-> queue'[r]]
      /\ queue'[q] = Append(queue[q], t)
      /\ \A r \in QueueName : r # q => queue'[r] = queue[r]
  BY DEF QueuesHold
<1>4. \A r \in QueueName : queue'[r] \in Seq(Thread) /\ Distinct(queue'[r])
  BY <1>2, <1>3 DEF QueuesHold
<1>5. ASSUME NEW r \in QueueName, NEW x \in Thread
      PROVE  Has(queue'[r], x) <=> K2[x] = "queue" /\ A2[x] = r
  <2>1. CASE r = q
    BY <2>1, <1>2, <1>3 DEF QueuesHold, Moved
  <2>2. CASE r # q
    <3>1. queue'[r] = queue[r] /\ (Has(queue[r], x) <=> K[x] = "queue" /\ A[x] = r)
      BY <2>2, <1>3 DEF QueuesHold
    <3>2. CASE x = t
      BY <2>2, <3>1, <3>2 DEF Moved
    <3>3. CASE x # t
      BY <3>1, <3>3 DEF Moved
    <3> QED
      BY <3>2, <3>3
  <2> QED
    BY <2>1, <2>2
<1>6. \A x \in Thread : K2[x] = "queue" => A2[x] \in QueueName
  BY DEF QueuesHold, Moved
<1> QED
  BY <1>3, <1>4, <1>5, <1>6 DEF QueuesHold

LEMMA QueueTail ==
  ASSUME NEW K, NEW A, NEW K2, NEW A2, NEW q \in QueueName, NEW k, NEW a,
         QueuesHold(K, A), queue[q] # <<>>, k # "queue",
         Moved(K, A, K2, A2, Head(queue[q]), k, a),
         queue' = [queue EXCEPT ![q] = Tail(@)]
  PROVE  QueuesHold(K2, A2)'
<1>1. queue[q] \in Seq(Thread) /\ Distinct(queue[q])
  BY DEF QueuesHold
<1> DEFINE t == Head(queue[q])
<1>2. /\ t \in Thread /\ Has(queue[q], t) /\ Tail(queue[q]) \in Seq(Thread) /\ Distinct(Tail(queue[q]))
      /\ \A x \in Thread : Has(Tail(queue[q]), x) <=> Has(queue[q], x) /\ x # t
  BY <1>1, TailIs
<1>3. /\ queue' = [r \in QueueName |-> queue'[r]]
      /\ queue'[q] = Tail(queue[q])
      /\ \A r \in QueueName : r # q => queue'[r] = queue[r]
  BY DEF QueuesHold
<1>4. \A r \in QueueName : queue'[r] \in Seq(Thread) /\ Distinct(queue'[r])
  BY <1>2, <1>3 DEF QueuesHold
<1>5. K[t] = "queue" /\ A[t] = q
  BY <1>2 DEF QueuesHold
<1> HIDE DEF t
<1>6. K2[t] = k /\ \A x \in Thread : x # t => K2[x] = K[x] /\ A2[x] = A[x]
  BY DEF Moved, t
<1>7. ASSUME NEW r \in QueueName, NEW x \in Thread
      PROVE  Has(queue'[r], x) <=> K2[x] = "queue" /\ A2[x] = r
  <2>1. CASE r = q
    BY <2>1, <1>2, <1>3, <1>6 DEF QueuesHold
  <2>2. CASE r # q
    <3>1. queue'[r] = queue[r] /\ (Has(queue[r], x) <=> K[x] = "queue" /\ A[x] = r)
      BY <2>2, <1>3 DEF QueuesHold
    <3>2. CASE x = t
      BY <2>2, <3>1, <3>2, <1>5, <1>6
    <3>3. CASE x # t
      BY <3>1, <3>3, <1>6
    <3> QED
      BY <3>2, <3>3
  <2> QED
    BY <2>1, <2>2
<1>8. \A x \in Thread : K2[x] = "queue" => A2[x] \in QueueName
  BY <1>2, <1>6 DEF QueuesHold
<1> QED
  BY <1>3, <1>4, <1>7, <1>8 DEF QueuesHold

LEMMA HeadIs ==
  ASSUME NEW K, NEW A, NEW q \in QueueName, QueuesHold(K, A), queue[q] # <<>>,
         NEW t, t = Head(queue[q])
  PROVE  t \in Thread /\ K[t] = "queue" /\ A[t] = q
<1>1. queue[q] \in Seq(Thread) /\ Distinct(queue[q])
  BY DEF QueuesHold
<1>2. t \in Thread /\ Has(queue[q], t)
  BY <1>1, TailIs
<1> QED
  BY <1>2 DEF QueuesHold

-----------------------------------------------------------------------------
(* What each kind of step does to the places, whoever takes it.           *)

LEMMA MoveThere ==
  ASSUME NEW K \in [Thread -> Kind], NEW A \in [Thread -> Spot], NEW t \in Thread,
         NEW k \in Kind, NEW a \in Spot
  PROVE  \E K2, A2 : Moved(K, A, K2, A2, t, k, a)
<1>1. Moved(K, A, [K EXCEPT ![t] = k], [A EXCEPT ![t] = a], t, k, a)
  BY DEF Moved
<1> QED
  BY <1>1

LEMMA Spots ==
  /\ Lcore \subseteq Spot /\ Thread \subseteq Spot /\ QueueName \subseteq Spot /\ 0 \in Spot
  BY Numbers DEF Spot

LEMMA OnIs ==
  ASSUME NEW K, NEW A, Placed(K, A), NEW c \in Lcore, NEW t \in Thread, sc[c] = "run", cur[c] = t
  PROVE  /\ K[t] = "on" /\ A[t] = c /\ sched[t] = c /\ pend[t] = Nowhere /\ ~ susp[t]
         /\ timer[t] = -1 /\ \A u \in Thread : un[u] # t
         /\ state[t] # {} /\ "INIT" \notin state[t] /\ "FREED" \notin state[t]
<1>1. K[t] = "on" /\ A[t] = c
  BY DEF Placed, LcoresHold
<1>2. sched[t] = c /\ pend[t] = Nowhere /\ ~ susp[t] /\ sched[t] # -1
  BY <1>1, Numbers DEF Placed, SchedsHold, StatesHold, LcoresHold
<1> QED
  BY <1>1, <1>2 DEF Placed, TimersHold, WakersHold, StatesHold

(* What a step may do to the bits that are not looked at. *)
SameStates ==
  /\ state' = [t \in Thread |-> state'[t]]
  /\ \A t \in Thread : /\ state[t] \subseteq state'[t] /\ (state'[t] = {} <=> state[t] = {})
                       /\ "FREED" \in state'[t] <=> "FREED" \in state[t]
                       /\ "INIT" \in state'[t] <=> "INIT" \in state[t]
                       /\ "INIT" \in state[t] => state'[t] = state[t]

(* What schedulers do to their places between threads. *)
ScSteps ==
  /\ sc' \in [Lcore -> ScPlace]
  /\ \A e \in Lcore : \/ sc'[e] = sc[e]
                      \/ sc[e] \notin {"run", "back"} /\ sc'[e] \notin {"run", "back", "timer", "off"}

LEMMA Unmoved ==
  ASSUME NEW K, NEW A, Placed(K, A), SameStates,
         UNCHANGED <<queue, timer, un, cur, sc, sched, pend, susp, next, cb>>
  PROVE  Placed(K, A)'
<1>1. QueuesHold(K, A)' /\ TimersHold(K, A)' /\ WakersHold(K, A)' /\ LcoresHold(K, A)'
  BY DEF Placed, QueuesHold, TimersHold, WakersHold, LcoresHold
<1>2. SchedsHold(K, A)' /\ CallbacksHold'
  BY DEF Placed, SchedsHold, Exists, CallbacksHold
<1>3. StatesHold(K, A)'
  BY DEF Placed, StatesHold, Sleepy, SameStates
<1> QED
  BY <1>1, <1>2, <1>3 DEF Placed

LEMMA Yielded ==
  ASSUME NEW K, NEW A, Placed(K, A), NEW c \in Lcore, NEW t \in Thread, sc[c] = "run", cur[c] = t,
         queue' = [queue EXCEPT ![Ready(c)] = Append(@, t)], sc' = [sc EXCEPT ![c] = "back"],
         UNCHANGED <<timer, un, cur, sched, state, pend, susp, next, cb>>,
         NEW K2, NEW A2, Moved(K, A, K2, A2, t, "queue", Ready(c))
  PROVE  Placed(K2, A2)'
<1>0. /\ K[t] = "on" /\ A[t] = c /\ sched[t] = c /\ pend[t] = Nowhere /\ ~ susp[t]
      /\ timer[t] = -1 /\ \A u \in Thread : un[u] # t
      /\ state[t] # {} /\ "INIT" \notin state[t] /\ "FREED" \notin state[t]
  BY OnIs
<1>1. QueuesHold(K2, A2)'
  BY <1>0, QueueAppend, QueueNames DEF Placed
<1>2. TimersHold(K2, A2)'
  BY <1>0 DEF Placed, TimersHold, Moved
<1>3. WakersHold(K2, A2)'
  BY <1>0 DEF Placed, WakersHold, Moved
<1>4. LcoresHold(K2, A2)'
  BY <1>0 DEF Placed, LcoresHold, Moved, ScPlace
<1>5. SchedsHold(K2, A2)'
  BY <1>0, QueueNames, Numbers DEF Placed, SchedsHold, LcoresHold, Moved, Exists
<1>6. StatesHold(K2, A2)'
  BY <1>0, QueueNames DEF Placed, StatesHold, Sleepy, Moved
<1>7. CallbacksHold'
  BY DEF Placed, CallbacksHold, LcoresHold
<1> QED
  BY <1>1, <1>2, <1>3, <1>4, <1>5, <1>6, <1>7 DEF Placed, Moved

LEMMA Slept ==
  ASSUME NEW K, NEW A, Placed(K, A), NEW c \in Lcore, NEW t \in Thread, sc[c] = "run", cur[c] = t,
         timer' = [timer EXCEPT ![t] = c], sc' = [sc EXCEPT ![c] = "back"],
         susp' = [susp EXCEPT ![t] = TRUE], SameStates, "SLEEPING" \in state'[t],
         UNCHANGED <<queue, un, cur, sched, pend, next, cb>>,
         NEW K2, NEW A2, Moved(K, A, K2, A2, t, "timer", 0)
  PROVE  Placed(K2, A2)'
<1>0. /\ K[t] = "on" /\ A[t] = c /\ sched[t] = c /\ pend[t] = Nowhere /\ ~ susp[t]
      /\ timer[t] = -1 /\ \A u \in Thread : un[u] # t
      /\ state[t] # {} /\ "INIT" \notin state[t] /\ "FREED" \notin state[t]
  BY OnIs
<1>1. QueuesHold(K2, A2)'
  BY <1>0, QueueSame DEF Placed, Moved
<1>2. TimersHold(K2, A2)'
  BY <1>0, Numbers DEF Placed, TimersHold, Moved
<1>3. WakersHold(K2, A2)'
  BY <1>0 DEF Placed, WakersHold, Moved
<1>4. LcoresHold(K2, A2)'
  BY <1>0 DEF Placed, LcoresHold, Moved, ScPlace
<1>5. SchedsHold(K2, A2)'
  BY <1>0, QueueNames, Numbers DEF Placed, SchedsHold, LcoresHold, Moved, Exists
<1>6. StatesHold(K2, A2)'
  <2>1. /\ state' = [x \in Thread |-> state'[x]] /\ susp' \in [Thread -> BOOLEAN] /\ susp'[t]
        /\ \A x \in Thread : x # t => susp'[x] = susp[x]
    BY DEF Placed, StatesHold, SameStates
  <2>2. ASSUME NEW x \in Thread
        PROVE  /\ state'[x] = {} <=> K2[x] = "unborn"
               /\ "FREED" \in state'[x] <=> K2[x] = "freed"
               /\ "INIT" \in state'[x] <=> sched'[x] = -1 /\ K2[x] # "unborn"
               /\ "INIT" \in state'[x] => state'[x] = {"INIT"}
               /\ K2[x] = "timer" => "SLEEPING" \in state'[x]
    <3>1. CASE x = t
      BY <1>0, <3>1, Numbers DEF SameStates, Moved
    <3>2. CASE x # t
      BY <3>2 DEF Placed, StatesHold, SameStates, Moved
    <3> QED
      BY <3>1, <3>2
  <2>3. ASSUME NEW x \in Thread
        PROVE  /\ Sleepy(K2, A2, x)' => susp'[x]
               /\ K2[x] = "on" \/ sched'[x] = -1 => ~susp'[x]
    <3>1. CASE x = t
      BY <1>0, <2>1, <3>1, Numbers DEF Moved
    <3>2. CASE x # t
      BY <2>1, <3>2 DEF Placed, StatesHold, Sleepy, Moved
    <3> QED
      BY <3>1, <3>2
  <2> QED
    BY <2>1, <2>2, <2>3 DEF StatesHold
<1>7. CallbacksHold'
  BY DEF Placed, CallbacksHold, LcoresHold
<1> QED
  BY <1>1, <1>2, <1>3, <1>4, <1>5, <1>6, <1>7 DEF Placed, Moved

LEMMA Parks ==
  ASSUME NEW K, NEW A, Placed(K, A), NEW c \in Lcore, NEW t \in Thread, sc[c] = "run", cur[c] = t,
         sc' = [sc EXCEPT ![c] = "back"], susp' = [susp EXCEPT ![t] = TRUE],
         UNCHANGED <<queue, timer, un, cur, sched, state, pend, next, cb>>,
         NEW K2, NEW A2, Moved(K, A, K2, A2, t, "parked", 0)
  PROVE  Placed(K2, A2)'
<1>0. /\ K[t] = "on" /\ A[t] = c /\ sched[t] = c /\ pend[t] = Nowhere /\ ~ susp[t]
      /\ timer[t] = -1 /\ \A u \in Thread : un[u] # t
      /\ state[t] # {} /\ "INIT" \notin state[t] /\ "FREED" \notin state[t]
  BY OnIs
<1>1. QueuesHold(K2, A2)'
  BY <1>0, QueueSame DEF Placed, Moved
<1>2. TimersHold(K2, A2)'
  BY <1>0, Numbers DEF Placed, TimersHold, Moved
<1>3. WakersHold(K2, A2)'
  BY <1>0 DEF Placed, WakersHold, Moved
<1>4. LcoresHold(K2, A2)'
  BY <1>0 DEF Placed, LcoresHold, Moved, ScPlace
<1>5. SchedsHold(K2, A2)'
  BY <1>0, QueueNames, Numbers DEF Placed, SchedsHold, LcoresHold, Moved, Exists
<1>6. StatesHold(K2, A2)'
  BY <1>0, QueueNames, Numbers DEF Placed, StatesHold, Sleepy, Moved
<1>7. CallbacksHold'
  BY DEF Placed, CallbacksHold, LcoresHold
<1> QED
  BY <1>1, <1>2, <1>3, <1>4, <1>5, <1>6, <1>7 DEF Placed, Moved

(* The queue is written when the context is saved. *)
LEMMA Blocks ==
  ASSUME NEW K, NEW A, Placed(K, A), NEW c \in Lcore, NEW t \in Thread, sc[c] = "run", cur[c] = t,
         NEW q \in Blocking, pend' = [pend EXCEPT ![t] = q],
         sc' = [sc EXCEPT ![c] = "back"], susp' = [susp EXCEPT ![t] = TRUE],
         UNCHANGED <<queue, timer, un, cur, sched, state, next, cb>>,
         NEW K2, NEW A2, Moved(K, A, K2, A2, t, "pend", c)
  PROVE  Placed(K2, A2)'
<1>0. /\ K[t] = "on" /\ A[t] = c /\ sched[t] = c /\ pend[t] = Nowhere /\ ~ susp[t]
      /\ timer[t] = -1 /\ \A u \in Thread : un[u] # t
      /\ state[t] # {} /\ "INIT" \notin state[t] /\ "FREED" \notin state[t]
  BY OnIs
<1>q. q \in QueueName /\ q # Nowhere /\ \A d \in Lcore : q # Ready(d) /\ q # PReady(d)
  BY QueueNames DEF Blocking
<1>1. QueuesHold(K2, A2)'
  BY <1>0, QueueSame DEF Placed, Moved
<1>2. TimersHold(K2, A2)'
  BY <1>0, Numbers DEF Placed, TimersHold, Moved
<1>3. WakersHold(K2, A2)'
  BY <1>0 DEF Placed, WakersHold, Moved
<1>4. LcoresHold(K2, A2)'
  BY <1>0, <1>q DEF Placed, LcoresHold, Moved, ScPlace
<1>5. SchedsHold(K2, A2)'
  BY <1>0, <1>q, Numbers DEF Placed, SchedsHold, LcoresHold, Moved, Exists
<1>6. StatesHold(K2, A2)'
  BY <1>0, <1>q, Numbers DEF Placed, StatesHold, LcoresHold, Sleepy, Moved
<1>7. CallbacksHold'
  BY DEF Placed, CallbacksHold, LcoresHold
<1> QED
  BY <1>1, <1>2, <1>3, <1>4, <1>5, <1>6, <1>7 DEF Placed, Moved

LEMMA Migrates ==
  ASSUME NEW K, NEW A, Placed(K, A), NEW c \in Lcore, NEW t \in Thread, sc[c] = "run", cur[c] = t,
         NEW d \in Lcore, Exists(d), pend' = [pend EXCEPT ![t] = PReady(d)],
         sched' = [sched EXCEPT ![t] = d], sc' = [sc EXCEPT ![c] = "back"],
         UNCHANGED <<queue, timer, un, cur, susp, state, next, cb>>,
         NEW K2, NEW A2, Moved(K, A, K2, A2, t, "pend", c)
  PROVE  Placed(K2, A2)'
<1>0. /\ K[t] = "on" /\ A[t] = c /\ sched[t] = c /\ pend[t] = Nowhere /\ ~ susp[t]
      /\ timer[t] = -1 /\ \A u \in Thread : un[u] # t
      /\ state[t] # {} /\ "INIT" \notin state[t] /\ "FREED" \notin state[t]
  BY OnIs
<1>q. /\ PReady(d) \in QueueName /\ PReady(d) # Nowhere /\ PReady(d) \notin Blocking
      /\ \A e \in Lcore : PReady(d) # Ready(e) /\ (PReady(d) = PReady(e) => d = e)
  BY QueueNames DEF Blocking
<1>1. QueuesHold(K2, A2)'
  BY <1>0, QueueSame DEF Placed, Moved
<1>2. TimersHold(K2, A2)'
  BY <1>0, Numbers DEF Placed, TimersHold, Moved
<1>3. WakersHold(K2, A2)'
  BY <1>0 DEF Placed, WakersHold, Moved
<1>4. LcoresHold(K2, A2)'
  BY <1>0, <1>q DEF Placed, LcoresHold, Moved, ScPlace
<1>5. SchedsHold(K2, A2)'
  BY <1>0, <1>q, Numbers DEF Placed, SchedsHold, LcoresHold, Moved, Exists
<1>6. StatesHold(K2, A2)'
  BY <1>0, <1>q, Numbers DEF Placed, StatesHold, LcoresHold, Sleepy, Moved
<1>7. CallbacksHold'
  BY Numbers DEF Placed, CallbacksHold, LcoresHold, SchedsHold
<1> QED
  BY <1>1, <1>2, <1>3, <1>4, <1>5, <1>6, <1>7 DEF Placed, Moved

(* A thread that is suspended becomes ready. *)
LEMMA Wakes ==
  ASSUME NEW K, NEW A, Placed(K, A), NEW x \in Thread,
         \/ K[x] = "parked" /\ UNCHANGED un
         \/ \E u \in Thread : un[u] = x /\ un' = [un EXCEPT ![u] = Null],
         NEW q \in {Ready(sched[x]), PReady(sched[x])}, queue' = [queue EXCEPT ![q] = Append(@, x)],
         UNCHANGED <<timer, cur, sc, sched, pend, susp, state, next, cb>>,
         NEW K2, NEW A2, Moved(K, A, K2, A2, x, "queue", q)
  PROVE  Placed(K2, A2)'
<1>0. /\ K[x] \in {"parked", "un"} /\ sched[x] \in Lcore /\ Exists(sched[x]) /\ pend[x] = Nowhere /\ susp[x]
      /\ timer[x] = -1
  BY Numbers DEF Placed, LcoresHold, WakersHold, SchedsHold, TimersHold, StatesHold, Sleepy
<1>q. /\ q \in QueueName /\ q \notin Blocking
      /\ \A e \in Lcore : q \in {Ready(e), PReady(e)} => e = sched[x]
  BY <1>0, QueueNames
<1>1. QueuesHold(K2, A2)'
  BY <1>0, <1>q, QueueAppend DEF Placed
<1>2. TimersHold(K2, A2)'
  BY <1>0, Numbers DEF Placed, TimersHold, Moved
<1>3. WakersHold(K2, A2)'
  BY <1>0, Numbers DEF Placed, WakersHold, Moved
<1>4. LcoresHold(K2, A2)'
  BY <1>0 DEF Placed, LcoresHold, Moved
<1>5. SchedsHold(K2, A2)'
  BY <1>0, <1>q, Numbers DEF Placed, SchedsHold, Moved, Exists
<1>6. StatesHold(K2, A2)'
  BY <1>0, <1>q, QueueNames DEF Placed, StatesHold, Sleepy, Moved
<1>7. CallbacksHold'
  BY DEF Placed, CallbacksHold
<1> QED
  BY <1>1, <1>2, <1>3, <1>4, <1>5, <1>6, <1>7 DEF Placed, Moved

(* _lthread_queue_remove by u *)
LEMMA Removes ==
  ASSUME NEW K, NEW A, Placed(K, A), NEW u \in Thread, un[u] = Null,
         NEW q \in Blocking, queue[q] # <<>>, queue' = [queue EXCEPT ![q] = Tail(@)],
         un' = [un EXCEPT ![u] = Head(queue[q])],
         UNCHANGED <<timer, cur, sc, sched, pend, susp, state, next, cb>>,
         NEW K2, NEW A2, Moved(K, A, K2, A2, Head(queue[q]), "un", u)
  PROVE  Placed(K2, A2)'
<1> DEFINE x == Head(queue[q])
<1>q. q \in QueueName
  BY QueueNames DEF Blocking
<1>x. x \in Thread /\ K[x] = "queue" /\ A[x] = q
  BY <1>q, HeadIs DEF Placed
<1>1. QueuesHold(K2, A2)'
  BY <1>q, QueueTail DEF Placed
<1>m. Moved(K, A, K2, A2, x, "un", u)
  OBVIOUS
<1>u. un' = [un EXCEPT ![u] = x]
  OBVIOUS
<1> HIDE DEF x
<1>0. susp[x] /\ pend[x] = Nowhere /\ timer[x] = -1 /\ sched[x] # -1
  BY <1>x DEF Placed, StatesHold, Sleepy, TimersHold, LcoresHold, SchedsHold
<1>2. TimersHold(K2, A2)'
  BY <1>0, <1>x, <1>m, Numbers DEF Placed, TimersHold, Moved
<1>3. WakersHold(K2, A2)'
  BY <1>0, <1>x, <1>m, <1>u, Numbers DEF Placed, WakersHold, Moved
<1>4. LcoresHold(K2, A2)'
  BY <1>0, <1>x, <1>m DEF Placed, LcoresHold, Moved
<1>5. SchedsHold(K2, A2)'
  BY <1>0, <1>x, <1>m, Numbers DEF Placed, SchedsHold, Moved, Exists
<1>6. StatesHold(K2, A2)'
  BY <1>0, <1>x, <1>m, QueueNames DEF Placed, StatesHold, Sleepy, Moved
<1>7. CallbacksHold'
  BY DEF Placed, CallbacksHold
<1> QED
  BY <1>m, <1>1, <1>2, <1>3, <1>4, <1>5, <1>6, <1>7 DEF Placed, Moved

(* lthread_create of x for lcore d *)
LEMMA Creates ==
  ASSUME NEW K, NEW A, Placed(K, A), NEW x \in Thread, K[x] = "unborn",
         NEW d \in Lcore, Exists(d), NEW q \in {Ready(d), PReady(d)},
         queue' = [queue EXCEPT ![q] = Append(@, x)], state' = [state EXCEPT ![x] = {"INIT"}],
         ScSteps, UNCHANGED <<timer, un, cur, sched, pend, susp, next, cb>>,
         NEW K2, NEW A2, Moved(K, A, K2, A2, x, "queue", q)
  PROVE  Placed(K2, A2)'
<1>0. sched[x] = -1 /\ pend[x] = Nowhere /\ timer[x] = -1 /\ ~ susp[x]
  BY DEF Placed, LcoresHold, SchedsHold, TimersHold, StatesHold
<1>q. /\ q \in QueueName /\ q \notin Blocking
      /\ \A e \in Lcore : q \in {Ready(e), PReady(e)} => e = d
  BY QueueNames
<1>1. QueuesHold(K2, A2)'
  BY <1>q, QueueAppend DEF Placed
<1>2. TimersHold(K2, A2)'
  BY <1>0, Numbers DEF Placed, TimersHold, Moved
<1>3. WakersHold(K2, A2)'
  BY <1>0, Numbers DEF Placed, WakersHold, Moved
<1>4. LcoresHold(K2, A2)'
  BY <1>0 DEF Placed, LcoresHold, Moved, ScSteps
<1>5. SchedsHold(K2, A2)'
  <2>1. \A e \in Lcore : Exists(e) => Exists(e)'
    BY DEF Exists, ScSteps
  <2>2. ASSUME NEW e \in Lcore, K2[x] = "queue", A2[x] \in {Ready(e), PReady(e)}
        PROVE  e = d
    BY <1>q, <2>2 DEF Moved
  <2> HIDE DEF Exists
  <2> QED
    BY <1>0, <1>q, <2>1, <2>2, Numbers DEF Placed, SchedsHold, Moved
<1>6. StatesHold(K2, A2)'
  BY <1>0, <1>q, QueueNames DEF Placed, StatesHold, Sleepy, Moved
<1>7. CallbacksHold'
  BY DEF Placed, CallbacksHold, ScSteps
<1> QED
  BY <1>1, <1>2, <1>3, <1>4, <1>5, <1>6, <1>7 DEF Placed, Moved

LEMMA ScMoves ==
  ASSUME NEW K, NEW A, Placed(K, A), ScSteps,
         UNCHANGED <<queue, timer, un, cur, sched, state, pend, susp, next, cb>>
  PROVE  Placed(K, A)'
<1>1. QueuesHold(K, A)' /\ TimersHold(K, A)' /\ WakersHold(K, A)' /\ StatesHold(K, A)'
  BY DEF Placed, QueuesHold, TimersHold, WakersHold, StatesHold, Sleepy
<1>2. LcoresHold(K, A)'
  BY DEF Placed, LcoresHold, ScSteps
<1>3. SchedsHold(K, A)' /\ CallbacksHold'
  BY Numbers DEF Placed, SchedsHold, Exists, CallbacksHold, ScSteps
<1> QED
  BY <1>1, <1>2, <1>3 DEF Placed

(* Where _lthread_resume finds a thread, and that it is taken from there. *)
FromQueue(c, t) ==
  \E q \in {Ready(c), PReady(c)} :
    /\ queue[q] # <<>> /\ t = Head(queue[q]) /\ queue' = [queue EXCEPT ![q] = Tail(@)]
    /\ UNCHANGED <<timer, cb>> /\ next'[c] # "timer"
FromTimer(c, t) ==
  /\ timer[t] = c /\ timer' = [timer EXCEPT ![t] = -1] /\ UNCHANGED queue
  /\ cb' = [cb EXCEPT ![c] = <<t, state[t] \ {"EXPIRED"}>>]

LEMMA Taking ==
  ASSUME NEW K, NEW A, Placed(K, A), NEW c \in Lcore, NEW t \in Thread,
         FromQueue(c, t) \/ FromTimer(c, t), NEW k, NEW a, k \notin {"queue", "timer"},
         NEW K2, NEW A2, Moved(K, A, K2, A2, t, k, a),
         sched'[t] = IF "INIT" \in state[t] THEN c ELSE sched[t],
         \A x \in Thread : x # t => sched'[x] = sched[x]
  PROVE  /\ QueuesHold(K2, A2)' /\ TimersHold(K2, A2)'
         /\ \/ K[t] = "queue" /\ A[t] \notin Blocking
            \/ K[t] = "timer" /\ sched[t] = c
         /\ sched[t] \in {c, -1} /\ Exists(c)
         /\ state[t] # {} /\ "FREED" \notin state[t]
         /\ "INIT" \in state[t] <=> sched[t] = -1
         /\ pend[t] = Nowhere /\ \A u \in Thread : un[u] # t
<1>1. CASE FromQueue(c, t)
  <2>1. PICK q \in {Ready(c), PReady(c)} :
          /\ queue[q] # <<>> /\ t = Head(queue[q]) /\ queue' = [queue EXCEPT ![q] = Tail(@)]
          /\ UNCHANGED <<timer, cb>>
    BY <1>1 DEF FromQueue
  <2>2. q \in QueueName /\ q \notin Blocking
    BY QueueNames
  <2>3. QueuesHold(K2, A2)'
    BY <2>1, <2>2, QueueTail DEF Placed
  <2>4. K[t] = "queue" /\ A[t] = q
    BY <2>1, <2>2, HeadIs DEF Placed
  <2>5. TimersHold(K2, A2)'
    BY <2>1, <2>4 DEF Placed, TimersHold, Moved
  <2>6. sched[t] \in {c, -1} /\ Exists(c)
    BY <2>4 DEF Placed, SchedsHold
  <2>7. /\ state[t] # {} /\ "FREED" \notin state[t] /\ ("INIT" \in state[t] <=> sched[t] = -1)
        /\ pend[t] = Nowhere /\ \A u \in Thread : un[u] # t
    BY <2>4 DEF Placed, StatesHold, LcoresHold, WakersHold
  <2> QED
    BY <2>2, <2>3, <2>4, <2>5, <2>6, <2>7
<1>2. CASE FromTimer(c, t)
  <2>1. K[t] = "timer" /\ sched[t] = c
    BY <1>2, Numbers DEF FromTimer, Placed, TimersHold
  <2>2. QueuesHold(K2, A2)'
    BY <1>2, <2>1, QueueSame DEF FromTimer, Placed, Moved
  <2>3. TimersHold(K2, A2)'
    BY <1>2, <2>1 DEF FromTimer, Placed, TimersHold, Moved
  <2>4. Exists(c)
    BY <2>1, Numbers DEF Placed, SchedsHold
  <2>5. /\ state[t] # {} /\ "FREED" \notin state[t] /\ ("INIT" \in state[t] <=> sched[t] = -1)
        /\ pend[t] = Nowhere /\ \A u \in Thread : un[u] # t
    BY <2>1 DEF Placed, StatesHold, LcoresHold, WakersHold
  <2> QED
    BY <2>1, <2>2, <2>3, <2>4, <2>5
<1> QED
  BY <1>1, <1>2

LEMMA CallbackOfResume ==
  ASSUME NEW K, NEW A, Placed(K, A), NEW c \in Lcore, NEW t \in Thread,
         FromQueue(c, t) \/ FromTimer(c, t),
         sc[c] # "timer", sc' = [sc EXCEPT ![c] = sc'[c]], sc'[c] \in {"run", "back"},
         NEW p \in {"top", "timer", "pready"}, next' = [next EXCEPT ![c] = p],
         \A x \in Thread : sched[x] # -1 => sched'[x] # -1
  PROVE  CallbacksHold'
<1>1. sc \in [Lcore -> ScPlace] /\ CallbacksHold
  BY DEF Placed, LcoresHold
<1>2. CASE FromQueue(c, t)
  BY <1>1, <1>2 DEF FromQueue, CallbacksHold
<1>3. CASE FromTimer(c, t)
  <2>1. "SLEEPING" \in state[t] /\ "INIT" \notin state[t] /\ "FREED" \notin state[t] /\ sched[t] # -1
    BY <1>3, Numbers DEF FromTimer, Placed, TimersHold, StatesHold
  <2>2. cb'[c] = <<t, state[t] \ {"EXPIRED"}>> /\ cb' = [d \in Lcore |-> cb'[d]]
        /\ \A d \in Lcore : d # c => cb'[d] = cb[d] /\ next'[d] = next[d] /\ sc'[d] = sc[d]
    BY <1>1, <1>3 DEF FromTimer, CallbacksHold
  <2>3. cb'[c][1] = t /\ cb'[c][2] = state[t] \ {"EXPIRED"}
    BY <2>2
  <2>4. next' \in [Lcore -> {"top", "timer", "pready"}]
    BY <1>1 DEF CallbacksHold
  <2>6. \A d \in Lcore : sc'[d] \notin {"run", "back"} => next'[d] = "top"
    BY <1>1, <2>2 DEF CallbacksHold
  <2>5. ASSUME NEW d \in Lcore, sc'[d] = "timer" \/ next'[d] = "timer"
        PROVE  /\ cb'[d][1] \in Thread /\ sched'[cb'[d][1]] # -1
               /\ "SLEEPING" \in cb'[d][2] /\ "INIT" \notin cb'[d][2] /\ "FREED" \notin cb'[d][2]
    <3>1. CASE d = c
      BY <2>1, <2>3, <3>1
    <3>2. CASE d # c
      BY <1>1, <2>2, <2>5, <3>2 DEF CallbacksHold
    <3> QED
      BY <3>1, <3>2
  <2> QED
    BY <2>2, <2>4, <2>5, <2>6 DEF CallbacksHold
<1> QED
  BY <1>2, <1>3

LEMMA Runs ==
  ASSUME NEW K, NEW A, Placed(K, A), NEW c \in Lcore, NEW t \in Thread,
         FromQueue(c, t) \/ FromTimer(c, t), sc[c] \notin {"run", "back", "timer"},
         cur' = [cur EXCEPT ![c] = t], sc' = [sc EXCEPT ![c] = "run"],
         sched' = IF "INIT" \in state[t] THEN [sched EXCEPT ![t] = c] ELSE sched,
         NEW s, state' = [state EXCEPT ![t] = s], s # {}, "INIT" \notin s, "FREED" \notin s,
         susp' = [susp EXCEPT ![t] = FALSE],
         NEW p \in {"top", "timer", "pready"}, next' = [next EXCEPT ![c] = p],
         UNCHANGED <<un, pend>>,
         NEW K2, NEW A2, Moved(K, A, K2, A2, t, "on", c)
  PROVE  Placed(K2, A2)'
<1>s. /\ sched'[t] = IF "INIT" \in state[t] THEN c ELSE sched[t]
      /\ \A x \in Thread : x # t => sched'[x] = sched[x]
      /\ sched' \in [Thread -> Lcore \cup {-1}]
  BY DEF Placed, SchedsHold
<1>0. /\ QueuesHold(K2, A2)' /\ TimersHold(K2, A2)'
      /\ K[t] \in {"queue", "timer"}
      /\ sched[t] \in {c, -1} /\ Exists(c)
      /\ state[t] # {} /\ "FREED" \notin state[t]
      /\ "INIT" \in state[t] <=> sched[t] = -1
      /\ pend[t] = Nowhere /\ \A u \in Thread : un[u] # t
  <2>1. \A k, a : k = "on" /\ a = c => Moved(K, A, K2, A2, t, k, a) /\ k \notin {"queue", "timer"}
    OBVIOUS
  <2> QED
    BY <2>1, <1>s, Taking
<1>1. sched'[t] = c
  BY <1>s, <1>0, Numbers
<1>2. WakersHold(K2, A2)'
  BY <1>0 DEF Placed, WakersHold, Moved
<1>3. LcoresHold(K2, A2)'
  BY <1>0, <1>1, <1>s, Numbers DEF Placed, LcoresHold, Moved, ScPlace
<1>4. SchedsHold(K2, A2)'
  BY <1>0, <1>1, <1>s, QueueNames, Numbers DEF Placed, SchedsHold, LcoresHold, Moved, Exists
<1>5. StatesHold(K2, A2)'
  <2>1. /\ state' = [x \in Thread |-> state'[x]] /\ state'[t] = s
        /\ \A x \in Thread : x # t => state'[x] = state[x] /\ susp'[x] = susp[x]
        /\ susp' \in [Thread -> BOOLEAN] /\ ~ susp'[t]
    BY DEF Placed, StatesHold
  <2>2. ASSUME NEW x \in Thread
        PROVE  /\ state'[x] = {} <=> K2[x] = "unborn"
               /\ "FREED" \in state'[x] <=> K2[x] = "freed"
               /\ "INIT" \in state'[x] <=> sched'[x] = -1 /\ K2[x] # "unborn"
               /\ "INIT" \in state'[x] => state'[x] = {"INIT"}
               /\ K2[x] = "timer" => "SLEEPING" \in state'[x]
               /\ Sleepy(K2, A2, x)' => susp'[x]
               /\ K2[x] = "on" \/ sched'[x] = -1 => ~susp'[x]
    <3>1. CASE x = t
      BY <1>0, <1>1, <2>1, <3>1, QueueNames, Numbers DEF Moved, Sleepy, Blocking
    <3>2. CASE x # t
      BY <1>s, <2>1, <3>2 DEF Placed, StatesHold, Sleepy, Moved
    <3> QED
      BY <3>1, <3>2
  <2> QED
    BY <2>1, <2>2 DEF StatesHold
<1>6. CallbacksHold'
  <2>1. \A x \in Thread : sched[x] # -1 => sched'[x] # -1
    BY <1>s, <1>1, Numbers
  <2>2. sc[c] # "timer" /\ sc' = [sc EXCEPT ![c] = sc'[c]] /\ sc'[c] \in {"run", "back"}
    BY DEF Placed, LcoresHold
  <2> QED
    BY <2>1, <2>2, CallbackOfResume
<1> QED
  BY <1>0, <1>2, <1>3, <1>4, <1>5, <1>6 DEF Placed, Moved

LEMMA Frees ==
  ASSUME NEW K, NEW A, Placed(K, A), NEW c \in Lcore, NEW t \in Thread,
         FromQueue(c, t) \/ FromTimer(c, t), sc[c] \notin {"run", "back", "timer"},
         "INIT" \notin state[t],
         cur' = [cur EXCEPT ![c] = Null], sc' = [sc EXCEPT ![c] = "back"],
         state' = [state EXCEPT ![t] = {"FREED"}],
         NEW b \in BOOLEAN, susp' = [susp EXCEPT ![t] = b],
         NEW p \in {"top", "timer", "pready"}, next' = [next EXCEPT ![c] = p],
         UNCHANGED <<un, pend, sched>>,
         NEW K2, NEW A2, Moved(K, A, K2, A2, t, "freed", 0)
  PROVE  Placed(K2, A2)'
<1>0. /\ QueuesHold(K2, A2)' /\ TimersHold(K2, A2)'
      /\ K[t] \in {"queue", "timer"}
      /\ sched[t] \in {c, -1} /\ Exists(c)
      /\ state[t] # {} /\ "FREED" \notin state[t]
      /\ "INIT" \in state[t] <=> sched[t] = -1
      /\ pend[t] = Nowhere /\ \A u \in Thread : un[u] # t
  <2>1. \A k, a : k = "freed" /\ a = 0 => Moved(K, A, K2, A2, t, k, a) /\ k \notin {"queue", "timer"}
    OBVIOUS
  <2> QED
    BY <2>1, Taking
<1>1. sched[t] = c
  BY <1>0, Numbers
<1>2. WakersHold(K2, A2)'
  BY <1>0 DEF Placed, WakersHold, Moved
<1>3. LcoresHold(K2, A2)'
  BY <1>0, <1>1, Numbers DEF Placed, LcoresHold, Moved, ScPlace
<1>4. SchedsHold(K2, A2)'
  BY <1>0, <1>1, QueueNames, Numbers DEF Placed, SchedsHold, LcoresHold, Moved, Exists
<1>5. StatesHold(K2, A2)'
  <2>1. /\ state' = [x \in Thread |-> state'[x]] /\ state'[t] = {"FREED"}
        /\ \A x \in Thread : x # t => state'[x] = state[x] /\ susp'[x] = susp[x]
        /\ susp' \in [Thread -> BOOLEAN]
    BY DEF Placed, StatesHold
  <2>2. ASSUME NEW x \in Thread
        PROVE  /\ state'[x] = {} <=> K2[x] = "unborn"
               /\ "FREED" \in state'[x] <=> K2[x] = "freed"
               /\ "INIT" \in state'[x] <=> sched'[x] = -1 /\ K2[x] # "unborn"
               /\ "INIT" \in state'[x] => state'[x] = {"INIT"}
               /\ K2[x] = "timer" => "SLEEPING" \in state'[x]
               /\ Sleepy(K2, A2, x)' => susp'[x]
               /\ K2[x] = "on" \/ sched'[x] = -1 => ~susp'[x]
    <3>1. CASE x = t
      BY <1>0, <1>1, <2>1, <3>1, QueueNames, Numbers DEF Moved, Sleepy, Blocking
    <3>2. CASE x # t
      BY <2>1, <3>2 DEF Placed, StatesHold, Sleepy, Moved
    <3> QED
      BY <3>1, <3>2
  <2> QED
    BY <2>1, <2>2 DEF StatesHold
<1>6. CallbacksHold'
  BY <1>0, <1>1, CallbackOfResume, Numbers DEF Placed, LcoresHold
<1> QED
  BY <1>0, <1>2, <1>3, <1>4, <1>5, <1>6 DEF Placed, Moved

-----------------------------------------------------------------------------
(* Schedulers: back from a thread, the timer callback, the start.         *)

(* The lcore is back in _lthread_resume, and there is nothing to write. *)
LEMMA ComesBack ==
  ASSUME NEW K, NEW A, Placed(K, A), NEW c \in Lcore, sc[c] = "back",
         cur[c] = Null \/ pend[cur[c]] = Nowhere,
         cur' = [cur EXCEPT ![c] = Null], sc' = [sc EXCEPT ![c] = next[c]],
         next' = [next EXCEPT ![c] = "top"],
         UNCHANGED <<queue, timer, un, sched, state, pend, susp, cb>>
  PROVE  Placed(K, A)'
<1>0. next[c] \in {"top", "timer", "pready"} /\ sc \in [Lcore -> ScPlace]
  BY DEF Placed, CallbacksHold, LcoresHold
<1>1. QueuesHold(K, A)' /\ TimersHold(K, A)' /\ WakersHold(K, A)' /\ StatesHold(K, A)'
  BY DEF Placed, QueuesHold, TimersHold, WakersHold, StatesHold, Sleepy
<1>2. LcoresHold(K, A)'
  BY <1>0, Numbers DEF Placed, LcoresHold, ScPlace
<1>3. SchedsHold(K, A)' /\ CallbacksHold'
  BY <1>0, Numbers DEF Placed, SchedsHold, Exists, CallbacksHold
<1> QED
  BY <1>1, <1>2, <1>3 DEF Placed

LEMMA Saves ==
  ASSUME NEW K, NEW A, Placed(K, A), NEW c \in Lcore, NEW t \in Thread, sc[c] = "back",
         cur[c] = t, pend[t] # Nowhere,
         queue' = [queue EXCEPT ![pend[t]] = Append(@, t)],
         pend' = [pend EXCEPT ![t] = Nowhere],
         cur' = [cur EXCEPT ![c] = Null], sc' = [sc EXCEPT ![c] = next[c]],
         next' = [next EXCEPT ![c] = "top"],
         UNCHANGED <<timer, un, sched, state, susp, cb>>,
         NEW K2, NEW A2, Moved(K, A, K2, A2, t, "queue", pend[t])
  PROVE  Placed(K2, A2)'
<1>0. /\ next[c] \in {"top", "timer", "pready"} /\ sc \in [Lcore -> ScPlace]
      /\ K[t] = "pend" /\ A[t] = c /\ pend[t] \in QueueName /\ timer[t] = -1
      /\ sched[t] # -1 /\ \A u \in Thread : un[u] # t
      /\ \A d \in Lcore : d # c => cur[d] # t
  BY Numbers DEF Placed, CallbacksHold, LcoresHold, SchedsHold, TimersHold, WakersHold
<1>1. QueuesHold(K2, A2)'
  BY <1>0, QueueAppend DEF Placed
<1>2. TimersHold(K2, A2)'
  BY <1>0 DEF Placed, TimersHold, Moved
<1>3. WakersHold(K2, A2)'
  BY <1>0 DEF Placed, WakersHold, Moved
<1>4. LcoresHold(K2, A2)'
  BY <1>0, Numbers DEF Placed, LcoresHold, ScPlace, Moved
<1>5. SchedsHold(K2, A2)'
  BY <1>0, QueueNames, Numbers DEF Placed, SchedsHold, LcoresHold, Exists, Moved
<1>6. StatesHold(K2, A2)'
  <2>1. pend'[t] = Nowhere /\ \A x \in Thread : x # t => pend'[x] = pend[x]
    BY DEF Placed, LcoresHold
  <2>2. ASSUME NEW x \in Thread
        PROVE  /\ state'[x] = {} <=> K2[x] = "unborn"
               /\ "FREED" \in state'[x] <=> K2[x] = "freed"
               /\ "INIT" \in state'[x] <=> sched'[x] = -1 /\ K2[x] # "unborn"
               /\ K2[x] = "timer" => "SLEEPING" \in state'[x]
               /\ Sleepy(K2, A2, x)' => susp'[x]
               /\ K2[x] = "on" \/ sched'[x] = -1 => ~susp'[x]
    <3>1. CASE x = t
      <4>1. /\ state[t] # {} /\ "FREED" \notin state[t] /\ "INIT" \notin state[t]
            /\ pend[t] \in Blocking => susp[t]
        BY <1>0 DEF Placed, StatesHold, Sleepy
      <4>2. K2[t] = "queue" /\ A2[t] = pend[t]
        BY DEF Moved
      <4>3. Sleepy(K2, A2, t)' => susp'[t]
        BY <2>1, <4>1, <4>2, QueueNames DEF Sleepy, Blocking
      <4> QED
        BY <1>0, <3>1, <4>1, <4>2, <4>3
    <3>2. CASE x # t
      BY <2>1, <3>2 DEF Placed, StatesHold, Sleepy, Moved
    <3> QED
      BY <3>1, <3>2
  <2> QED
    BY <2>2 DEF Placed, StatesHold
<1>7. CallbacksHold'
  BY <1>0 DEF Placed, CallbacksHold
<1> QED
  BY <1>1, <1>2, <1>3, <1>4, <1>5, <1>6, <1>7 DEF Placed, Moved

LEMMA RestoreKeeps ==
  ASSUME NEW K, NEW A, Placed(K, A), NEW c \in Lcore, Restore(c)
  PROVE  Placed(K, A)'
<1>0. /\ sc[c] = "timer" /\ sc' = [sc EXCEPT ![c] = "ready"]
      /\ IF "FREED" \in state[cb[c][1]] THEN UNCHANGED state
         ELSE state' = [state EXCEPT ![cb[c][1]] = cb[c][2]]
      /\ cb' = [cb EXCEPT ![c] = Nowhere]
      /\ UNCHANGED <<queue, cur, next, sched, pend, timer, susp, un>>
  BY DEF Restore
<1>1. /\ cb[c][1] \in Thread /\ sched[cb[c][1]] # -1
      /\ "SLEEPING" \in cb[c][2] /\ "INIT" \notin cb[c][2] /\ "FREED" \notin cb[c][2]
  BY <1>0 DEF Placed, CallbacksHold
<1>2. QueuesHold(K, A)' /\ TimersHold(K, A)' /\ WakersHold(K, A)'
  BY <1>0 DEF Placed, QueuesHold, TimersHold, WakersHold
<1>3. LcoresHold(K, A)'
  BY <1>0 DEF Placed, LcoresHold, ScPlace
<1>4. SchedsHold(K, A)'
  BY <1>0 DEF Placed, SchedsHold, Exists, LcoresHold
<1>5. CallbacksHold'
  <2>1. \A d \in Lcore : d # c => cb'[d] = cb[d] /\ sc'[d] = sc[d]
    BY <1>0 DEF Placed, CallbacksHold, LcoresHold
  <2>2. sc'[c] = "ready" /\ next[c] # "timer"
    BY <1>0 DEF Placed, LcoresHold, CallbacksHold
  <2> QED
    BY <1>0, <2>1, <2>2 DEF Placed, CallbacksHold
<1>6. StatesHold(K, A)'
  <2> DEFINE t == cb[c][1]
  <2>1. "INIT" \notin state[t] /\ state[t] # {}
    BY <1>1 DEF Placed, StatesHold, SchedsHold
  <2>2. CASE "FREED" \in state[t]
    BY <1>0, <2>2 DEF Placed, StatesHold, Sleepy
  <2>3. CASE "FREED" \notin state[t]
    <3>1. state' = [state EXCEPT ![t] = cb[c][2]]
      BY <1>0, <2>3
    <3>2. /\ state' = [x \in Thread |-> state'[x]] /\ state'[t] = cb[c][2]
          /\ \A x \in Thread : x # t => state'[x] = state[x]
      BY <3>1, <1>1 DEF Placed, StatesHold
    <3> HIDE DEF t
    <3>3. "SLEEPING" \in state'[t] /\ "INIT" \notin state'[t] /\ "FREED" \notin state'[t] /\ t \in Thread /\ sched[t] # -1
      BY <3>2, <1>1 DEF t
    <3>4. ASSUME NEW x \in Thread
          PROVE  /\ state'[x] = {} <=> K[x] = "unborn"
                 /\ "FREED" \in state'[x] <=> K[x] = "freed"
                 /\ "INIT" \in state'[x] <=> sched'[x] = -1 /\ K[x] # "unborn"
                 /\ "INIT" \in state'[x] => state'[x] = {"INIT"}
                 /\ K[x] = "timer" => "SLEEPING" \in state'[x]
                 /\ Sleepy(K, A, x)' => susp'[x]
                 /\ K[x] = "on" \/ sched'[x] = -1 => ~susp'[x]
      <4>1. CASE x = t
        BY <1>0, <2>1, <2>3, <3>3, <4>1 DEF Placed, StatesHold, Sleepy
      <4>2. CASE x # t
        BY <1>0, <3>2, <4>2 DEF Placed, StatesHold, Sleepy
      <4> QED
        BY <4>1, <4>2
    <3> QED
      BY <1>0, <3>2, <3>4 DEF Placed, StatesHold
  <2> QED
    BY <2>2, <2>3
<1> QED
  BY <1>2, <1>3, <1>4, <1>5, <1>6 DEF Placed

LEMMA Starts ==
  ASSUME NEW K, NEW A, Placed(K, A), NEW c \in Lcore, sc[c] = "off",
         NEW r \in Seq(Thread), Distinct(r), \A x \in Thread : Has(r, x) => K[x] = "unborn",
         sc' = [sc EXCEPT ![c] = "sync"], queue' = [queue EXCEPT ![Ready(c)] = r],
         state' = [x \in Thread |-> IF Has(r, x) THEN {"INIT"} ELSE state[x]],
         UNCHANGED <<timer, un, cur, sched, pend, susp, next, cb>>,
         NEW K2, NEW A2,
         K2 = [x \in Thread |-> IF Has(r, x) THEN "queue" ELSE K[x]],
         A2 = [x \in Thread |-> IF Has(r, x) THEN Ready(c) ELSE A[x]]
  PROVE  Placed(K2, A2)'
<1>0. /\ Ready(c) \in QueueName /\ Ready(c) \notin Blocking
      /\ \A e \in Lcore : Ready(c) # PReady(e) /\ (Ready(c) = Ready(e) => c = e)
  BY QueueNames
<1>t. /\ K2 \in [Thread -> Kind] /\ A2 \in [Thread -> Spot]
      /\ \A x \in Thread : Has(r, x) => K2[x] = "queue" /\ A2[x] = Ready(c) /\ K[x] = "unborn"
      /\ \A x \in Thread : ~Has(r, x) => K2[x] = K[x] /\ A2[x] = A[x]
  BY <1>0 DEF Placed, Kind, Spot
<1>u. \A x \in Thread : Has(r, x) => /\ sched[x] = -1 /\ pend[x] = Nowhere /\ timer[x] = -1 /\ ~ susp[x]
  BY <1>t DEF Placed, LcoresHold, SchedsHold, TimersHold, StatesHold
<1>e. ~ Exists(c)
  BY DEF Exists
<1>s. /\ sc' \in [Lcore -> ScPlace] /\ sc'[c] = "sync" /\ \A e \in Lcore : e # c => sc'[e] = sc[e]
  BY DEF Placed, LcoresHold, ScPlace
<1>1. QueuesHold(K2, A2)'
  <2>1. \A x \in Thread : ~ (K[x] = "queue" /\ A[x] = Ready(c))
    BY <1>e DEF Placed, SchedsHold
  <2>2. /\ queue' = [q \in QueueName |-> queue'[q]] /\ queue'[Ready(c)] = r
        /\ \A q \in QueueName : q # Ready(c) => queue'[q] = queue[q]
    BY <1>0 DEF Placed, QueuesHold
  <2>3. ASSUME NEW q \in QueueName, NEW x \in Thread
        PROVE  Has(queue'[q], x) <=> K2[x] = "queue" /\ A2[x] = q
    <3>1. CASE q = Ready(c)
      BY <1>t, <2>1, <2>2, <3>1
    <3>2. CASE q # Ready(c)
      <4>1. queue'[q] = queue[q] /\ (Has(queue[q], x) <=> K[x] = "queue" /\ A[x] = q)
        BY <2>2, <3>2 DEF Placed, QueuesHold
      <4> QED
        BY <4>1, <1>t, <3>2
    <3> QED
      BY <3>1, <3>2
  <2>4. \A x \in Thread : K2[x] = "queue" => A2[x] \in QueueName
    BY <1>0, <1>t DEF Placed, QueuesHold
  <2>5. \A q \in QueueName : queue'[q] \in Seq(Thread) /\ Distinct(queue'[q])
    BY <2>2 DEF Placed, QueuesHold
  <2> QED
    BY <2>2, <2>3, <2>4, <2>5 DEF QueuesHold
<1> HIDE DEF Has
<1>2. TimersHold(K2, A2)'
  BY <1>t, <1>u DEF Placed, TimersHold
<1>3. WakersHold(K2, A2)'
  BY <1>t DEF Placed, WakersHold
<1>4. LcoresHold(K2, A2)'
  BY <1>t, <1>u, <1>s DEF Placed, LcoresHold
<1>5. SchedsHold(K2, A2)'
  <2>1. \A e \in Lcore : Exists(e) => Exists(e)'
    BY <1>s DEF Exists
  <2>2. Exists(c)'
    BY <1>s DEF Exists
  <2> QED
    <3>1. ASSUME NEW x \in Thread
          PROVE  /\ K2[x] = "on" => sched'[x] = A2[x]
                 /\ sched'[x] = -1 => K2[x] = "unborn" \/ (K2[x] = "queue" /\ A2[x] \notin Blocking)
                 /\ K2[x] = "unborn" => sched'[x] = -1
                 /\ sched'[x] # -1 => Exists(sched[x])'
      <4>1. CASE Has(r, x)
        BY <1>0, <1>t, <1>u, <4>1
      <4>2. CASE ~ Has(r, x)
        <5>1. sched[x] # -1 => sched[x] \in Lcore /\ Exists(sched[x])
          BY DEF Placed, SchedsHold
        <5> HIDE DEF Exists
        <5> QED
          BY <1>t, <2>1, <4>2, <5>1 DEF Placed, SchedsHold
      <4> QED
        BY <4>1, <4>2
    <3>2. ASSUME NEW x \in Thread, NEW e \in Lcore
          PROVE  /\ K2[x] = "queue" /\ A2[x] \in {Ready(e), PReady(e)} => sched'[x] \in {e, -1} /\ Exists(e)'
                 /\ pend'[x] # Ready(e)
                 /\ pend'[x] = PReady(e) => sched'[x] = e
      <4> HIDE DEF Exists
      <4>1. CASE Has(r, x)
        BY <1>0, <1>t, <1>u, <2>2, <4>1, QueueNames
      <4>2. CASE ~ Has(r, x)
        BY <1>t, <2>1, <4>2 DEF Placed, SchedsHold
      <4> QED
        BY <4>1, <4>2
    <3> QED
      BY <3>1, <3>2 DEF Placed, SchedsHold
<1>6. StatesHold(K2, A2)'
  <2>1. /\ state' = [x \in Thread |-> state'[x]]
        /\ \A x \in Thread : Has(r, x) => state'[x] = {"INIT"}
        /\ \A x \in Thread : ~Has(r, x) => state'[x] = state[x]
    OBVIOUS
  <2>2. ASSUME NEW x \in Thread
        PROVE  /\ state'[x] = {} <=> K2[x] = "unborn"
               /\ "FREED" \in state'[x] <=> K2[x] = "freed"
               /\ "INIT" \in state'[x] <=> sched'[x] = -1 /\ K2[x] # "unborn"
               /\ "INIT" \in state'[x] => state'[x] = {"INIT"}
               /\ K2[x] = "timer" => "SLEEPING" \in state'[x]
               /\ Sleepy(K2, A2, x)' => susp'[x]
               /\ K2[x] = "on" \/ sched'[x] = -1 => ~susp'[x]
    <3>1. CASE Has(r, x)
      <4>1. /\ state'[x] = {"INIT"} /\ K2[x] = "queue" /\ A2[x] = Ready(c) /\ sched'[x] = -1
            /\ pend'[x] = Nowhere /\ ~susp'[x]
        BY <1>t, <1>u, <2>1, <3>1
      <4> QED
        BY <4>1, <1>0, QueueNames DEF Sleepy, Blocking
    <3>2. CASE ~ Has(r, x)
      BY <1>t, <2>1, <3>2 DEF Placed, StatesHold, Sleepy
    <3> QED
      BY <3>1, <3>2
  <2> QED
    BY <2>1, <2>2 DEF Placed, StatesHold
<1>7. CallbacksHold'
  BY <1>s DEF Placed, CallbacksHold
<1> QED
  BY <1>t, <1>1, <1>2, <1>3, <1>4, <1>5, <1>6, <1>7 DEF Placed

-----------------------------------------------------------------------------
(* Joins, programs and the main program, next to the places.              *)

Stands(K, A) == Placed(K, A) /\ JoinsHold(K) /\ ProgsHold(K)
PlacesInv == MainHolds /\ \E K, A : Stands(K, A)

(* The operation that a thread is in. *)
LEMMA OpIs ==
  ASSUME setup \in Setup, NEW t \in Thread, ip[t] \in Nat \ {0}, Op(t)[1] # "return"
  PROVE  /\ ip[t] \in DOMAIN setup.prog[t] /\ Op(t) = setup.prog[t][ip[t]]
         /\ WellNamed(t, Op(t))
<1>1. Len(setup.prog[t]) \in Nat /\ DOMAIN setup.prog[t] = 1 .. Len(setup.prog[t])
      /\ \A i \in DOMAIN setup.prog[t] : WellNamed(t, setup.prog[t][i])
  BY LthreadAssumption
<1>2. ip[t] <= Len(setup.prog[t])
  BY <1>1 DEF Op
<1> QED
  BY <1>1, <1>2 DEF Op

(* What joins look at, and what a step that has nothing to do with them    *)
(* does to it. *)
Joining == {"join", "joinwait", "exitval", "exitwake", "exitwait"}
ApartFromJoins ==
  /\ UNCHANGED <<setup, join, joiner>>
  /\ ip' \in [Thread -> Nat \ {0}] /\ pc' = [t \in Thread |-> pc'[t]]
  /\ \A t \in Thread : \/ pc'[t] = pc[t] /\ ip'[t] = ip[t]
                       \/ pc[t] \notin Joining /\ pc'[t] \notin Joining /\ ip'[t] >= ip[t]

LEMMA JoinedStays ==
  ASSUME setup \in Setup, UNCHANGED setup, ip \in [Thread -> Nat \ {0}], ip' \in [Thread -> Nat \ {0}],
         \A t \in Thread : ip'[t] >= ip[t],
         NEW w \in Thread, NEW u \in Thread, Joined(w, u)
  PROVE  Joined(w, u)'
<1>1. PICK i \in DOMAIN setup.prog[w] : i < ip[w] /\ setup.prog[w][i][1] = "join" /\ setup.prog[w][i][2] = u
  BY DEF Joined
<1>2. i \in Nat
  BY <1>1, LthreadAssumption
<1>3. i < ip'[w]
  BY <1>1, <1>2
<1> QED
  BY <1>1, <1>3 DEF Joined

LEMMA JoinsKept ==
  ASSUME NEW K, NEW K2, setup \in Setup, JoinsHold(K), ApartFromJoins, ip \in [Thread -> Nat \ {0}],
         \A t \in Thread : K2[t] = "parked" <=> K[t] = "parked"
  PROVE  JoinsHold(K2)'
<1>1. \A t \in Thread : pc[t] \in Joining \/ pc'[t] \in Joining => pc'[t] = pc[t] /\ Op(t)' = Op(t)
  BY DEF ApartFromJoins, Op
<1>2. \A w, u \in Thread : Waits(w, u)' <=> Waits(w, u)
  BY <1>1 DEF Waits, Joining
<1>3. \A u \in Thread : (pc'[u] \in Ending <=> pc[u] \in Ending) /\ (pc[u] \in Ending => pc'[u] = pc[u])
  BY <1>1 DEF Joining, Ending
<1>4. UNCHANGED <<join, joiner>>
  BY DEF ApartFromJoins
<1>5. \A w, u \in Thread : Joined(w, u) => Joined(w, u)'
  BY JoinedStays DEF ApartFromJoins
<1>6. \A w \in Thread : pc'[w] \in {"join", "joinwait"} => Op(w)'[1] = "join" /\ joiner'[Op(w)'[2]] = w
  BY <1>1, <1>4 DEF JoinsHold, Joining
<1>7. \A t \in Thread : K2[t] = "parked" => pc'[t] \in {"joinwait", "exitval"}
  BY <1>1 DEF JoinsHold, Joining
<1>8. ASSUME NEW u \in Thread
      PROVE
       \/ /\ join'[u] = "INITIAL"
          /\ pc'[u] \notin Ending /\ \A w \in Thread : ~Waits(w, u)'
       \/ /\ join'[u] = "THREAD_SET" /\ joiner'[u] # Null
          /\ pc'[u] \notin Ending /\ Waits(joiner[u], u)' /\ K2[joiner'[u]] = "parked"
       \/ /\ join'[u] = "EXITING" /\ pc'[u] = "exitval"
          /\ K2[u] = "parked" \/ \E w \in Thread : Waits(w, u)'
       \/ /\ join'[u] = "EXIT_VAL_SET" /\ joiner'[u] # Null /\ Waits(joiner[u], u)'
          /\ \/ pc'[u] = "exitwake" /\ K2[joiner'[u]] = "parked"
             \/ pc'[u] = "exitwait"
       \/ /\ join'[u] = "EXIT_VAL_READ" /\ pc'[u] = "exitwait"
          /\ \A w \in Thread : ~Waits(w, u)'
          /\ \E w \in Thread : Joined(w, u)'
  <2>j. joiner[u] # Null => joiner[u] \in Thread /\ (Waits(joiner[u], u) => Waits(joiner[u], u)')
                            /\ (K[joiner[u]] = "parked" => K2[joiner[u]] = "parked")
    BY <1>2, <1>4 DEF JoinsHold
  <2>1. \/ /\ join[u] = "INITIAL"
           /\ pc[u] \notin Ending /\ \A w \in Thread : ~Waits(w, u)
        \/ /\ join[u] = "THREAD_SET" /\ joiner[u] # Null
           /\ pc[u] \notin Ending /\ Waits(joiner[u], u) /\ K[joiner[u]] = "parked"
        \/ /\ join[u] = "EXITING" /\ pc[u] = "exitval"
           /\ K[u] = "parked" \/ \E w \in Thread : Waits(w, u)
        \/ /\ join[u] = "EXIT_VAL_SET" /\ joiner[u] # Null /\ Waits(joiner[u], u)
           /\ \/ pc[u] = "exitwake" /\ K[joiner[u]] = "parked"
              \/ pc[u] = "exitwait"
        \/ /\ join[u] = "EXIT_VAL_READ" /\ pc[u] = "exitwait"
           /\ \A w \in Thread : ~Waits(w, u)
           /\ \E w \in Thread : Joined(w, u)
    BY DEF JoinsHold
  <2> HIDE DEF Waits, Joined
  <2> QED
    BY <2>1, <2>j, <1>2, <1>3, <1>4, <1>5 DEF Ending
<1> HIDE DEF Op, Waits, Joined
<1>9. /\ joiner' \in [Thread -> Thread \cup {Null}] /\ join' = [t \in Thread |-> join'[t]]
  BY <1>4 DEF JoinsHold
<1> QED
  BY <1>6, <1>7, <1>8, <1>9 DEF JoinsHold

(* Programs go on; whoever was created stays created. *)
GoesOn ==
  /\ UNCHANGED setup
  /\ ip' \in [Thread -> Nat \ {0}] /\ pc' = [t \in Thread |-> pc'[t]]
  /\ \A t \in Thread : ip'[t] >= ip[t]
  /\ mip' \in Nat /\ mip' >= mip
  /\ \A c \in Lcore : Exists(c) /\ sc[c] # "made" => Exists(c)' /\ sc'[c] # "made"

LEMMA BornStays ==
  ASSUME NEW K, ProgsHold(K), MainHolds, GoesOn, NEW t \in Thread, Born(t)
  PROVE  Born(t)'
<1>1. CASE \E c \in Lcore : Exists(c) /\ sc[c] # "made" /\ \E i \in DOMAIN setup.root[c] : setup.root[c][i] = t
  BY <1>1 DEF GoesOn, Born
<1>2. CASE \E u \in Thread : \E i \in DOMAIN setup.prog[u] : i < ip[u] /\ Taken(setup.prog[u][i]) = t
  <2>0. PICK u \in Thread : \E i \in DOMAIN setup.prog[u] : i < ip[u] /\ Taken(setup.prog[u][i]) = t
    BY <1>2
  <2>1. PICK i \in DOMAIN setup.prog[u] : i < ip[u] /\ Taken(setup.prog[u][i]) = t
    BY <2>0
  <2>2. i \in Nat
    BY <2>1, LthreadAssumption DEF MainHolds
  <2>3. i < ip'[u]
    BY <2>1, <2>2 DEF GoesOn, ProgsHold
  <2> QED
    BY <2>1, <2>3 DEF GoesOn, Born
<1>3. CASE \E i \in DOMAIN setup.main : i < mip /\ setup.main[i][1] = "launch" /\ setup.main[i][2] = t
  <2>1. PICK i \in DOMAIN setup.main : i < mip /\ setup.main[i][1] = "launch" /\ setup.main[i][2] = t
    BY <1>3
  <2>2. i \in Nat
    <3>1. setup.main # <<>>
      BY <2>1
    <3> QED
      BY <2>1, <3>1, GreenAssumption DEF MainHolds, WellUsed
  <2>3. i < mip'
    BY <2>1, <2>2 DEF GoesOn, MainHolds
  <2> QED
    BY <2>1, <2>3 DEF GoesOn, Born
<1> QED
  BY <1>1, <1>2, <1>3 DEF Born

LEMMA ProgsKept ==
  ASSUME NEW K, NEW K2, ProgsHold(K), MainHolds, GoesOn,
         \A t \in Thread : un'[t] # Null <=> pc'[t] \in Waking,
         \A t \in Thread : sched[t] # -1 => sched'[t] # -1,
         \A t \in Thread : K2[t] # "unborn" => K[t] # "unborn" \/ (Born(t) /\ HasTarget(t))'
  PROVE  ProgsHold(K2)'
<1>1. ASSUME NEW t \in Thread, Born(t) PROVE Born(t)'
  BY <1>1, BornStays
<1>2. ASSUME NEW t \in Thread, HasTarget(t) PROVE HasTarget(t)'
  <2>1. ASSUME NEW i \in DOMAIN setup.prog[t], setup.prog[t][i][1] = "_cancel"
        PROVE  sched'[setup.prog[t][i][2]] # -1
    <3>1. setup.prog[t][i][2] \in Thread
      BY <2>1, LthreadAssumption DEF MainHolds, WellNamed
    <3> QED
      BY <2>1, <3>1, <1>2 DEF HasTarget
  <2> QED
    BY <2>1 DEF HasTarget, GoesOn
<1>3. ASSUME NEW t \in Thread, K2[t] # "unborn"
      PROVE  Born(t)' /\ HasTarget(t)'
  BY <1>1, <1>2, <1>3 DEF ProgsHold
<1> QED
  BY <1>3 DEF ProgsHold, GoesOn

(* What main sees of a step of a running thread. *)
MainKept ==
  /\ UNCHANGED <<setup, mip, mpc, lstate, remote>>
  /\ \A c \in Lcore : sc'[c] = sc[c] \/ (sc[c] = "run" /\ sc'[c] = "back")

LEMMA MainStands ==
  ASSUME MainHolds, MainKept
  PROVE  MainHolds'
<1>1. Green => Master \in Lcore
  BY GreenAssumption DEF MainHolds, Green, WellUsed
<1> QED
  BY <1>1 DEF MainHolds, MainKept, Green, Call

(* A thread goes from one place that is not of a join or an exit to        *)
(* another, or stays where it is. *)
Goes(t, p) ==
  /\ pc' = [pc EXCEPT ![t] = p]
  /\ \/ p = pc[t] /\ UNCHANGED ip
     \/ pc[t] \notin Joining /\ p \notin Joining /\ (UNCHANGED ip \/ ip' = [ip EXCEPT ![t] = @ + 1])

LEMMA StepGoesOn ==
  ASSUME NEW K, ProgsHold(K), MainHolds, MainKept, NEW t \in Thread, NEW p,
         pc' = [pc EXCEPT ![t] = p], UNCHANGED ip \/ ip' = [ip EXCEPT ![t] = @ + 1]
  PROVE  GoesOn
<1>1. ip' \in [Thread -> Nat \ {0}] /\ \A x \in Thread : ip'[x] >= ip[x]
  BY DEF ProgsHold
<1>2. pc' = [x \in Thread |-> pc'[x]]
  BY DEF ProgsHold
<1>3. mip' \in Nat /\ mip' >= mip
  BY DEF MainKept, MainHolds
<1>4. \A c \in Lcore : Exists(c) /\ sc[c] # "made" => Exists(c)' /\ sc'[c] # "made"
  BY DEF MainKept, Exists
<1> QED
  BY <1>1, <1>2, <1>3, <1>4 DEF GoesOn, MainKept

LEMMA RestStands ==
  ASSUME NEW K, NEW K2, NEW A2, JoinsHold(K), ProgsHold(K), MainHolds, MainKept,
         Placed(K2, A2)', NEW t \in Thread, NEW p, Goes(t, p), UNCHANGED <<join, joiner>>,
         \A x \in Thread : un'[x] # Null <=> (x # t /\ un[x] # Null) \/ (x = t /\ p \in Waking),
         \A x \in Thread : sched[x] # -1 => sched'[x] # -1,
         \A x \in Thread : K2[x] = "parked" <=> K[x] = "parked",
         \A x \in Thread : K2[x] # "unborn" => K[x] # "unborn" \/ (Born(x) /\ HasTarget(x))'
  PROVE  PlacesInv'
<1>1. GoesOn
  BY StepGoesOn DEF Goes
<1>2. ApartFromJoins
  BY <1>1 DEF Goes, ApartFromJoins, GoesOn, ProgsHold, MainKept
<1>3. JoinsHold(K2)'
  BY <1>2, JoinsKept DEF ProgsHold, MainHolds
<1>4. \A x \in Thread : un'[x] # Null <=> pc'[x] \in Waking
  BY DEF Goes, ProgsHold
<1>5. ProgsHold(K2)'
  BY <1>1, <1>4, ProgsKept
<1>6. MainHolds'
  BY MainStands
<1> QED
  BY <1>3, <1>5, <1>6 DEF PlacesInv, Stands

-----------------------------------------------------------------------------
(* Steps of a running thread that stays, or that leaves its lcore.        *)

Unattended == UNCHANGED <<mip, mpc, lstate, remote>>
Running(c, t) == sc[c] = "run" /\ cur[c] = t

LEMMA RunningIs ==
  ASSUME PlacesInv, NEW c \in Lcore, NEW t \in Thread, Running(c, t)
  PROVE  sched[t] = c /\ sched[t] # -1 /\ sc \in [Lcore -> ScPlace] /\ ip[t] \in Nat \ {0}
BY OnIs, Numbers DEF PlacesInv, Stands, Placed, LcoresHold, ProgsHold, Running

LEMMA MainKeptIs ==
  ASSUME PlacesInv, NEW c \in Lcore, NEW t \in Thread, Running(c, t), Unattended, UNCHANGED setup,
         UNCHANGED sc \/ sc' = [sc EXCEPT ![c] = "back"]
  PROVE  MainKept
BY RunningIs DEF MainKept, Unattended, Running

LEMMA Marked ==
  ASSUME PlacesInv, NEW t \in Thread, sched[t] # -1, NEW S, "INIT" \notin S, "FREED" \notin S,
         state' = [state EXCEPT ![t] = @ \cup S]
  PROVE  SameStates
<1>1. PICK K, A : Stands(K, A)
  BY DEF PlacesInv
<1>2. state = [x \in Thread |-> state[x]] /\ state[t] # {} /\ "INIT" \notin state[t]
  BY <1>1 DEF Stands, Placed, StatesHold, SchedsHold
<1>3. state'[t] = state[t] \cup S /\ \A x \in Thread : x # t => state'[x] = state[x]
  BY <1>2
<1>4. state' = [x \in Thread |-> state'[x]]
  BY <1>2
<1> QED
  BY <1>2, <1>3, <1>4 DEF SameStates

LEMMA Unmarked ==
  ASSUME PlacesInv, UNCHANGED state
  PROVE  SameStates
BY DEF PlacesInv, Stands, Placed, StatesHold, SameStates

-----------------------------------------------------------------------------
(* A step that moves no thread. *)
Quiet(c, t) ==
  /\ Running(c, t) /\ UNCHANGED <<setup, queue, timer, un, cur, sc, sched, pend, susp, next, cb, join, joiner>>
  /\ \E p : Goes(t, p) /\ (pc[t] \in Waking <=> p \in Waking)

LEMMA QuietKeeps ==
  ASSUME PlacesInv, NEW c \in Lcore, NEW t \in Thread, Quiet(c, t), SameStates, Unattended
  PROVE  PlacesInv'
<1>1. PICK K, A : Stands(K, A)
  BY DEF PlacesInv
<1>2. PICK p : Goes(t, p) /\ (pc[t] \in Waking <=> p \in Waking)
  BY DEF Quiet
<1>3. Placed(K, A)'
  BY <1>1, Unmoved DEF Stands, Quiet
<1>4. MainKept
  BY MainKeptIs DEF Quiet
<1>5. \A x \in Thread : un'[x] # Null <=> (x # t /\ un[x] # Null) \/ (x = t /\ p \in Waking)
  BY <1>1, <1>2 DEF Quiet, Stands, ProgsHold
<1> QED
  BY <1>1, <1>2, <1>3, <1>4, <1>5, RestStands DEF Stands, PlacesInv, Quiet

(* The thread yields, or goes on later somewhere. *)
Leaves(c, t) ==
  /\ Running(c, t) /\ sc' = [sc EXCEPT ![c] = "back"]
  /\ UNCHANGED <<setup, un, cur, next, cb, join, joiner>>
  /\ pc[t] \notin Waking /\ \E p : Goes(t, p) /\ p \notin Waking

LEMMA LeavesKeeps ==
  ASSUME PlacesInv, NEW c \in Lcore, NEW t \in Thread, Leaves(c, t), Unattended,
         NEW K, NEW A, Stands(K, A), NEW K2, NEW A2, NEW k, NEW a, Moved(K, A, K2, A2, t, k, a),
         k \notin {"parked", "unborn"}, Placed(K2, A2)',
         \A x \in Thread : sched[x] # -1 => sched'[x] # -1
  PROVE  PlacesInv'
<1>2. PICK p : Goes(t, p) /\ p \notin Waking
  BY DEF Leaves
<1>3. K[t] = "on"
  BY OnIs DEF Stands, Leaves, Running
<1>4. MainKept
  BY MainKeptIs DEF Leaves
<1>5. \A x \in Thread : un'[x] # Null <=> (x # t /\ un[x] # Null) \/ (x = t /\ p \in Waking)
  BY <1>2 DEF Leaves, Stands, ProgsHold
<1>6. \A x \in Thread : (K2[x] = "parked" <=> K[x] = "parked") /\ (K2[x] # "unborn" => K[x] # "unborn")
  BY <1>3 DEF Moved
<1> QED
  BY <1>2, <1>4, <1>5, <1>6, RestStands DEF Stands, PlacesInv, Leaves

LEMMA YieldingKeeps ==
  ASSUME PlacesInv, NEW c \in Lcore, NEW t \in Thread, Leaves(c, t), Unattended,
         queue' = [queue EXCEPT ![Ready(c)] = Append(@, t)],
         UNCHANGED <<timer, sched, state, pend, susp>>
  PROVE  PlacesInv'
<1>1. PICK K, A : Stands(K, A)
  BY DEF PlacesInv
<1>2. PICK K2, A2 : Moved(K, A, K2, A2, t, "queue", Ready(c))
  BY <1>1, MoveThere, Spots, QueueNames DEF Stands, Placed, Kind
<1>3. Placed(K2, A2)'
  BY <1>1, <1>2, Yielded DEF Stands, Leaves, Running
<1> QED
  BY <1>1, <1>2, <1>3, LeavesKeeps

LEMMA SleepingKeeps ==
  ASSUME PlacesInv, NEW c \in Lcore, NEW t \in Thread, Leaves(c, t), Unattended,
         timer' = [timer EXCEPT ![t] = c], state' = [state EXCEPT ![t] = @ \cup {"SLEEPING"}],
         susp' = [susp EXCEPT ![t] = TRUE], UNCHANGED <<queue, sched, pend>>
  PROVE  PlacesInv'
<1>1. PICK K, A : Stands(K, A)
  BY DEF PlacesInv
<1>2. PICK K2, A2 : Moved(K, A, K2, A2, t, "timer", 0)
  BY <1>1, MoveThere, Spots DEF Stands, Placed, Kind
<1>3. sched[t] # -1
  BY RunningIs DEF Leaves
<1>4. SameStates
  BY <1>3, Marked
<1>5. "SLEEPING" \in state'[t]
  BY <1>1 DEF Stands, Placed, StatesHold
<1>6. Placed(K2, A2)'
  BY <1>1, <1>2, <1>4, <1>5, Slept DEF Stands, Leaves, Running
<1> QED
  BY <1>1, <1>2, <1>6, LeavesKeeps

LEMMA BlockingKeeps ==
  ASSUME PlacesInv, NEW c \in Lcore, NEW t \in Thread, Leaves(c, t), Unattended,
         NEW q \in Blocking, pend' = [pend EXCEPT ![t] = q],
         susp' = [susp EXCEPT ![t] = TRUE], UNCHANGED <<queue, timer, sched, state>>
  PROVE  PlacesInv'
<1>1. PICK K, A : Stands(K, A)
  BY DEF PlacesInv
<1>2. PICK K2, A2 : Moved(K, A, K2, A2, t, "pend", c)
  BY <1>1, MoveThere, Spots DEF Stands, Placed, Kind
<1>3. Placed(K2, A2)'
  BY <1>1, <1>2, Blocks DEF Stands, Leaves, Running
<1> QED
  BY <1>1, <1>2, <1>3, LeavesKeeps

LEMMA MigratingKeeps ==
  ASSUME PlacesInv, NEW c \in Lcore, NEW t \in Thread, Leaves(c, t), Unattended,
         NEW d \in Lcore, Exists(d), sched' = [sched EXCEPT ![t] = d],
         pend' = [pend EXCEPT ![t] = PReady(d)], UNCHANGED <<queue, timer, state, susp>>
  PROVE  PlacesInv'
<1>1. PICK K, A : Stands(K, A)
  BY DEF PlacesInv
<1>2. PICK K2, A2 : Moved(K, A, K2, A2, t, "pend", c)
  BY <1>1, MoveThere, Spots DEF Stands, Placed, Kind
<1>3. Placed(K2, A2)'
  BY <1>1, <1>2, Migrates DEF Stands, Leaves, Running
<1>4. \A x \in Thread : sched[x] # -1 => sched'[x] # -1
  BY <1>1, Numbers DEF Stands, Placed, SchedsHold
<1> QED
  BY <1>1, <1>2, <1>3, <1>4, LeavesKeeps

-----------------------------------------------------------------------------
(* A step by which the thread takes another one from a queue, or makes it  *)
(* ready. *)
LEMMA RemovingKeeps ==
  ASSUME PlacesInv, NEW c \in Lcore, NEW t \in Thread, Running(c, t), Unattended,
         NEW q \in Blocking, queue[q] # <<>>, queue' = [queue EXCEPT ![q] = Tail(@)],
         un' = [un EXCEPT ![t] = Head(queue[q])],
         UNCHANGED <<setup, timer, cur, sc, sched, state, pend, susp, next, cb, join, joiner>>,
         NEW p, Goes(t, p), pc[t] \notin Waking, p \in Waking
  PROVE  PlacesInv'
<1>1. PICK K, A : Stands(K, A)
  BY DEF PlacesInv
<1>q. q \in QueueName
  BY QueueNames DEF Blocking
<1>2. Head(queue[q]) \in Thread /\ K[Head(queue[q])] = "queue"
  BY <1>1, <1>q, HeadIs DEF Stands, Placed
<1>3. PICK K2, A2 : Moved(K, A, K2, A2, Head(queue[q]), "un", t)
  BY <1>1, <1>2, MoveThere, Spots DEF Stands, Placed, Kind
<1>u. un[t] = Null
  BY <1>1 DEF Stands, ProgsHold
<1>4. Placed(K2, A2)'
  BY <1>1, <1>3, <1>u, Removes DEF Stands
<1>5. \A x \in Thread : un'[x] # Null <=> (x # t /\ un[x] # Null) \/ (x = t /\ p \in Waking)
  BY <1>1, <1>2, Numbers DEF Stands, Placed, WakersHold
<1>6. \A x \in Thread : (K2[x] = "parked" <=> K[x] = "parked") /\ (K2[x] # "unborn" => K[x] # "unborn")
  BY <1>2, <1>3 DEF Moved
<1>7. MainKept
  BY MainKeptIs
<1> QED
  BY <1>1, <1>4, <1>5, <1>6, <1>7, RestStands DEF Stands, PlacesInv

LEMMA WakingKeeps ==
  ASSUME PlacesInv, NEW c \in Lcore, NEW t \in Thread, Running(c, t), Unattended, pc[t] \in Waking,
         ReadyInsert(c, sched[un[t]], un[t]), un' = [un EXCEPT ![t] = Null],
         UNCHANGED <<setup, timer, cur, sc, sched, state, pend, susp, next, cb, join, joiner>>,
         NEW p, Goes(t, p), p \notin Waking
  PROVE  PlacesInv'
<1>1. PICK K, A : Stands(K, A)
  BY DEF PlacesInv
<1> DEFINE x == un[t]
<1>2. x \in Thread /\ K[x] = "un" /\ sched[x] # -1 /\ sched[x] \in Lcore
  BY <1>1 DEF Stands, Placed, WakersHold, ProgsHold, SchedsHold
<1>3. PICK q \in {Ready(sched[x]), PReady(sched[x])} : queue' = [queue EXCEPT ![q] = Append(@, x)]
  BY DEF ReadyInsert, InsertMp
<1>4. PICK K2, A2 : Moved(K, A, K2, A2, x, "queue", q)
  BY <1>1, <1>2, <1>3, MoveThere, Spots, QueueNames DEF Stands, Placed, Kind
<1>5. \E u \in Thread : un[u] = x /\ un' = [un EXCEPT ![u] = Null]
  OBVIOUS
<1> HIDE DEF x
<1>6. Placed(K2, A2)'
  <2>1. Placed(K, A) /\ x \in Thread
    BY <1>1, <1>2 DEF Stands
  <2>2. \/ K[x] = "parked" /\ UNCHANGED un
        \/ \E u \in Thread : un[u] = x /\ un' = [un EXCEPT ![u] = Null]
    BY <1>5
  <2>3. q \in {Ready(sched[x]), PReady(sched[x])} /\ queue' = [queue EXCEPT ![q] = Append(@, x)]
    BY <1>3
  <2> QED
    BY <2>1, <2>2, <2>3, <1>4, Wakes
<1>7. \A y \in Thread : un'[y] # Null <=> (y # t /\ un[y] # Null) \/ (y = t /\ p \in Waking)
  BY <1>1 DEF Stands, Placed, WakersHold
<1>8. \A y \in Thread : (K2[y] = "parked" <=> K[y] = "parked") /\ (K2[y] # "unborn" => K[y] # "unborn")
  BY <1>2, <1>4 DEF Moved
<1>9. MainKept
  BY MainKeptIs
<1> QED
  BY <1>1, <1>6, <1>7, <1>8, <1>9, RestStands DEF Stands, PlacesInv

-----------------------------------------------------------------------------
(* Structs are taken once, threads joined once.                           *)

(* Nobody takes a struct that is in use. *)
LEMMA TakesUnborn ==
  ASSUME MainHolds, NEW K, ProgsHold(K), NEW t \in Thread, NEW x \in Thread,
         Op(t)[1] \in {"create", "cancel"}, Taken(Op(t)) = x
  PROVE  /\ K[x] = "unborn"
         /\ ip'[t] = ip[t] + 1 /\ UNCHANGED setup => Born(x)'
         /\ \A i \in DOMAIN setup.prog[x] : setup.prog[x][i][1] = "_cancel" =>
              Op(t)[1] = "cancel" /\ setup.prog[x][i][2] = Op(t)[2]
<1>1. /\ ip[t] \in DOMAIN setup.prog[t] /\ Op(t) = setup.prog[t][ip[t]]
      /\ ip[t] \in Nat
  BY OpIs DEF MainHolds, ProgsHold
<1>2. Taken(setup.prog[t][ip[t]]) = x /\ x # Null
  BY <1>1, Numbers
<1>3. ~ Born(x)
  <2>1. CASE \E c \in Lcore : Exists(c) /\ sc[c] # "made" /\ \E i \in DOMAIN setup.root[c] : setup.root[c][i] = x
    BY <1>1, <1>2, <2>1, LthreadAssumption DEF MainHolds, TakenOnce
  <2>2. CASE \E u \in Thread : \E i \in DOMAIN setup.prog[u] : i < ip[u] /\ Taken(setup.prog[u][i]) = x
    <3>1. PICK u \in Thread : \E i \in DOMAIN setup.prog[u] : i < ip[u] /\ Taken(setup.prog[u][i]) = x
      BY <2>2
    <3>2. PICK i \in DOMAIN setup.prog[u] : i < ip[u] /\ Taken(setup.prog[u][i]) = x
      BY <3>1
    <3>3. u = t /\ i = ip[t]
      BY <1>1, <1>2, <3>2, LthreadAssumption DEF MainHolds, TakenOnce
    <3> QED
      BY <1>1, <3>2, <3>3
  <2>3. CASE \E i \in DOMAIN setup.main : i < mip /\ setup.main[i][1] = "launch" /\ setup.main[i][2] = x
    <3>1. setup.main # <<>>
      BY <2>3
    <3> QED
      BY <1>1, <1>2, <2>3, <3>1, GreenAssumption DEF MainHolds, WellUsed
  <2> QED
    BY <2>1, <2>2, <2>3 DEF Born
<1>4. ip'[t] = ip[t] + 1 /\ UNCHANGED setup => Born(x)'
  BY <1>1, <1>2 DEF Born
<1>5. ASSUME NEW i \in DOMAIN setup.prog[x], setup.prog[x][i][1] = "_cancel"
      PROVE  Op(t)[1] = "cancel" /\ setup.prog[x][i][2] = Op(t)[2]
  <2>1. OnlyTasklets(setup)
    BY LthreadAssumption DEF MainHolds
  <2> QED
    BY <1>1, <1>2, <1>5, <2>1 DEF OnlyTasklets
<1> QED
  BY <1>3, <1>4, <1>5 DEF ProgsHold

LEMMA CreatingKeeps ==
  ASSUME PlacesInv, NEW c \in Lcore, NEW t \in Thread, Running(c, t), Unattended,
         pc[t] \notin Joining \cup Waking, Advance(t), Op(t)[1] \in {"create", "cancel"},
         NEW x \in Thread, Taken(Op(t)) = x, Op(t)[1] = "cancel" => sched[Op(t)[2]] # -1,
         NEW d \in Lcore, Exists(d), state' = [state EXCEPT ![x] = {"INIT"}], ReadyInsert(c, d, x),
         UNCHANGED <<setup, timer, un, cur, sc, sched, pend, susp, next, cb, join, joiner>>
  PROVE  PlacesInv'
<1>1. PICK K, A : Stands(K, A)
  BY DEF PlacesInv
<1>2. K[x] = "unborn"
  BY <1>1, TakesUnborn DEF PlacesInv, Stands
<1>3. PICK q \in {Ready(d), PReady(d)} : queue' = [queue EXCEPT ![q] = Append(@, x)]
  BY DEF ReadyInsert, InsertMp
<1>4. PICK K2, A2 : Moved(K, A, K2, A2, x, "queue", q)
  BY <1>1, <1>3, MoveThere, Spots, QueueNames DEF Stands, Placed, Kind
<1>5. ScSteps
  BY <1>1 DEF Stands, Placed, LcoresHold, ScSteps
<1>6. Placed(K2, A2)'
  BY <1>1, <1>2, <1>3, <1>4, <1>5, Creates DEF Stands
<1>7. (Born(x) /\ HasTarget(x))'
  <2>1. ip'[t] = ip[t] + 1
    BY <1>1 DEF Stands, ProgsHold, Advance
  <2> QED
    BY <1>1, <2>1, TakesUnborn DEF PlacesInv, Stands, HasTarget
<1>8. Goes(t, "op") /\ "op" \notin Waking
  BY DEF Goes, Advance, Joining, Waking
<1>9. \A y \in Thread : un'[y] # Null <=> (y # t /\ un[y] # Null) \/ (y = t /\ "op" \in Waking)
  BY <1>1, <1>8 DEF Stands, ProgsHold
<1>10. /\ \A y \in Thread : K2[y] = "parked" <=> K[y] = "parked"
       /\ \A y \in Thread : K2[y] # "unborn" => K[y] # "unborn" \/ (Born(y) /\ HasTarget(y))'
  BY <1>2, <1>4, <1>7 DEF Moved
<1>11. MainKept
  BY MainKeptIs
<1> QED
  BY <1>1, <1>6, <1>8, <1>9, <1>10, <1>11, RestStands DEF Stands, PlacesInv

-----------------------------------------------------------------------------
(* Joins.  One operation joins a thread, so those that wait for it are one. *)
LEMMA JoinerIs ==
  ASSUME MainHolds, NEW K, ProgsHold(K), NEW t \in Thread, NEW w \in Thread,
         Op(t)[1] = "join", Op(w)[1] = "join", Op(w)[2] = Op(t)[2]
  PROVE  w = t
<1>1. /\ ip[t] \in DOMAIN setup.prog[t] /\ Op(t) = setup.prog[t][ip[t]]
      /\ ip[w] \in DOMAIN setup.prog[w] /\ Op(w) = setup.prog[w][ip[w]]
  BY OpIs DEF MainHolds, ProgsHold
<1>2. JoinedOnce(setup)
  BY LthreadAssumption DEF MainHolds
<1> QED
  BY <1>1, <1>2 DEF JoinedOnce

LEMMA NotJoinedYet ==
  ASSUME MainHolds, NEW K, ProgsHold(K), NEW t \in Thread, Op(t)[1] = "join", NEW w \in Thread
  PROVE  ~ Joined(w, Op(t)[2])
<1>1. /\ ip[t] \in DOMAIN setup.prog[t] /\ Op(t) = setup.prog[t][ip[t]] /\ ip[t] \in Nat
  BY OpIs DEF MainHolds, ProgsHold
<1>2. SUFFICES ASSUME Joined(w, Op(t)[2]) PROVE FALSE
  OBVIOUS
<1>3. PICK i \in DOMAIN setup.prog[w] :
        i < ip[w] /\ setup.prog[w][i][1] = "join" /\ setup.prog[w][i][2] = Op(t)[2]
  BY <1>2 DEF Joined
<1>4. w = t /\ i = ip[t]
  BY <1>1, <1>3, LthreadAssumption DEF MainHolds, JoinedOnce
<1> QED
  BY <1>1, <1>3, <1>4

LEMMA TargetIs ==
  ASSUME MainHolds, NEW K, ProgsHold(K), NEW t \in Thread, Op(t)[1] = "join"
  PROVE  Op(t)[2] \in Thread
BY OpIs DEF MainHolds, ProgsHold, WellNamed

(* What a join or an exit does to pc. *)

(* Steps between the joins and exits that move no other thread than t. *)
LEMMA JoinSteps ==
  ASSUME MainHolds, NEW K, NEW K2, NEW A2, ProgsHold(K), MainKept, Placed(K2, A2)', JoinsHold(K2)',
         NEW t \in Thread, NEW p, pc' = [pc EXCEPT ![t] = p],
         UNCHANGED ip \/ ip' = [ip EXCEPT ![t] = @ + 1],
         pc[t] \notin Waking, p \notin Waking, UNCHANGED <<un, sched>>,
         \A x \in Thread : K2[x] # "unborn" => K[x] # "unborn"
  PROVE  PlacesInv'
<1>1. GoesOn
  BY StepGoesOn
<1>2. \A x \in Thread : un'[x] # Null <=> pc'[x] \in Waking
  BY DEF ProgsHold
<1>3. ProgsHold(K2)'
  BY <1>1, <1>2, ProgsKept
<1> QED
  BY <1>3, MainStands DEF PlacesInv, Stands

(* What one thread's joins and exits are like. *)
JoinHolds(K, u) ==
  \/ /\ join[u] = "INITIAL"
     /\ pc[u] \notin Ending /\ \A w \in Thread : ~Waits(w, u)
  \/ /\ join[u] = "THREAD_SET" /\ joiner[u] # Null
     /\ pc[u] \notin Ending /\ Waits(joiner[u], u) /\ K[joiner[u]] = "parked"
  \/ /\ join[u] = "EXITING" /\ pc[u] = "exitval"
     /\ K[u] = "parked" \/ \E w \in Thread : Waits(w, u)
  \/ /\ join[u] = "EXIT_VAL_SET" /\ joiner[u] # Null /\ Waits(joiner[u], u)
     /\ \/ pc[u] = "exitwake" /\ K[joiner[u]] = "parked"
        \/ pc[u] = "exitwait"
  \/ /\ join[u] = "EXIT_VAL_READ" /\ pc[u] = "exitwait"
     /\ \A w \in Thread : ~Waits(w, u)
     /\ \E w \in Thread : Joined(w, u)

JoinsAre(K) ==
  /\ joiner \in [Thread -> Thread \cup {Null}] /\ join = [t \in Thread |-> join[t]]
  /\ \A w \in Thread : pc[w] \in {"join", "joinwait"} => Op(w)[1] = "join" /\ joiner[Op(w)[2]] = w
  /\ \A t \in Thread : K[t] = "parked" => pc[t] \in {"joinwait", "exitval"}

LEMMA JoinsSplit ==
  \A K : /\ JoinsHold(K) <=> JoinsAre(K) /\ \A u \in Thread : JoinHolds(K, u)
         /\ JoinsHold(K)' <=> JoinsAre(K)' /\ \A u \in Thread : JoinHolds(K, u)'
BY DEF JoinsHold, JoinsAre, JoinHolds

-----------------------------------------------------------------------------
(* A join asks, and suspends itself if it comes first.                    *)

LEMMA Ops ==
  ASSUME MainHolds, NEW K, ProgsHold(K), UNCHANGED setup, NEW t \in Thread, NEW p,
         pc' = [pc EXCEPT ![t] = p], UNCHANGED ip \/ ip' = [ip EXCEPT ![t] = @ + 1]
  PROVE  /\ \A w \in Thread : w # t => pc'[w] = pc[w] /\ Op(w)' = Op(w)
         /\ \A w, u \in Thread : w # t => (Waits(w, u)' <=> Waits(w, u))
         /\ pc'[t] = p
         /\ UNCHANGED ip => Op(t)' = Op(t)
         /\ \A w, u \in Thread : Joined(w, u) => Joined(w, u)'
<1>1. \A w \in Thread : w # t => pc'[w] = pc[w] /\ ip'[w] = ip[w]
  BY DEF ProgsHold
<1>2. \A w \in Thread : w # t => Op(w)' = Op(w)
  BY <1>1 DEF Op
<1>3. pc'[t] = p
  BY DEF ProgsHold
<1>4. UNCHANGED ip => Op(t)' = Op(t)
  BY DEF Op
<1>5. ip' \in [Thread -> Nat \ {0}] /\ \A w \in Thread : ip'[w] >= ip[w]
  BY DEF ProgsHold
<1>6. \A w, u \in Thread : Joined(w, u) => Joined(w, u)'
  BY <1>5, JoinedStays DEF MainHolds, ProgsHold
<1> QED
  BY <1>1, <1>2, <1>3, <1>4, <1>6 DEF Waits

LEMMA OneWaits ==
  ASSUME MainHolds, NEW K, ProgsHold(K), JoinsHold(K), NEW t \in Thread, Op(t)[1] = "join",
         NEW w \in Thread, Waits(w, Op(t)[2])
  PROVE  w = t
BY JoinerIs DEF JoinsHold, Waits

-----------------------------------------------------------------------------
(* lthread_join sets lt_join, then join, and waits. *)
LEMMA AskingKeeps ==
  ASSUME PlacesInv, NEW c \in Lcore, NEW t \in Thread, Running(c, t), Unattended,
         pc[t] = "op", Op(t)[1] = "join", join[Op(t)[2]] # "THREAD_SET", Goto(t, "join"),
         joiner' = [joiner EXCEPT ![Op(t)[2]] = t],
         UNCHANGED <<setup, queue, timer, un, cur, sc, sched, state, pend, susp, next, cb, join>>
  PROVE  PlacesInv'
<1>1. PICK K, A : Stands(K, A)
  BY DEF PlacesInv
<1>2. MainHolds /\ Placed(K, A) /\ JoinsHold(K) /\ ProgsHold(K)
  BY <1>1 DEF PlacesInv, Stands
<1>u. PICK u \in Thread : u = Op(t)[2]
  BY <1>2, TargetIs
<1>3. \A w \in Thread : ~ Waits(w, u)
  BY <1>2, <1>u, OneWaits DEF Waits
<1>v. joiner' = [joiner EXCEPT ![u] = t] /\ join[u] # "THREAD_SET" /\ join' = join
  BY <1>u
<1>4. pc' = [pc EXCEPT ![t] = "join"] /\ UNCHANGED ip
  BY DEF Goto
<1>5. /\ \A w \in Thread : w # t => pc'[w] = pc[w] /\ Op(w)' = Op(w)
      /\ \A w, v \in Thread : w # t => (Waits(w, v)' <=> Waits(w, v))
      /\ pc'[t] = "join" /\ Op(t)' = Op(t)
      /\ \A w, v \in Thread : Joined(w, v) => Joined(w, v)'
  BY <1>2, <1>4, Ops
<1>6. \A w, v \in Thread : Waits(w, v)' <=> Waits(w, v)
  BY <1>5 DEF Waits
<1>7. joiner'[u] = t /\ \A v \in Thread : v # u => joiner'[v] = joiner[v]
  BY <1>2, <1>v DEF JoinsHold
<1>8. \A w \in Thread : w # t /\ Op(w)[1] = "join" => Op(w)[2] # u
  BY <1>2, <1>u, JoinerIs
<1>9. \A w \in Thread : Op(w)[1] = "join" => Op(w)[2] \in Thread
  BY <1>2, TargetIs
<1>a. JoinsAre(K) /\ \A v \in Thread : JoinHolds(K, v)
  BY <1>2, JoinsSplit
<1>10. JoinsAre(K)'
  <2>1. joiner' \in [Thread -> Thread \cup {Null}] /\ join' = [v \in Thread |-> join'[v]]
    <3>1. joiner \in [Thread -> Thread \cup {Null}] /\ join = [v \in Thread |-> join[v]]
      BY <1>a DEF JoinsAre
    <3>2. joiner' \in [Thread -> Thread \cup {Null}]
      BY <3>1, <1>v
    <3> QED
      BY <3>1, <3>2, <1>v
  <2>2. \A w \in Thread : pc'[w] \in {"join", "joinwait"} => Op(w)'[1] = "join" /\ joiner'[Op(w)'[2]] = w
    BY <1>a, <1>5, <1>7, <1>8, <1>9, <1>u DEF JoinsAre
  <2>3. \A v \in Thread : K[v] = "parked" => pc'[v] \in {"joinwait", "exitval"}
    BY <1>a, <1>5 DEF JoinsAre
  <2> QED
    BY <2>1, <2>2, <2>3 DEF JoinsAre
<1>11. ASSUME NEW v \in Thread PROVE JoinHolds(K, v)'
  <2>1. (pc'[v] \in Ending <=> pc[v] \in Ending) /\ (pc[v] \in Ending => pc'[v] = pc[v])
    BY <1>5 DEF Ending
  <2>2. joiner[v] # Null => joiner[v] \in Thread
    BY <1>a DEF JoinsAre
  <2> HIDE DEF Waits, Joined
  <2>3. CASE v = u
    <3>1. JoinHolds(K, u) /\ ~ (joiner[u] # Null /\ Waits(joiner[u], u))
      BY <1>a, <1>3, <2>2, <2>3
    <3> QED
      BY <1>5, <1>6, <1>v, <2>1, <2>3, <3>1 DEF JoinHolds, Ending
  <2>4. CASE v # u
    <3>1. JoinHolds(K, v) /\ joiner'[v] = joiner[v]
      BY <1>a, <1>7, <2>4
    <3> QED
      BY <1>5, <1>6, <1>v, <2>1, <2>2, <3>1 DEF JoinHolds, Ending
  <2> QED
    BY <2>3, <2>4
<1>12. JoinsHold(K)'
  BY <1>10, <1>11, JoinsSplit
<1>13. Placed(K, A)'
  BY <1>2, Unmoved, Unmarked
<1>14. MainKept
  BY MainKeptIs
<1> QED
  BY <1>2, <1>4, <1>12, <1>13, <1>14, JoinSteps DEF Waking

LEMMA JoinFirstKeeps ==
  ASSUME PlacesInv, NEW c \in Lcore, NEW t \in Thread, JoinFirst(c, t), Unattended
  PROVE  PlacesInv'
<1>1. PICK K, A : Stands(K, A)
  BY DEF PlacesInv
<1>2. MainHolds /\ Placed(K, A) /\ JoinsHold(K) /\ ProgsHold(K)
  BY <1>1 DEF PlacesInv, Stands
<1>x. PICK u : u = Op(t)[2]
  OBVIOUS
<1>0. /\ Running(c, t) /\ pc[t] = "join" /\ join[u] = "INITIAL"
      /\ join' = [join EXCEPT ![u] = "THREAD_SET"] /\ pc' = [pc EXCEPT ![t] = "joinwait"]
      /\ sc' = [sc EXCEPT ![c] = "back"] /\ susp' = [susp EXCEPT ![t] = TRUE]
      /\ UNCHANGED <<setup, cur, next, cb, queue, state, sched, pend, joiner, timer, un, ip>>
  BY <1>x DEF JoinFirst, At, Running, Suspend, Goto, Same
<1>o. Op(t)[1] = "join" /\ joiner[u] = t /\ K[t] = "on"
  BY <1>0, <1>2, <1>x, OnIs DEF JoinsHold, Running
<1>3. u \in Thread /\ (\A w \in Thread : Waits(w, u) => w = t)
  BY <1>o, <1>2, <1>x, TargetIs, OneWaits
<1>4. PICK K2, A2 : Moved(K, A, K2, A2, t, "parked", 0)
  BY <1>2, MoveThere, Spots DEF Placed, Kind
<1>p. Placed(K2, A2)'
  BY <1>0, <1>2, <1>4, Parks DEF Running
<1>m. K2[t] = "parked" /\ \A x \in Thread : x # t => K2[x] = K[x]
  BY <1>4 DEF Moved
<1>5. /\ \A w \in Thread : w # t => pc'[w] = pc[w] /\ Op(w)' = Op(w)
      /\ \A w, v \in Thread : w # t => (Waits(w, v)' <=> Waits(w, v))
      /\ pc'[t] = "joinwait" /\ Op(t)' = Op(t)
      /\ \A w, v \in Thread : Joined(w, v) => Joined(w, v)'
  BY <1>0, <1>2, Ops
<1>6. Waits(t, u)' /\ \A v \in Thread : ~Waits(t, v) /\ (v # u => ~Waits(t, v)')
  BY <1>0, <1>5, <1>x DEF Waits
<1>7. join'[u] = "THREAD_SET" /\ \A v \in Thread : v # u => join'[v] = join[v]
  BY <1>0, <1>2, <1>3 DEF JoinsHold
<1>a. JoinsAre(K) /\ \A v \in Thread : JoinHolds(K, v)
  BY <1>2, JoinsSplit
<1>10. JoinsAre(K2)'
  <2>1. joiner' \in [Thread -> Thread \cup {Null}] /\ join' = [v \in Thread |-> join'[v]]
    BY <1>0, <1>a DEF JoinsAre
  <2>2. \A w \in Thread : pc'[w] \in {"join", "joinwait"} => Op(w)'[1] = "join" /\ joiner'[Op(w)'[2]] = w
    BY <1>0, <1>a, <1>5, <1>o, <1>x DEF JoinsAre
  <2>3. \A v \in Thread : K2[v] = "parked" => pc'[v] \in {"joinwait", "exitval"}
    BY <1>a, <1>5, <1>m DEF JoinsAre
  <2> QED
    BY <2>1, <2>2, <2>3 DEF JoinsAre
<1>11. ASSUME NEW v \in Thread PROVE JoinHolds(K2, v)'
  <2>1. (pc'[v] \in Ending <=> pc[v] \in Ending) /\ (pc[v] \in Ending => pc'[v] = pc[v])
    BY <1>0, <1>5 DEF Ending
  <2>2. (joiner[v] # Null => joiner[v] \in Thread) /\ joiner'[v] = joiner[v]
    BY <1>0, <1>a DEF JoinsAre
  <2> HIDE DEF Waits, Joined
  <2>3. CASE v = u
    <3>1. pc[u] \notin Ending
      BY <1>0, <1>a, <2>3 DEF JoinHolds
    <3>2. joiner'[u] = t /\ t # Null
      BY <1>o, <2>2, <2>3, Numbers
    <3>3. Waits(joiner[u], u)'
      BY <1>6, <3>2 DEF Waits, Op
    <3>4. join'[u] = "THREAD_SET" /\ joiner'[u] # Null /\ pc'[u] \notin Ending /\ K2[joiner'[u]] = "parked"
      BY <1>7, <1>m, <2>1, <2>3, <3>1, <3>2
    <3> QED
      BY <2>3, <3>3, <3>4 DEF JoinHolds
  <2>4. CASE v # u
    <3>1. JoinHolds(K, v) /\ join'[v] = join[v]
      BY <1>a, <1>7, <2>4
    <3>2. \A w \in Thread : Waits(w, v)' <=> Waits(w, v)
      BY <1>5, <1>6, <2>4
    <3>3. \A x \in Thread : K[x] = "parked" => K2[x] = "parked"
      BY <1>m
    <3> QED
      BY <1>5, <2>1, <2>2, <3>1, <3>2, <3>3 DEF JoinHolds, Ending
  <2> QED
    BY <2>3, <2>4
<1>12. JoinsHold(K2)'
  BY <1>10, <1>11, JoinsSplit
<1>14. MainKept
  BY <1>0, MainKeptIs
<1>15. /\ pc' = [pc EXCEPT ![t] = "joinwait"] /\ UNCHANGED ip /\ pc[t] \notin Waking
       /\ "joinwait" \notin Waking /\ UNCHANGED <<un, sched>>
       /\ \A x \in Thread : K2[x] # "unborn" => K[x] # "unborn"
  BY <1>0, <1>o, <1>m DEF Waking
<1> QED
  BY <1>2, <1>12, <1>p, <1>14, <1>15, JoinSteps

-----------------------------------------------------------------------------
(* A join that comes second, and the collecting of the value.             *)

(* A suspended thread is made ready. *)
LEMMA Awoken ==
  ASSUME NEW K, NEW A, Placed(K, A), NEW x \in Thread, K[x] = "parked", NEW c, NEW d, d = sched[x],
         ReadyInsert(c, d, x),
         UNCHANGED <<timer, un, cur, sc, sched, pend, susp, state, next, cb>>
  PROVE  \E K2, A2 : Placed(K2, A2)' /\ \E a : Moved(K, A, K2, A2, x, "queue", a)
<1>1. sched[x] \in Lcore
  BY Numbers DEF Placed, SchedsHold
<1>2. PICK q \in {Ready(sched[x]), PReady(sched[x])} : queue' = [queue EXCEPT ![q] = Append(@, x)]
  BY DEF ReadyInsert, InsertMp
<1>3. PICK K2, A2 : Moved(K, A, K2, A2, x, "queue", q)
  BY <1>1, <1>2, MoveThere, Spots, QueueNames DEF Placed, Kind
<1>4. Placed(K2, A2)'
  BY <1>2, <1>3, Wakes
<1> QED
  BY <1>3, <1>4

LEMMA JoinSecondKeeps ==
  ASSUME PlacesInv, NEW c \in Lcore, NEW t \in Thread, JoinSecond(c, t), Unattended
  PROVE  PlacesInv'
<1>1. PICK K, A : Stands(K, A)
  BY DEF PlacesInv
<1>2. MainHolds /\ Placed(K, A) /\ JoinsHold(K) /\ ProgsHold(K)
  BY <1>1 DEF PlacesInv, Stands
<1>x. PICK u : u = Op(t)[2]
  OBVIOUS
<1>0. /\ Running(c, t) /\ pc[t] = "join" /\ join[u] # "INITIAL"
      /\ ReadyInsert(c, sched[u], u) /\ pc' = [pc EXCEPT ![t] = "joinwait"]
      /\ UNCHANGED <<setup, cur, sc, next, cb, susp, state, sched, pend, join, joiner, timer, un, ip>>
  BY <1>x DEF JoinSecond, At, Running, Stay, Goto, Same, joinVars
<1>o. Op(t)[1] = "join" /\ joiner[u] = t /\ K[t] = "on"
  BY <1>0, <1>2, <1>x, OnIs DEF JoinsHold, Running
<1>3. u \in Thread /\ (\A w \in Thread : ~ Waits(w, u) /\ ~ Joined(w, u))
  BY <1>0, <1>o, <1>2, <1>x, TargetIs, OneWaits, NotJoinedYet DEF Waits
<1>a. JoinsAre(K) /\ \A v \in Thread : JoinHolds(K, v)
  BY <1>2, JoinsSplit
<1>e. join[u] = "EXITING" /\ pc[u] = "exitval" /\ K[u] = "parked"
  <2>1. joiner[u] # Null => joiner[u] \in Thread
    BY <1>3, <1>a DEF JoinsAre
  <2> QED
    BY <1>0, <1>3, <1>a, <2>1 DEF JoinHolds
<1>4. PICK K2, A2 : Placed(K2, A2)' /\ \E a : Moved(K, A, K2, A2, u, "queue", a)
  BY <1>0, <1>2, <1>3, <1>e, Awoken
<1>m. K2[u] = "queue" /\ \A x \in Thread : x # u => K2[x] = K[x]
  BY <1>4 DEF Moved
<1>5. /\ \A w \in Thread : w # t => pc'[w] = pc[w] /\ Op(w)' = Op(w)
      /\ \A w, v \in Thread : w # t => (Waits(w, v)' <=> Waits(w, v))
      /\ pc'[t] = "joinwait" /\ Op(t)' = Op(t)
      /\ \A w, v \in Thread : Joined(w, v) => Joined(w, v)'
  BY <1>0, <1>2, Ops
<1>6. Waits(t, u)' /\ \A v \in Thread : ~Waits(t, v) /\ (v # u => ~Waits(t, v)')
  BY <1>0, <1>5, <1>x DEF Waits
<1>10. JoinsAre(K2)'
  <2>1. joiner' \in [Thread -> Thread \cup {Null}] /\ join' = [v \in Thread |-> join'[v]]
    BY <1>0, <1>a DEF JoinsAre
  <2>2. \A w \in Thread : pc'[w] \in {"join", "joinwait"} => Op(w)'[1] = "join" /\ joiner'[Op(w)'[2]] = w
    BY <1>0, <1>a, <1>5, <1>o, <1>x DEF JoinsAre
  <2>3. \A v \in Thread : K2[v] = "parked" => pc'[v] \in {"joinwait", "exitval"}
    BY <1>a, <1>5, <1>m DEF JoinsAre
  <2> QED
    BY <2>1, <2>2, <2>3 DEF JoinsAre
<1>11. ASSUME NEW v \in Thread PROVE JoinHolds(K2, v)'
  <2>1. (pc'[v] \in Ending <=> pc[v] \in Ending) /\ (pc[v] \in Ending => pc'[v] = pc[v])
    BY <1>0, <1>5 DEF Ending
  <2>2. (joiner[v] # Null => joiner[v] \in Thread) /\ joiner'[v] = joiner[v] /\ join'[v] = join[v]
    BY <1>0, <1>a DEF JoinsAre
  <2> HIDE DEF Waits, Joined
  <2>3. CASE v = u
    BY <1>3, <1>e, <1>6, <2>1, <2>2, <2>3 DEF JoinHolds, Ending
  <2>4. CASE v # u
    <3>1. JoinHolds(K, v)
      BY <1>a
    <3>2. \A w \in Thread : Waits(w, v)' <=> Waits(w, v)
      BY <1>5, <1>6, <2>4
    <3>3. \A w \in Thread : Waits(w, v) => w # u
      BY <1>e DEF Waits
    <3>4. \A w \in Thread : w # u => K2[w] = K[w]
      BY <1>m
    <3> QED
      BY <1>5, <2>1, <2>2, <2>4, <3>1, <3>2, <3>3, <3>4 DEF JoinHolds, Ending
  <2> QED
    BY <2>3, <2>4
<1>12. JoinsHold(K2)'
  BY <1>10, <1>11, JoinsSplit
<1>14. MainKept
  BY <1>0, MainKeptIs
<1>15. /\ pc' = [pc EXCEPT ![t] = "joinwait"] /\ UNCHANGED ip /\ pc[t] \notin Waking
       /\ "joinwait" \notin Waking /\ UNCHANGED <<un, sched>>
       /\ \A x \in Thread : K2[x] # "unborn" => K[x] # "unborn"
  BY <1>0, <1>e, <1>m DEF Waking
<1> QED
  BY <1>2, <1>4, <1>12, <1>14, <1>15, JoinSteps

LEMMA JoinCollectsKeeps ==
  ASSUME PlacesInv, NEW c \in Lcore, NEW t \in Thread, JoinCollects(c, t), Unattended
  PROVE  PlacesInv'
<1>1. PICK K, A : Stands(K, A)
  BY DEF PlacesInv
<1>2. MainHolds /\ Placed(K, A) /\ JoinsHold(K) /\ ProgsHold(K)
  BY <1>1 DEF PlacesInv, Stands
<1>x. PICK u : u = Op(t)[2]
  OBVIOUS
<1>0. /\ Running(c, t) /\ pc[t] = "joinwait" /\ join[u] = "EXIT_VAL_SET"
      /\ join' = [join EXCEPT ![u] = "EXIT_VAL_READ"]
      /\ pc' = [pc EXCEPT ![t] = "op"] /\ ip' = [ip EXCEPT ![t] = @ + 1]
      /\ UNCHANGED <<setup, cur, sc, next, cb, susp, state, queue, sched, pend, joiner, timer, un>>
  BY <1>x DEF JoinCollects, At, Running, Stay, Advance, Same
<1>o. Op(t)[1] = "join" /\ joiner[u] = t /\ K[t] = "on"
  BY <1>0, <1>2, <1>x, OnIs DEF JoinsHold, Running
<1>3. u \in Thread /\ Waits(t, u) /\ (\A w \in Thread : Waits(w, u) => w = t)
  BY <1>0, <1>o, <1>2, <1>x, TargetIs, OneWaits DEF Waits
<1>a. JoinsAre(K) /\ \A v \in Thread : JoinHolds(K, v)
  BY <1>2, JoinsSplit
<1>e. pc[u] = "exitwait" /\ u # t
  BY <1>0, <1>3, <1>o, <1>a DEF JoinHolds
<1>5. /\ \A w \in Thread : w # t => pc'[w] = pc[w] /\ Op(w)' = Op(w)
      /\ \A w, v \in Thread : w # t => (Waits(w, v)' <=> Waits(w, v))
      /\ pc'[t] = "op"
      /\ \A w, v \in Thread : Joined(w, v) => Joined(w, v)'
  BY <1>0, <1>2, Ops
<1>6. \A v \in Thread : ~Waits(t, v)' /\ (Waits(t, v) => v = u)
  BY <1>5, <1>x DEF Waits
<1>7. join'[u] = "EXIT_VAL_READ" /\ \A v \in Thread : v # u => join'[v] = join[v]
  BY <1>0, <1>2, <1>3 DEF JoinsHold
<1>j. Joined(t, u)'
  <2>1. ip[t] \in DOMAIN setup.prog[t] /\ Op(t) = setup.prog[t][ip[t]] /\ ip[t] \in Nat \ {0}
    BY <1>o, <1>2, OpIs DEF MainHolds, ProgsHold
  <2>2. ip'[t] = ip[t] + 1 /\ setup' = setup
    BY <1>0, <1>2 DEF ProgsHold
  <2> QED
    BY <2>1, <2>2, <1>o, <1>x DEF Joined
<1>10. JoinsAre(K)'
  <2>1. joiner' \in [Thread -> Thread \cup {Null}] /\ join' = [v \in Thread |-> join'[v]]
    BY <1>0, <1>a DEF JoinsAre
  <2>2. \A w \in Thread : pc'[w] \in {"join", "joinwait"} => Op(w)'[1] = "join" /\ joiner'[Op(w)'[2]] = w
    BY <1>0, <1>a, <1>5 DEF JoinsAre
  <2>3. \A v \in Thread : K[v] = "parked" => pc'[v] \in {"joinwait", "exitval"}
    BY <1>a, <1>5, <1>o DEF JoinsAre
  <2> QED
    BY <2>1, <2>2, <2>3 DEF JoinsAre
<1>11. ASSUME NEW v \in Thread PROVE JoinHolds(K, v)'
  <2>1. (pc'[v] \in Ending <=> pc[v] \in Ending) /\ (pc[v] \in Ending => pc'[v] = pc[v])
    BY <1>0, <1>5 DEF Ending
  <2>2. (joiner[v] # Null => joiner[v] \in Thread) /\ joiner'[v] = joiner[v]
    BY <1>0, <1>a DEF JoinsAre
  <2> HIDE DEF Waits, Joined
  <2>3. CASE v = u
    <3>1. \A w \in Thread : ~ Waits(w, u)'
      BY <1>3, <1>5, <1>6
    <3> QED
      BY <1>e, <1>7, <1>j, <2>1, <2>3, <3>1 DEF JoinHolds, Ending
  <2>4. CASE v # u
    <3>1. JoinHolds(K, v) /\ join'[v] = join[v]
      BY <1>a, <1>7, <2>4
    <3>2. \A w \in Thread : Waits(w, v)' <=> Waits(w, v)
      BY <1>5, <1>6, <2>4
    <3> QED
      BY <1>5, <2>1, <2>2, <3>1, <3>2 DEF JoinHolds, Ending
  <2> QED
    BY <2>3, <2>4
<1>12. JoinsHold(K)'
  BY <1>10, <1>11, JoinsSplit
<1>13. Placed(K, A)'
  BY <1>0, <1>2, Unmoved, Unmarked
<1>14. MainKept
  BY <1>0, MainKeptIs
<1>15. /\ pc' = [pc EXCEPT ![t] = "op"] /\ ip' = [ip EXCEPT ![t] = @ + 1] /\ pc[t] \notin Waking
       /\ "op" \notin Waking /\ UNCHANGED <<un, sched>>
  BY <1>0 DEF Waking
<1> QED
  BY <1>2, <1>12, <1>13, <1>14, <1>15, JoinSteps

-----------------------------------------------------------------------------
(* The steps of lthread_exit.                                             *)

(* A step of lthread_exit disturbs no other thread's join but that of the  *)
(* thread that waits for this one. *)
LEMMA ExitSteps ==
  ASSUME MainHolds, MainKept, NEW K, NEW A, Stands(K, A), NEW K2, NEW A2, Placed(K2, A2)',
         NEW t \in Thread, K[t] = "on", NEW p, pc' = [pc EXCEPT ![t] = p],
         UNCHANGED ip \/ ip' = [ip EXCEPT ![t] = @ + 1],
         pc[t] \notin {"join", "joinwait"} \cup Waking, p \notin {"join", "joinwait"} \cup Waking,
         join' = [v \in Thread |-> join'[v]], \A v \in Thread : v # t => join'[v] = join[v],
         UNCHANGED <<joiner, un, sched>>,
         \A x \in Thread : K2[x] = "parked" => K[x] = "parked" \/ (x = t /\ p = "exitval"),
         \A x \in Thread : K[x] = "parked" => K2[x] = "parked" \/ Waits(x, t),
         \A x \in Thread : K2[x] # "unborn" => K[x] # "unborn",
         JoinHolds(K2, t)'
  PROVE  PlacesInv'
<1>2. Placed(K, A) /\ JoinsHold(K) /\ ProgsHold(K)
  BY DEF Stands
<1>5. /\ \A w \in Thread : w # t => pc'[w] = pc[w] /\ Op(w)' = Op(w)
      /\ \A w, v \in Thread : w # t => (Waits(w, v)' <=> Waits(w, v))
      /\ pc'[t] = p
      /\ \A w, v \in Thread : Joined(w, v) => Joined(w, v)'
  BY <1>2, Ops DEF MainKept
<1>6. \A v \in Thread : ~Waits(t, v) /\ ~Waits(t, v)'
  BY <1>5 DEF Waits
<1>a. JoinsAre(K) /\ \A v \in Thread : JoinHolds(K, v)
  BY <1>2, JoinsSplit
<1>10. JoinsAre(K2)'
  <2>1. joiner' \in [Thread -> Thread \cup {Null}]
    BY <1>a DEF JoinsAre
  <2>2. \A w \in Thread : pc'[w] \in {"join", "joinwait"} => Op(w)'[1] = "join" /\ joiner'[Op(w)'[2]] = w
    BY <1>a, <1>5 DEF JoinsAre
  <2>3. \A v \in Thread : K2[v] = "parked" => pc'[v] \in {"joinwait", "exitval"}
    BY <1>a, <1>5 DEF JoinsAre
  <2> QED
    BY <2>1, <2>2, <2>3 DEF JoinsAre
<1>11. ASSUME NEW v \in Thread PROVE JoinHolds(K2, v)'
  <2>2. (joiner[v] # Null => joiner[v] \in Thread) /\ joiner'[v] = joiner[v]
    BY <1>a DEF JoinsAre
  <2>4. CASE v # t
    <3>1. JoinHolds(K, v) /\ join'[v] = join[v] /\ pc'[v] = pc[v]
      BY <1>a, <1>5, <2>4
    <3>2. \A w \in Thread : Waits(w, v)' <=> Waits(w, v)
      BY <1>5, <1>6
    <3>3. \A w \in Thread : Waits(w, v) => ~ Waits(w, t)
      BY <2>4 DEF Waits
    <3>4. pc[v] = "exitval" => ~ Waits(v, t)
      BY DEF Waits
    <3> HIDE DEF Waits, Joined
    <3> QED
      BY <1>5, <2>2, <3>1, <3>2, <3>3, <3>4 DEF JoinHolds
  <2> QED
    BY <2>4
<1>12. JoinsHold(K2)'
  BY <1>10, <1>11, JoinsSplit
<1> QED
  BY <1>2, <1>12, JoinSteps

LEMMA ExitFirstKeeps ==
  ASSUME PlacesInv, NEW c \in Lcore, NEW t \in Thread, ExitFirst(c, t), Unattended
  PROVE  PlacesInv'
<1>1. PICK K, A : Stands(K, A)
  BY DEF PlacesInv
<1>0. /\ Running(c, t) /\ pc[t] = "exit" /\ pc' = [pc EXCEPT ![t] = "exitval"] /\ UNCHANGED ip
      /\ join' = [join EXCEPT ![t] = "EXITING"]
      /\ sc' = [sc EXCEPT ![c] = "back"] /\ susp' = [susp EXCEPT ![t] = TRUE]
      /\ UNCHANGED <<setup, cur, next, cb, queue, state, sched, pend, joiner, timer, un>>
  BY DEF ExitFirst, At, Running, Suspend, Goto, Same
<1>2. MainHolds /\ MainKept /\ K[t] = "on"
  <2>1. MainKept
    BY <1>0, MainKeptIs
  <2> QED
    BY <1>0, <1>1, <2>1, OnIs DEF PlacesInv, Stands, Running
<1>3. PICK K2, A2 : Moved(K, A, K2, A2, t, "parked", 0)
  BY <1>1, MoveThere, Spots DEF Stands, Placed, Kind
<1>4. Placed(K2, A2)'
  BY <1>0, <1>1, <1>3, Parks DEF Stands, Running
<1>m. K2[t] = "parked" /\ \A x \in Thread : x # t => K2[x] = K[x]
  BY <1>3 DEF Moved
<1>5. /\ join' = [v \in Thread |-> join'[v]] /\ join'[t] = "EXITING"
      /\ \A v \in Thread : v # t => join'[v] = join[v]
      /\ pc'[t] = "exitval"
  BY <1>0, <1>1 DEF Stands, JoinsHold, ProgsHold
<1>6. JoinHolds(K2, t)'
  BY <1>m, <1>5 DEF JoinHolds
<1>7. /\ \A x \in Thread : K2[x] = "parked" => K[x] = "parked" \/ x = t
      /\ \A x \in Thread : K[x] = "parked" => K2[x] = "parked"
      /\ \A x \in Thread : K2[x] # "unborn" => K[x] # "unborn"
      /\ "exit" \notin {"join", "joinwait"} \cup Waking /\ "exitval" \notin {"join", "joinwait"} \cup Waking
  BY <1>2, <1>m DEF Waking
<1> QED
  BY <1>0, <1>1, <1>2, <1>4, <1>5, <1>6, <1>7, ExitSteps

LEMMA ExitResumedKeeps ==
  ASSUME PlacesInv, NEW c \in Lcore, NEW t \in Thread, ExitResumed(c, t), Unattended
  PROVE  PlacesInv'
<1>1. PICK K, A : Stands(K, A)
  BY DEF PlacesInv
<1>0. /\ Running(c, t) /\ pc[t] = "exitval" /\ pc' = [pc EXCEPT ![t] = "exitwait"] /\ UNCHANGED ip
      /\ join' = [join EXCEPT ![t] = "EXIT_VAL_SET"]
      /\ UNCHANGED <<setup, cur, sc, next, cb, susp, queue, state, sched, pend, joiner, timer, un>>
  BY DEF ExitResumed, At, Running, SetValue, Stay, Goto, Same
<1>2. MainHolds /\ MainKept /\ K[t] = "on"
  BY <1>0, <1>1, MainKeptIs, OnIs DEF PlacesInv, Stands, Running
<1>4. Placed(K, A)'
  BY <1>0, <1>1, Unmoved, Unmarked DEF Stands
<1>5. /\ join' = [v \in Thread |-> join'[v]] /\ join'[t] = "EXIT_VAL_SET"
      /\ \A v \in Thread : v # t => join'[v] = join[v]
      /\ pc'[t] = "exitwait"
  BY <1>0, <1>1 DEF Stands, JoinsHold, ProgsHold
<1>w. PICK w \in Thread : Waits(w, t)
  <2>1. JoinHolds(K, t)
    BY <1>1, JoinsSplit DEF Stands
  <2> QED
    BY <1>0, <1>2, <2>1 DEF JoinHolds, Ending
<1>j. joiner'[t] = w /\ w # Null /\ Waits(w, t)'
  <2>1. w # t /\ joiner[t] = w
    BY <1>0, <1>1, <1>w DEF Waits, Stands, JoinsHold
  <2>2. Waits(w, t)'
    BY <1>0, <1>1, <1>2, <1>w, <2>1, Ops DEF Stands
  <2> QED
    BY <1>0, <2>1, <2>2, Numbers
<1>6. JoinHolds(K, t)'
  <2>1. Waits(joiner[t], t)'
    BY <1>j DEF Waits, Op
  <2> QED
    BY <1>5, <1>j, <2>1 DEF JoinHolds
<1> QED
  BY <1>0, <1>1, <1>2, <1>4, <1>5, <1>6, ExitSteps DEF Waking

LEMMA ExitSecondKeeps ==
  ASSUME PlacesInv, NEW c \in Lcore, NEW t \in Thread, ExitSecond(c, t), Unattended
  PROVE  PlacesInv'
<1>1. PICK K, A : Stands(K, A)
  BY DEF PlacesInv
<1>0. /\ Running(c, t) /\ pc[t] = "exit" /\ pc' = [pc EXCEPT ![t] = "exitwake"] /\ UNCHANGED ip
      /\ join[t] # "INITIAL" /\ join' = [join EXCEPT ![t] = "EXIT_VAL_SET"]
      /\ UNCHANGED <<setup, cur, sc, next, cb, susp, queue, state, sched, pend, joiner, timer, un>>
  BY DEF ExitSecond, At, Running, SetValue, Stay, Goto, Same
<1>2. MainHolds /\ MainKept /\ K[t] = "on"
  BY <1>0, <1>1, MainKeptIs, OnIs DEF PlacesInv, Stands, Running
<1>4. Placed(K, A)'
  BY <1>0, <1>1, Unmoved, Unmarked DEF Stands
<1>5. /\ join' = [v \in Thread |-> join'[v]] /\ join'[t] = "EXIT_VAL_SET"
      /\ \A v \in Thread : v # t => join'[v] = join[v]
      /\ pc'[t] = "exitwake"
  BY <1>0, <1>1 DEF Stands, JoinsHold, ProgsHold
<1>w. PICK w \in Thread : w = joiner[t] /\ Waits(w, t) /\ K[w] = "parked"
  <2>1. JoinHolds(K, t) /\ (joiner[t] # Null => joiner[t] \in Thread)
    BY <1>1, JoinsSplit DEF Stands, JoinsHold
  <2> QED
    BY <1>0, <1>2, <2>1 DEF JoinHolds, Ending
<1>j. joiner'[t] = w /\ w # Null /\ Waits(w, t)'
  <2>1. w # t
    BY <1>2, <1>w
  <2>2. Waits(w, t)'
    BY <1>0, <1>1, <1>2, <1>w, <2>1, Ops DEF Stands
  <2> QED
    BY <1>0, <1>w, <2>2, Numbers
<1>6. JoinHolds(K, t)'
  <2>1. Waits(joiner[t], t)'
    BY <1>j DEF Waits, Op
  <2> QED
    BY <1>5, <1>j, <1>w, <2>1 DEF JoinHolds
<1> QED
  BY <1>0, <1>1, <1>2, <1>4, <1>5, <1>6, ExitSteps DEF Waking

LEMMA ExitWakesKeeps ==
  ASSUME PlacesInv, NEW c \in Lcore, NEW t \in Thread, ExitWakes(c, t), Unattended
  PROVE  PlacesInv'
<1>1. PICK K, A : Stands(K, A)
  BY DEF PlacesInv
<1>0. /\ Running(c, t) /\ pc[t] = "exitwake" /\ pc' = [pc EXCEPT ![t] = "exitwait"] /\ UNCHANGED ip
      /\ ReadyInsert(c, sched[joiner[t]], joiner[t])
      /\ UNCHANGED <<setup, cur, sc, next, cb, susp, state, sched, pend, join, joiner, timer, un>>
  BY DEF ExitWakes, At, Running, Stay, Goto, Same, joinVars
<1>2. MainHolds /\ MainKept /\ K[t] = "on"
  BY <1>0, <1>1, MainKeptIs, OnIs DEF PlacesInv, Stands, Running
<1>w. PICK w \in Thread : w = joiner[t] /\ Waits(w, t) /\ K[w] = "parked" /\ join[t] = "EXIT_VAL_SET"
  <2>1. JoinHolds(K, t) /\ (joiner[t] # Null => joiner[t] \in Thread)
    BY <1>1, JoinsSplit DEF Stands, JoinsHold
  <2> QED
    BY <1>0, <1>2, <2>1 DEF JoinHolds, Ending
<1>3. PICK K2, A2 : Placed(K2, A2)' /\ \E a : Moved(K, A, K2, A2, w, "queue", a)
  BY <1>0, <1>1, <1>w, Awoken DEF Stands
<1>m. K2[w] = "queue" /\ \A x \in Thread : x # w => K2[x] = K[x]
  BY <1>3 DEF Moved
<1>5. /\ join' = [v \in Thread |-> join'[v]] /\ join'[t] = "EXIT_VAL_SET"
      /\ \A v \in Thread : v # t => join'[v] = join[v]
      /\ pc'[t] = "exitwait"
  BY <1>0, <1>1, <1>w DEF Stands, JoinsHold, ProgsHold
<1>j. joiner'[t] = w /\ w # Null /\ Waits(w, t)'
  <2>1. w # t
    BY <1>2, <1>w
  <2>2. Waits(w, t)'
    BY <1>0, <1>1, <1>2, <1>w, <2>1, Ops DEF Stands
  <2> QED
    BY <1>0, <1>w, <2>2, Numbers
<1>6. JoinHolds(K2, t)'
  <2>1. Waits(joiner[t], t)'
    BY <1>j DEF Waits, Op
  <2> QED
    BY <1>5, <1>j, <1>w, <2>1 DEF JoinHolds
<1>7. /\ \A x \in Thread : K2[x] = "parked" => K[x] = "parked"
      /\ \A x \in Thread : K[x] = "parked" => K2[x] = "parked" \/ Waits(x, t)
      /\ \A x \in Thread : K2[x] # "unborn" => K[x] # "unborn"
  BY <1>m, <1>w
<1> QED
  BY <1>0, <1>1, <1>2, <1>3, <1>5, <1>6, <1>7, ExitSteps DEF Waking

LEMMA ExitCollectedKeeps ==
  ASSUME PlacesInv, NEW c \in Lcore, NEW t \in Thread, ExitCollected(c, t), Unattended
  PROVE  PlacesInv'
<1>1. PICK K, A : Stands(K, A)
  BY DEF PlacesInv
<1>0. /\ Running(c, t) /\ pc[t] = "exitwait" /\ join[t] = "EXIT_VAL_READ"
      /\ join' = [join EXCEPT ![t] = "INITIAL"]
      /\ state' = [state EXCEPT ![t] = @ \cup {"DETACH", "EXITED"}]
      /\ UNCHANGED <<setup, cur, sc, next, cb, susp, queue, sched, pend, joiner, timer, un>>
  BY DEF ExitCollected, At, Running, Stay, Same
<1>p. PICK p \in {"op", "leave"} : pc' = [pc EXCEPT ![t] = p] /\ (UNCHANGED ip \/ ip' = [ip EXCEPT ![t] = @ + 1])
  BY DEF ExitCollected, Goto, Advance
<1>2. MainHolds /\ MainKept /\ K[t] = "on" /\ sched[t] # -1
  BY <1>0, <1>1, MainKeptIs, OnIs, RunningIs DEF PlacesInv, Stands, Running
<1>4. Placed(K, A)'
  <2>1. SameStates
    BY <1>0, <1>2, Marked
  <2> QED
    BY <1>0, <1>1, <2>1, Unmoved DEF Stands
<1>5. /\ join' = [v \in Thread |-> join'[v]] /\ join'[t] = "INITIAL"
      /\ \A v \in Thread : v # t => join'[v] = join[v]
      /\ pc'[t] = p
  BY <1>0, <1>p, <1>1 DEF Stands, JoinsHold, ProgsHold
<1>6. JoinHolds(K, t)'
  <2>1. \A w \in Thread : ~ Waits(w, t)
    <3>1. JoinHolds(K, t)
      BY <1>1, JoinsSplit DEF Stands
    <3> QED
      BY <1>0, <3>1 DEF JoinHolds
  <2>2. \A w \in Thread : w # t => ~ Waits(w, t)'
    BY <1>0, <1>1, <1>2, <1>p, <2>1, Ops DEF Stands
  <2>3. ~ Waits(t, t)'
    BY <1>5 DEF Waits
  <2>4. \A w \in Thread : ~ Waits(w, t)'
    BY <2>2, <2>3
  <2> HIDE DEF Waits
  <2> QED
    BY <1>5, <2>4 DEF JoinHolds, Ending
<1> QED
  BY <1>0, <1>p, <1>1, <1>2, <1>4, <1>5, <1>6, ExitSteps DEF Waking

-----------------------------------------------------------------------------
(* The other steps of threads.                                            *)

(* Places that are not of a join, of an exit that has begun, or between    *)
(* taking a thread from a queue and making it ready. *)
Plain == {"op", "lock", "lockcas", "lockcount", "lockowner", "try", "busy", "check", "remove",
          "release", "broadcasted", "exit", "leave", "left", "dummy", "slept"}
PlainMove(t) ==
  /\ pc[t] \in Plain
  /\ \E p \in Plain : pc' = [pc EXCEPT ![t] = p] /\ (UNCHANGED ip \/ ip' = [ip EXCEPT ![t] = @ + 1])

PlainStep(c, t) ==
  /\ Running(c, t) /\ PlainMove(t)
  /\ UNCHANGED <<setup, queue, timer, un, cur, sc, sched, pend, susp, next, cb, join, joiner>>
PlainSwitch(c, t) ==
  /\ Running(c, t) /\ PlainMove(t) /\ sc' = [sc EXCEPT ![c] = "back"]
  /\ UNCHANGED <<setup, un, cur, next, cb, join, joiner>>

LEMMA PlainKeeps ==
  ASSUME PlacesInv, NEW c \in Lcore, NEW t \in Thread, PlainStep(c, t), SameStates, Unattended
  PROVE  PlacesInv'
<1>1. Quiet(c, t)
  BY DEF PlainStep, PlainMove, Plain, Quiet, Goes, Joining, Waking
<1> QED
  BY <1>1, QuietKeeps

LEMMA PlainLeaves ==
  ASSUME NEW c \in Lcore, NEW t \in Thread, PlainSwitch(c, t)
  PROVE  Leaves(c, t)
BY DEF PlainSwitch, PlainMove, Plain, Leaves, Goes, Joining, Waking

-----------------------------------------------------------------------------
LEMMA PlainSteps ==
  ASSUME PlacesInv, NEW c \in Lcore, NEW t \in Thread, Unattended,
         \/ ShutdownAll(c, t) \/ ExitCall(c, t) \/ LockCall(c, t) \/ LockCas(c, t)
         \/ TrylockCall(c, t) \/ TrylockCas(c, t) \/ TrylockBusy(c, t)
         \/ UnlockCall(c, t) \/ UnlockCheck(c, t) \/ UnlockReleases(c, t)
  PROVE  PlacesInv'
<1>1. Running(c, t) /\ PlainMove(t)
  <2> USE DEF Calls, At, Running, PlainMove, Plain, Goto, Advance
  <2>1. CASE ShutdownAll(c, t) \/ ExitCall(c, t)
    BY <2>1 DEF ShutdownAll, ExitCall
  <2>2. CASE LockCall(c, t) \/ LockCas(c, t)
    BY <2>2 DEF LockCall, LockCas
  <2>3. CASE TrylockCall(c, t) \/ TrylockCas(c, t) \/ TrylockBusy(c, t)
    BY <2>3 DEF TrylockCall, TrylockCas, TrylockBusy
  <2>4. CASE UnlockCall(c, t) \/ UnlockCheck(c, t) \/ UnlockReleases(c, t)
    BY <2>4 DEF UnlockCall, UnlockCheck, UnlockReleases
  <2> QED
    BY <2>1, <2>2, <2>3, <2>4
<1>2. UNCHANGED <<setup, queue, timer, un, cur, sc, sched, pend, susp, next, cb, join, joiner, state>>
  BY DEF ShutdownAll, ExitCall, LockCall, LockCas, TrylockCall, TrylockCas, TrylockBusy, UnlockCall,
         UnlockCheck, UnlockReleases, Stay, Same, joinVars, mutexVars
<1> QED
  BY <1>1, <1>2, PlainKeeps, Unmarked DEF PlainStep

LEMMA MarkSteps ==
  ASSUME PlacesInv, NEW c \in Lcore, NEW t \in Thread, Unattended,
         Detach(c, t) \/ Return(c, t)
  PROVE  PlacesInv'
<1>1. Running(c, t) /\ PlainMove(t)
  BY DEF Calls, At, Running, PlainMove, Plain, Goto, Advance, Detach, Return
<1>2. UNCHANGED <<setup, queue, timer, un, cur, sc, sched, pend, susp, next, cb, join, joiner>>
  BY DEF Detach, Return, Stay, Same, joinVars
<1>3. SameStates
  <2>1. PICK b \in {"DETACH", "EXITED"} : state' = [state EXCEPT ![t] = @ \cup {b}]
    BY DEF Detach, Return
  <2> QED
    BY <1>1, <2>1, Marked, RunningIs
<1> QED
  BY <1>1, <1>2, <1>3, PlainKeeps DEF PlainStep

LEMMA YieldSteps ==
  ASSUME PlacesInv, NEW c \in Lcore, NEW t \in Thread, Unattended,
         Yield(c, t) \/ CondYields(c, t) \/ Leave(c, t)
  PROVE  PlacesInv'
<1>1. Running(c, t) /\ PlainMove(t)
  BY DEF Calls, At, Running, PlainMove, Plain, Goto, Advance, Yield, CondYields, Leave, Reschedule
<1>2. /\ sc' = [sc EXCEPT ![c] = "back"] /\ queue' = [queue EXCEPT ![Ready(c)] = Append(@, t)]
      /\ UNCHANGED <<setup, timer, un, cur, sched, pend, susp, next, cb, join, joiner, state>>
  BY DEF Yield, CondYields, Leave, Reschedule, Switch, Same, joinVars, ReadyInsert
<1>3. Leaves(c, t)
  BY <1>1, <1>2, PlainLeaves DEF PlainSwitch
<1> QED
  BY <1>2, <1>3, YieldingKeeps

(* In a join or an exit, a thread yields until it is its turn. *)
LEMMA WaitSteps ==
  ASSUME PlacesInv, NEW c \in Lcore, NEW t \in Thread, Unattended,
         JoinWaits(c, t) \/ ExitWaits(c, t)
  PROVE  PlacesInv'
<1>1. /\ Running(c, t) /\ pc[t] \in {"joinwait", "exitwait"}
      /\ pc' = [pc EXCEPT ![t] = pc[t]] /\ UNCHANGED ip
  BY DEF At, Running, Goto, JoinWaits, ExitWaits, Reschedule
<1>2. /\ sc' = [sc EXCEPT ![c] = "back"] /\ queue' = [queue EXCEPT ![Ready(c)] = Append(@, t)]
      /\ UNCHANGED <<setup, timer, un, cur, sched, pend, susp, next, cb, join, joiner, state>>
  BY DEF JoinWaits, ExitWaits, Reschedule, Switch, Same, joinVars, ReadyInsert
<1>3. Leaves(c, t)
  BY <1>1, <1>2 DEF Leaves, Goes, Waking
<1> QED
  BY <1>2, <1>3, YieldingKeeps

LEMMA SleepSteps ==
  ASSUME PlacesInv, NEW c \in Lcore, NEW t \in Thread, Unattended, Sleep(c, t)
  PROVE  PlacesInv'
<1>1. Running(c, t) /\ PlainMove(t)
  BY DEF Calls, At, Running, PlainMove, Plain, Advance, Sleep
<1>2. /\ sc' = [sc EXCEPT ![c] = "back"] /\ timer' = [timer EXCEPT ![t] = c]
      /\ state' = [state EXCEPT ![t] = @ \cup {"SLEEPING"}] /\ susp' = [susp EXCEPT ![t] = TRUE]
      /\ UNCHANGED <<setup, queue, un, cur, sched, pend, next, cb, join, joiner>>
  BY DEF Sleep, Suspend, Same, joinVars
<1>3. Leaves(c, t)
  BY <1>1, <1>2, PlainLeaves DEF PlainSwitch
<1> QED
  BY <1>2, <1>3, SleepingKeeps

LEMMA BlockSteps ==
  ASSUME PlacesInv, NEW c \in Lcore, NEW t \in Thread, Unattended,
         LockCount(c, t) \/ LockOwner(c, t) \/ CondWait(c, t)
  PROVE  PlacesInv'
<1>1. Running(c, t) /\ PlainMove(t)
  BY DEF Calls, At, Running, PlainMove, Plain, Goto, Advance, LockCount, LockOwner, CondWait, Block
<1>2. UNCHANGED <<setup, queue, timer, un, cur, sched, next, cb, join, joiner, state>>
  BY DEF LockCount, LockOwner, CondWait, Same, joinVars
<1>3. \/ UNCHANGED <<sc, susp, pend>>
      \/ /\ sc' = [sc EXCEPT ![c] = "back"] /\ susp' = [susp EXCEPT ![t] = TRUE]
         /\ \E q \in Blocking : pend' = [pend EXCEPT ![t] = q]
  BY DEF LockCount, LockOwner, CondWait, Block, Suspend, Stay, Blocking
<1>4. CASE UNCHANGED <<sc, susp, pend>>
  BY <1>1, <1>2, <1>4, PlainKeeps, Unmarked DEF PlainStep
<1>5. CASE /\ sc' = [sc EXCEPT ![c] = "back"] /\ susp' = [susp EXCEPT ![t] = TRUE]
           /\ \E q \in Blocking : pend' = [pend EXCEPT ![t] = q]
  <2>1. Leaves(c, t)
    BY <1>1, <1>2, <1>5, PlainLeaves DEF PlainSwitch
  <2> QED
    BY <1>2, <1>5, <2>1, BlockingKeeps
<1> QED
  BY <1>3, <1>4, <1>5

LEMMA AffinitySteps ==
  ASSUME PlacesInv, NEW c \in Lcore, NEW t \in Thread, Unattended, SetAffinity(c, t)
  PROVE  PlacesInv'
<1>1. Running(c, t) /\ PlainMove(t)
  BY DEF Calls, At, Running, PlainMove, Plain, Advance, SetAffinity
<1>2. UNCHANGED <<setup, queue, timer, un, cur, susp, next, cb, join, joiner, state>>
  BY DEF SetAffinity, Stay, Switch, Same, joinVars
<1>3. CASE UNCHANGED <<sc, sched, pend>>
  BY <1>1, <1>2, <1>3, PlainKeeps, Unmarked DEF PlainStep
<1>4. CASE ~ UNCHANGED <<sc, sched, pend>>
  <2> DEFINE d == Op(t)[2]
  <2>1. /\ Exists(d) /\ sched' = [sched EXCEPT ![t] = d] /\ pend' = [pend EXCEPT ![t] = PReady(d)]
        /\ sc' = [sc EXCEPT ![c] = "back"]
    BY <1>4 DEF SetAffinity, Stay, Switch
  <2>2. d \in Lcore
    <3>1. Op(t)[1] = "affinity"
      BY DEF SetAffinity, Calls
    <3> QED
      BY <1>1, <3>1, OpIs, RunningIs DEF PlacesInv, MainHolds, WellNamed
  <2>3. Leaves(c, t)
    BY <1>1, <1>2, <2>1, PlainLeaves DEF PlainSwitch
  <2> HIDE DEF d
  <2> QED
    BY <1>2, <2>1, <2>2, <2>3, MigratingKeeps
<1> QED
  BY <1>3, <1>4

-----------------------------------------------------------------------------
LEMMA CreateSteps ==
  ASSUME PlacesInv, NEW c \in Lcore, NEW t \in Thread, Unattended, Create(c, t)
  PROVE  PlacesInv'
<1>1. Running(c, t) /\ PlainMove(t) /\ pc[t] = "op" /\ Op(t)[1] = "create" /\ Advance(t)
  BY DEF Calls, At, Running, PlainMove, Plain, Advance, Create
<1>2. UNCHANGED <<setup, timer, un, cur, sc, sched, pend, susp, next, cb, join, joiner>>
  BY DEF Create, Stay, Same, joinVars
<1>3. Op(t)[2] \in Thread /\ Op(t)[3] \in Lcore
  BY <1>1, OpIs, RunningIs DEF PlacesInv, MainHolds, WellNamed
<1>4. CASE ~ Exists(Op(t)[3])
  <2>1. UNCHANGED <<queue, state>>
    BY <1>4 DEF Create, NewThread
  <2> QED
    BY <1>1, <1>2, <2>1, PlainKeeps, Unmarked DEF PlainStep
<1>5. CASE Exists(Op(t)[3])
  <2>1. state' = [state EXCEPT ![Op(t)[2]] = {"INIT"}] /\ ReadyInsert(c, Op(t)[3], Op(t)[2])
    BY <1>5 DEF Create, NewThread
  <2>2. Taken(Op(t)) = Op(t)[2] /\ Op(t)[1] # "cancel" /\ pc[t] \notin Joining \cup Waking
    BY <1>1 DEF Taken, Joining, Waking
  <2>3. PICK x \in Thread, d \in Lcore : x = Op(t)[2] /\ d = Op(t)[3]
    BY <1>3
  <2>4. /\ Taken(Op(t)) = x /\ Exists(d) /\ state' = [state EXCEPT ![x] = {"INIT"}] /\ ReadyInsert(c, d, x)
    BY <1>5, <2>1, <2>2, <2>3
  <2> QED
    BY <1>1, <1>2, <2>2, <2>4, CreatingKeeps
<1> QED
  BY <1>4, <1>5

LEMMA CancelSteps ==
  ASSUME PlacesInv, NEW c \in Lcore, NEW t \in Thread, Unattended, Cancel(c, t)
  PROVE  PlacesInv'
<1>1. Running(c, t) /\ PlainMove(t) /\ pc[t] = "op" /\ Op(t)[1] = "cancel" /\ Advance(t)
  BY DEF Calls, At, Running, PlainMove, Plain, Advance, Cancel
<1>2. UNCHANGED <<setup, timer, un, cur, sc, sched, pend, susp, next, cb, join, joiner>>
  BY DEF Cancel, Stay, Same, joinVars
<1>3. PICK u \in Thread, x \in Thread : u = Op(t)[2] /\ x = Op(t)[3]
  BY <1>1, OpIs, RunningIs DEF PlacesInv, MainHolds, WellNamed
<1>4. CASE sched[u] = c
  <2>1. UNCHANGED queue /\ state' = [state EXCEPT ![u] = @ \cup {"CANCELLED"}]
    BY <1>3, <1>4 DEF Cancel
  <2>2. SameStates
    BY <1>4, <2>1, Marked, Numbers
  <2> QED
    BY <1>1, <1>2, <2>1, <2>2, PlainKeeps DEF PlainStep
<1>5. CASE sched[u] # c /\ (sched[u] = -1 \/ ~ Exists(sched[u]))
  <2>1. UNCHANGED <<queue, state>>
    BY <1>3, <1>5 DEF Cancel, NewThread
  <2> QED
    BY <1>1, <1>2, <2>1, PlainKeeps, Unmarked DEF PlainStep
<1>6. CASE sched[u] # c /\ sched[u] # -1 /\ Exists(sched[u])
  <2>1. state' = [state EXCEPT ![x] = {"INIT"}] /\ ReadyInsert(c, sched[u], x)
    BY <1>3, <1>6 DEF Cancel, NewThread
  <2>2. sched[u] \in Lcore
    BY <1>6 DEF PlacesInv, Stands, Placed, SchedsHold
  <2>3. PICK d \in Lcore : d = sched[u]
    BY <2>2
  <2>4. /\ Taken(Op(t)) = x /\ pc[t] \notin Joining \cup Waking
        /\ Exists(d) /\ ReadyInsert(c, d, x) /\ sched[Op(t)[2]] # -1
    BY <1>1, <1>3, <1>6, <2>1, <2>3 DEF Taken, Joining, Waking
  <2> QED
    BY <1>1, <1>2, <2>1, <2>4, CreatingKeeps
<1> QED
  BY <1>4, <1>5, <1>6

LEMMA TaskletSteps ==
  ASSUME PlacesInv, NEW c \in Lcore, NEW t \in Thread, Unattended, CancelTasklet(c, t)
  PROVE  PlacesInv'
<1>1. Running(c, t) /\ PlainMove(t) /\ pc[t] = "op" /\ Op(t)[1] = "_cancel"
  BY DEF Calls, At, Running, PlainMove, Plain, Advance, CancelTasklet
<1>2. UNCHANGED <<setup, queue, timer, un, cur, sc, sched, pend, susp, next, cb, join, joiner>>
  BY DEF CancelTasklet, Stay, Same, joinVars
<1>3. /\ ip[t] \in DOMAIN setup.prog[t] /\ Op(t) = setup.prog[t][ip[t]] /\ Op(t)[2] \in Thread
  BY <1>1, OpIs, RunningIs DEF PlacesInv, MainHolds, WellNamed
<1>4. PICK u \in Thread : u = Op(t)[2]
  BY <1>3
<1>5. PICK K, A : Stands(K, A)
  BY DEF PlacesInv
<1>6. sched[u] # -1 /\ sched[t] # -1
  <2>1. K[t] # "unborn"
    BY <1>1, <1>5, OnIs DEF Stands, Running
  <2> QED
    BY <1>1, <1>3, <1>4, <1>5, <2>1, RunningIs DEF Stands, ProgsHold, HasTarget
<1>7. state = [x \in Thread |-> state[x]]
      /\ \A x \in {u, t} : state[x] # {} /\ "INIT" \notin state[x]
  BY <1>5, <1>6 DEF Stands, Placed, StatesHold, SchedsHold
<1>8. SameStates
  <2>1. state' = [state EXCEPT ![u] = @ \cup {"CANCELLED"}, ![t] = @ \cup {"DETACH"}]
    BY <1>4 DEF CancelTasklet
  <2>2. state' = [x \in Thread |-> state'[x]]
    BY <1>7, <2>1
  <2>3. \A x \in Thread : x \notin {u, t} => state'[x] = state[x]
    BY <1>7, <2>1
  <2>4. \A x \in {u, t} : \E S \in SUBSET {"CANCELLED", "DETACH"} : state'[x] = state[x] \cup S
    <3>1. CASE u = t
      BY <1>7, <2>1, <3>1
    <3>2. CASE u # t
      BY <1>7, <2>1, <3>2
    <3> QED
      BY <3>1, <3>2
  <2> QED
    BY <1>7, <2>2, <2>3, <2>4 DEF SameStates
<1> QED
  BY <1>1, <1>2, <1>8, PlainKeeps DEF PlainStep

-----------------------------------------------------------------------------
(* All steps of threads.                                                  *)

(* What the invariant looks at. *)
placeVars == <<setup, queue, timer, un, cur, sc, sched, pend, susp, next, cb, join, joiner, state, pc, ip,
               mip, mpc, lstate, remote>>

(* A step of a scheduler. *)
LEMMA ScStands ==
  ASSUME MainHolds, MainHolds', NEW K, NEW A, Stands(K, A), NEW K2, NEW A2, Placed(K2, A2)',
         UNCHANGED <<setup, un, join, joiner, pc, ip, mip>>,
         \A c \in Lcore : Exists(c) /\ sc[c] # "made" => Exists(c)' /\ sc'[c] # "made",
         \A x \in Thread : sched[x] # -1 => sched'[x] # -1,
         \A x \in Thread : K2[x] = "parked" <=> K[x] = "parked",
         \A x \in Thread : K2[x] # "unborn" => K[x] # "unborn" \/ (Born(x) /\ HasTarget(x))'
  PROVE  PlacesInv'
<1>1. JoinsHold(K) /\ ProgsHold(K)
  BY DEF Stands
<1>2. ip \in [Thread -> Nat \ {0}] /\ pc = [t \in Thread |-> pc[t]] /\ setup \in Setup /\ mip \in Nat
  BY <1>1 DEF ProgsHold, MainHolds
<1>3. ApartFromJoins
  BY <1>2 DEF ApartFromJoins
<1>4. GoesOn
  BY <1>2 DEF GoesOn
<1>5. JoinsHold(K2)'
  BY <1>1, <1>2, <1>3, JoinsKept
<1>6. \A x \in Thread : un'[x] # Null <=> pc'[x] \in Waking
  BY <1>1 DEF ProgsHold
<1>7. ProgsHold(K2)'
  BY <1>1, <1>4, <1>6, ProgsKept
<1> QED
  BY <1>5, <1>7 DEF PlacesInv, Stands

LEMMA Untouching ==
  ASSUME PlacesInv, UNCHANGED placeVars
  PROVE  PlacesInv'
<1>1. PICK K, A : Stands(K, A)
  BY DEF PlacesInv
<1>2. Placed(K, A)'
  BY <1>1, Unmoved, Unmarked DEF Stands, placeVars
<1>3. MainHolds'
  BY DEF PlacesInv, MainHolds, placeVars, Call, Green
<1>4. /\ UNCHANGED <<setup, un, join, joiner, pc, ip, mip, sched, sc>>
      /\ \A c \in Lcore : Exists(c) /\ sc[c] # "made" => Exists(c)' /\ sc'[c] # "made"
  BY DEF placeVars, Exists
<1> QED
  BY <1>1, <1>2, <1>3, <1>4, ScStands DEF PlacesInv

-----------------------------------------------------------------------------
LEMMA RemoveSteps ==
  ASSUME PlacesInv, NEW c \in Lcore, NEW t \in Thread, Unattended,
         UnlockRemove(c, t) \/ CondSignal(c, t) \/ CondBroadcast(c, t)
  PROVE  PlacesInv'
<1>1. Running(c, t) /\ pc[t] \in Plain
  BY DEF UnlockRemove, CondSignal, CondBroadcast, Calls, At, Running, Plain
<1>2. UNCHANGED <<setup, timer, cur, sc, sched, pend, susp, next, cb, join, joiner, state>>
  BY DEF UnlockRemove, CondSignal, CondBroadcast, Remove, Stay, Same, joinVars
<1>3. \/ UNCHANGED <<queue, un>> /\ PlainMove(t)
      \/ \E q \in Blocking : \E p \in Waking :
           /\ queue[q] # <<>> /\ queue' = [queue EXCEPT ![q] = Tail(@)]
           /\ un' = [un EXCEPT ![t] = Head(queue[q])]
           /\ pc' = [pc EXCEPT ![t] = p] /\ UNCHANGED ip
  <2>1. CASE UnlockRemove(c, t)
    BY <1>1, <2>1 DEF UnlockRemove, Remove, Pollable, Goto, PlainMove, Plain, Blocking, Waking
  <2>2. CASE CondSignal(c, t)
    BY <1>1, <2>2 DEF CondSignal, Remove, Pollable, Goto, Advance, PlainMove, Plain, Blocking, Waking
  <2>3. CASE CondBroadcast(c, t)
    BY <1>1, <2>3 DEF CondBroadcast, Remove, Pollable, Goto, PlainMove, Plain, Blocking, Waking
  <2> QED
    BY <2>1, <2>2, <2>3
<1>4. CASE UNCHANGED <<queue, un>> /\ PlainMove(t)
  BY <1>1, <1>2, <1>4, PlainKeeps, Unmarked DEF PlainStep
<1>5. CASE \E q \in Blocking : \E p \in Waking :
           /\ queue[q] # <<>> /\ queue' = [queue EXCEPT ![q] = Tail(@)]
           /\ un' = [un EXCEPT ![t] = Head(queue[q])]
           /\ pc' = [pc EXCEPT ![t] = p] /\ UNCHANGED ip
  <2>1. PICK q \in Blocking : \E p \in Waking :
           /\ queue[q] # <<>> /\ queue' = [queue EXCEPT ![q] = Tail(@)]
           /\ un' = [un EXCEPT ![t] = Head(queue[q])]
           /\ pc' = [pc EXCEPT ![t] = p] /\ UNCHANGED ip
    BY <1>5
  <2>2. PICK p \in Waking : pc' = [pc EXCEPT ![t] = p] /\ UNCHANGED ip
    BY <2>1
  <2>3. Goes(t, p) /\ pc[t] \notin Waking
    BY <1>1, <2>2 DEF Goes, Joining, Waking, Plain
  <2> QED
    BY <1>1, <1>2, <2>1, <2>3, RemovingKeeps
<1> QED
  BY <1>3, <1>4, <1>5

LEMMA WakeSteps ==
  ASSUME PlacesInv, NEW c \in Lcore, NEW t \in Thread, Unattended,
         UnlockWakes(c, t) \/ CondSignals(c, t) \/ CondBroadcasts(c, t)
  PROVE  PlacesInv'
<1>1. /\ Running(c, t) /\ pc[t] \in Waking
      /\ \E p \in Plain : pc' = [pc EXCEPT ![t] = p] /\ (UNCHANGED ip \/ ip' = [ip EXCEPT ![t] = @ + 1])
  BY DEF UnlockWakes, CondSignals, CondBroadcasts, At, Running, Waking, Plain, Goto, Advance
<1>2. UNCHANGED <<setup, timer, cur, sc, sched, pend, susp, next, cb, join, joiner, state>>
  BY DEF UnlockWakes, CondSignals, CondBroadcasts, Wake, Stay, Same, joinVars
<1>3. ReadyInsert(c, sched[un[t]], un[t]) /\ un' = [un EXCEPT ![t] = Null]
  BY DEF UnlockWakes, CondSignals, CondBroadcasts, Wake
<1>4. PICK p \in Plain : Goes(t, p) /\ p \notin Waking
  BY <1>1 DEF Goes, Plain, Joining, Waking
<1> QED
  BY <1>1, <1>2, <1>3, <1>4, WakingKeeps

LEMMA JoinCallSteps ==
  ASSUME PlacesInv, NEW c \in Lcore, NEW t \in Thread, Unattended, JoinCall(c, t)
  PROVE  PlacesInv'
<1>1. Running(c, t) /\ pc[t] = "op" /\ Op(t)[1] = "join"
  BY DEF JoinCall, Calls, At, Running
<1>2. UNCHANGED <<setup, queue, timer, un, cur, sc, sched, pend, susp, next, cb, join, state>>
  BY DEF JoinCall, Stay, Same
<1>3. \/ Advance(t) /\ UNCHANGED joiner
      \/ /\ join[Op(t)[2]] # "THREAD_SET" /\ Goto(t, "join")
         /\ joiner' = [joiner EXCEPT ![Op(t)[2]] = t]
  BY DEF JoinCall
<1>4. CASE Advance(t) /\ UNCHANGED joiner
  <2>1. PlainStep(c, t)
    BY <1>1, <1>2, <1>4 DEF PlainStep, PlainMove, Plain, Advance
  <2> QED
    BY <1>2, <2>1, PlainKeeps, Unmarked
<1> QED
  BY <1>1, <1>2, <1>3, <1>4, AskingKeeps

LEMMA ThreadKeepsPlaces ==
  ASSUME PlacesInv, NEW c \in Lcore, NEW t \in Thread, ThreadStep(c, t), UNCHANGED greenVars
  PROVE  PlacesInv'
<1>1. Unattended
  BY DEF Unattended, greenVars
<1>2. CASE Yield(c, t) \/ Sleep(c, t) \/ SetAffinity(c, t) \/ Detach(c, t)
           \/ Create(c, t) \/ Cancel(c, t) \/ CancelTasklet(c, t) \/ ShutdownAll(c, t)
  BY <1>1, <1>2, YieldSteps, SleepSteps, AffinitySteps, MarkSteps, CreateSteps, CancelSteps,
     TaskletSteps, PlainSteps
<1>3. CASE Return(c, t) \/ ExitCall(c, t) \/ ExitFirst(c, t) \/ ExitResumed(c, t) \/ ExitSecond(c, t)
           \/ ExitWakes(c, t) \/ ExitCollected(c, t) \/ ExitWaits(c, t) \/ Leave(c, t)
  BY <1>1, <1>3, MarkSteps, PlainSteps, ExitFirstKeeps, ExitResumedKeeps, ExitSecondKeeps,
     ExitWakesKeeps, ExitCollectedKeeps, WaitSteps, YieldSteps
<1>4. CASE Derail(c, t)
  BY <1>4, Untouching DEF Derail, placeVars, greenVars, schedVars, joinVars
<1>5. CASE JoinCall(c, t) \/ JoinFirst(c, t) \/ JoinSecond(c, t) \/ JoinWaits(c, t)
           \/ JoinCollects(c, t)
  BY <1>1, <1>5, JoinCallSteps, JoinFirstKeeps, JoinSecondKeeps, WaitSteps, JoinCollectsKeeps
<1>6. CASE LockCall(c, t) \/ LockCas(c, t) \/ LockCount(c, t) \/ LockOwner(c, t)
           \/ TrylockCall(c, t) \/ TrylockCas(c, t) \/ TrylockBusy(c, t)
           \/ UnlockCall(c, t) \/ UnlockCheck(c, t) \/ UnlockRemove(c, t) \/ UnlockWakes(c, t)
           \/ UnlockReleases(c, t)
  BY <1>1, <1>6, PlainSteps, BlockSteps, RemoveSteps, WakeSteps
<1>7. CASE CondWait(c, t) \/ CondSignal(c, t) \/ CondSignals(c, t)
           \/ CondBroadcast(c, t) \/ CondBroadcasts(c, t) \/ CondYields(c, t)
  BY <1>1, <1>7, BlockSteps, RemoveSteps, WakeSteps, YieldSteps
<1> QED
  BY <1>2, <1>3, <1>4, <1>5, <1>6, <1>7 DEF ThreadStep

-----------------------------------------------------------------------------
(* ssn_sleep, ssn_yield, the spawner and the dummy *)
LEMMA GreenKeepsPlaces ==
  ASSUME PlacesInv, NEW c \in Lcore, NEW t \in Thread, GreenThreadStep(c, t)
  PROVE  PlacesInv'
<1>1. Unattended
  BY DEF Unattended, greenVars, GreenThreadStep, Sleeps, Yields, Spawned, DummyStarts, DummySleeps,
         DummyYields, DummyEnds
<1>2. Running(c, t) /\ PlainMove(t)
  BY DEF GreenThreadStep, Sleeps, Yields, Spawned, DummyStarts, DummySleeps,
         DummyYields, DummyEnds, Calls, At, Running, PlainMove, Plain, Goto, Advance
<1>3. UNCHANGED <<setup, un, cur, sched, pend, next, cb, join, joiner>>
  BY DEF GreenThreadStep, Sleeps, Yields, Spawned, DummyStarts, DummySleeps, DummyYields, DummyEnds,
         SleepStep, YieldStep, NoStep, Same, Untouched, joinVars
<1>4. \/ UNCHANGED <<queue, timer, sc, susp, state>>
      \/ /\ sc' = [sc EXCEPT ![c] = "back"] /\ timer' = [timer EXCEPT ![t] = c]
         /\ state' = [state EXCEPT ![t] = @ \cup {"SLEEPING"}] /\ susp' = [susp EXCEPT ![t] = TRUE]
         /\ UNCHANGED queue
      \/ /\ sc' = [sc EXCEPT ![c] = "back"] /\ queue' = [queue EXCEPT ![Ready(c)] = Append(@, t)]
         /\ UNCHANGED <<timer, susp, state>>
  <2>1. CASE SleepStep(c, t)
    BY <2>1 DEF SleepStep, SsnSleep, Suspend, Stay
  <2>2. CASE YieldStep(c, t)
    BY <2>2 DEF YieldStep, SsnYield, ReadyInsert, Switch, Stay
  <2>3. CASE NoStep
    BY <2>3 DEF NoStep, Stay
  <2> QED
    BY <2>1, <2>2, <2>3 DEF GreenThreadStep, Sleeps, Yields, Spawned, DummyStarts, DummySleeps,
                            DummyYields, DummyEnds
<1>5. CASE UNCHANGED <<queue, timer, sc, susp, state>>
  BY <1>1, <1>2, <1>3, <1>5, PlainKeeps, Unmarked DEF PlainStep
<1>6. ASSUME sc' = [sc EXCEPT ![c] = "back"]
      PROVE  Leaves(c, t)
  BY <1>2, <1>3, <1>6, PlainLeaves DEF PlainSwitch
<1> QED
  BY <1>1, <1>3, <1>4, <1>5, <1>6, SleepingKeeps, YieldingKeeps

LEMMA KeysKeepPlaces ==
  ASSUME PlacesInv, NEW c \in Lcore, NEW t \in Thread, KeyStep(c, t)
  PROVE  PlacesInv'
<1>1. PICK f \in {"key_create", "key_delete", "set", "get"} : KeyOp(c, t, f)
  BY DEF KeyStep, KeyCreate, KeyDelete, SetSpecific, GetSpecific
<1>2. Unattended /\ Running(c, t) /\ PlainMove(t)
  BY <1>1 DEF KeyOp, Unattended, greenVars, Calls, At, Running, PlainMove, Plain, Advance
<1>3. UNCHANGED <<setup, queue, timer, un, cur, sc, sched, pend, susp, next, cb, join, joiner, state>>
  BY <1>1 DEF KeyOp, NoStep, Stay, Same, Untouched, joinVars
<1> QED
  BY <1>2, <1>3, PlainKeeps, Unmarked DEF PlainStep

-----------------------------------------------------------------------------
(* All steps of schedulers.                                               *)

LEMMA SchedulerOfMain ==
  ASSUME MainHolds, NEW c \in Lcore, sc \in [Lcore -> ScPlace], NEW s, s \notin {"off", "made"},
         sc' = [sc EXCEPT ![c] = s], sc[c] \notin {"off", "made"} \/ (Green => c # Master),
         UNCHANGED setup, Unattended
  PROVE  /\ MainHolds'
         /\ \A d \in Lcore : Exists(d) /\ sc[d] # "made" => Exists(d)' /\ sc'[d] # "made"
<1>1. Green => Master \in Lcore
  BY GreenAssumption DEF MainHolds, Green, WellUsed
<1>2. Green => c # Master
  BY DEF MainHolds
<1>3. sc'[c] = s /\ \A d \in Lcore : d # c => sc'[d] = sc[d]
  OBVIOUS
<1>4. MainHolds'
  BY <1>1, <1>2, <1>3 DEF MainHolds, Unattended, Green, Call
<1>5. \A d \in Lcore : Exists(d) /\ sc[d] # "made" => Exists(d)' /\ sc'[d] # "made"
  BY <1>3 DEF Exists
<1> QED
  BY <1>4, <1>5

(* A scheduler goes round without a thread. *)
LEMMA TurnKeeps ==
  ASSUME PlacesInv, NEW c \in Lcore, NEW s \in ScPlace \ {"off", "made", "run", "back", "timer"},
         sc[c] \notin {"off", "made", "run", "back"}, sc' = [sc EXCEPT ![c] = s], Unattended,
         UNCHANGED <<setup, queue, timer, un, cur, sched, pend, susp, next, cb, join, joiner, state, pc, ip>>
  PROVE  PlacesInv'
<1>1. PICK K, A : Stands(K, A)
  BY DEF PlacesInv
<1>2. sc \in [Lcore -> ScPlace]
  BY <1>1 DEF Stands, Placed, LcoresHold
<1>3. ScSteps
  BY <1>2 DEF ScSteps
<1>4. Placed(K, A)'
  BY <1>1, <1>3, ScMoves DEF Stands
<1>5. MainHolds' /\ \A d \in Lcore : Exists(d) /\ sc[d] # "made" => Exists(d)' /\ sc'[d] # "made"
  BY <1>2, SchedulerOfMain DEF PlacesInv
<1> QED
  BY <1>1, <1>4, <1>5, ScStands DEF PlacesInv, Unattended

LEMMA ResumeKeeps ==
  ASSUME PlacesInv, NEW c \in Lcore, NEW t \in Thread, FromQueue(c, t) \/ FromTimer(c, t),
         NEW S, "INIT" \notin S, "FREED" \notin S, "DETACH" \notin S,
         NEW n, Resume(c, t, state[t] \cup S, n),
         sc[c] \in {"ready", "pready"}, NEW p \in {"top", "timer", "pready"},
         next' = [next EXCEPT ![c] = p], Unattended,
         UNCHANGED <<setup, un, pend, join, joiner, pc, ip>>
  PROVE  PlacesInv'
<1>1. PICK K, A : Stands(K, A)
  BY DEF PlacesInv
<1>2. Placed(K, A) /\ sc \in [Lcore -> ScPlace] /\ sched \in [Thread -> Lcore \cup {-1}]
      /\ susp \in [Thread -> BOOLEAN]
  BY <1>1 DEF Stands, Placed, LcoresHold, SchedsHold, StatesHold
<1>3. /\ K[t] \in {"queue", "timer"} /\ state[t] # {} /\ "FREED" \notin state[t]
      /\ "INIT" \in state[t] => state[t] = {"INIT"}
  <2>1. PICK K2, A2 : Moved(K, A, K2, A2, t, "freed", 0)
    BY <1>2, MoveThere, Spots DEF Placed, Kind
  <2>2. K[t] \in {"queue", "timer"}
    <3>1. CASE FromQueue(c, t)
      BY <1>2, <3>1, QueueNames, HeadIs DEF FromQueue, Placed
    <3>2. CASE FromTimer(c, t)
      BY <1>2, <3>2, Numbers DEF FromTimer, Placed, TimersHold
    <3> QED
      BY <3>1, <3>2
  <2> QED
    BY <1>2, <2>2 DEF Placed, StatesHold
<1>4. sc' = [sc EXCEPT ![c] = sc'[c]] /\ sc'[c] \in {"run", "back"}
  BY <1>2 DEF Resume
<1>5. MainHolds' /\ \A d \in Lcore : Exists(d) /\ sc[d] # "made" => Exists(d)' /\ sc'[d] # "made"
  BY <1>2, <1>4, SchedulerOfMain DEF PlacesInv
<1>6. \A x \in Thread : sched[x] # -1 => sched'[x] # -1
  BY <1>2, Numbers DEF Resume
<1> DEFINE st == state[t] \cup S
<1>7. CASE "DETACH" \in st /\ st \cap {"CANCELLED", "EXITED"} # {}
  <2>1. /\ state' = [state EXCEPT ![t] = {"FREED"}]
        /\ cur' = [cur EXCEPT ![c] = Null] /\ sc' = [sc EXCEPT ![c] = "back"]
        /\ susp' = [susp EXCEPT ![t] = @ /\ n = nb[c]] /\ UNCHANGED sched
    BY <1>7 DEF Resume
  <2>2. "INIT" \notin state[t]
    BY <1>3, <1>7
  <2>3. PICK b \in BOOLEAN : susp' = [susp EXCEPT ![t] = b]
    BY <1>2, <2>1
  <2>4. PICK K2, A2 : Moved(K, A, K2, A2, t, "freed", 0)
    BY <1>2, MoveThere, Spots DEF Placed, Kind
  <2>5. Placed(K2, A2)'
    BY <1>2, <2>1, <2>2, <2>3, <2>4, Frees
  <2>6. \A x \in Thread : (K2[x] = "parked" <=> K[x] = "parked") /\ (K2[x] # "unborn" => K[x] # "unborn")
    BY <1>3, <2>4 DEF Moved
  <2> QED
    BY <1>1, <1>5, <1>6, <2>5, <2>6, ScStands DEF PlacesInv, Unattended
<1>8. CASE ~ ("DETACH" \in st /\ st \cap {"CANCELLED", "EXITED"} # {})
  <2> DEFINE s == IF "INIT" \in st THEN {"READY"} ELSE st
  <2>1. /\ cur' = [cur EXCEPT ![c] = t] /\ sc' = [sc EXCEPT ![c] = "run"]
        /\ sched' = IF "INIT" \in st THEN [sched EXCEPT ![t] = c] ELSE sched
        /\ state' = [state EXCEPT ![t] = s]
        /\ susp' = [susp EXCEPT ![t] = FALSE]
    BY <1>8 DEF Resume
  <2>2. s # {} /\ "INIT" \notin s /\ "FREED" \notin s /\ ("INIT" \in st <=> "INIT" \in state[t])
    BY <1>3
  <2> HIDE DEF s, st
  <2>3. sched' = IF "INIT" \in state[t] THEN [sched EXCEPT ![t] = c] ELSE sched
    BY <2>1, <2>2
  <2>4. PICK K2, A2 : Moved(K, A, K2, A2, t, "on", c)
    BY <1>2, MoveThere, Spots DEF Placed, Kind
  <2>5. Placed(K2, A2)'
    BY <1>2, <2>1, <2>2, <2>3, <2>4, Runs
  <2>6. \A x \in Thread : (K2[x] = "parked" <=> K[x] = "parked") /\ (K2[x] # "unborn" => K[x] # "unborn")
    BY <1>3, <2>4 DEF Moved
  <2> QED
    BY <1>1, <1>5, <1>6, <2>5, <2>6, ScStands DEF PlacesInv, Unattended
<1> QED
  BY <1>7, <1>8

LEMMA PollKeeps ==
  ASSUME PlacesInv, NEW c \in Lcore, PollReady(c) \/ PollPReady(c), Unattended
  PROVE  PlacesInv'
<1>1. PICK q \in {Ready(c), PReady(c)}, there \in {"pready", "top"} :
        Poll(c, q, sc[c], there) /\ sc[c] \in {"ready", "pready"}
  BY DEF PollReady, PollPReady, Poll
<1>2. UNCHANGED <<setup, cb, pend, join, joiner, timer, ip, pc, un>>
  BY <1>1 DEF Poll, joinVars
<1>3. CASE Pollable(q)
  <2>1. PICK t : t = Head(queue[q])
    OBVIOUS
  <2>2. /\ queue[q] # <<>> /\ queue' = [queue EXCEPT ![q] = Tail(@)]
        /\ Resume(c, t, state[t], nb[c]) /\ next' = [next EXCEPT ![c] = there]
    BY <1>1, <1>3, <2>1 DEF Poll, Pollable
  <2>3. t \in Thread /\ q \in QueueName
    BY <2>1, <2>2, HeadIs, QueueNames DEF PlacesInv, Stands, Placed
  <2>4. FromQueue(c, t)
    <3>1. next'[c] # "timer"
      BY <2>2 DEF PlacesInv, Stands, Placed, CallbacksHold
    <3> QED
      BY <1>2, <2>1, <2>2, <3>1 DEF FromQueue
  <2>5. Resume(c, t, state[t] \cup {}, nb[c])
    <3>1. state[t] \cup {} = state[t]
      OBVIOUS
    <3> QED
      BY <2>2, <3>1
  <2> QED
    BY <1>1, <1>2, <2>2, <2>3, <2>4, <2>5, ResumeKeeps
<1>4. CASE ~ Pollable(q)
  <2>1. sc' = [sc EXCEPT ![c] = there] /\ UNCHANGED <<queue, cur, next, state, sched, susp>>
    BY <1>1, <1>4 DEF Poll
  <2> QED
    BY <1>1, <1>2, <2>1, TurnKeeps DEF ScPlace
<1> QED
  BY <1>3, <1>4

LEMMA TimerKeeps ==
  ASSUME PlacesInv, NEW c \in Lcore, NEW t \in Thread, TimerExpires(c, t), Unattended
  PROVE  PlacesInv'
<1>1. PICK n : Resume(c, t, state[t] \cup {"EXPIRED"}, n)
  BY DEF TimerExpires
<1>2. /\ FromTimer(c, t) /\ sc[c] = "ready" /\ next' = [next EXCEPT ![c] = "timer"]
      /\ UNCHANGED <<setup, un, pend, join, joiner, pc, ip>>
  BY DEF TimerExpires, FromTimer, joinVars
<1> QED
  BY <1>1, <1>2, ResumeKeeps

LEMMA SwitchedBackKeeps ==
  ASSUME PlacesInv, NEW c \in Lcore, SwitchedBack(c), Unattended
  PROVE  PlacesInv'
<1>1. PICK K, A : Stands(K, A)
  BY DEF PlacesInv
<1>2. /\ Placed(K, A) /\ sc \in [Lcore -> ScPlace] /\ next[c] \in {"top", "timer", "pready"}
      /\ cur[c] # Null => cur[c] \in Thread
      /\ pend \in [Thread -> QueueName \cup {Nowhere}]
  BY <1>1 DEF Stands, Placed, LcoresHold, CallbacksHold
<1>3. /\ sc[c] = "back" /\ cur' = [cur EXCEPT ![c] = Null] /\ sc' = [sc EXCEPT ![c] = next[c]]
      /\ next' = [next EXCEPT ![c] = "top"]
      /\ UNCHANGED <<setup, state, sched, join, joiner, timer, ip, pc, susp, un, cb>>
  BY DEF SwitchedBack, joinVars
<1>4. MainHolds' /\ \A d \in Lcore : Exists(d) /\ sc[d] # "made" => Exists(d)' /\ sc'[d] # "made"
  BY <1>2, <1>3, SchedulerOfMain DEF PlacesInv
<1>5. CASE cur[c] # Null /\ pend[cur[c]] # Nowhere
  <2>1. PICK t \in Thread : t = cur[c]
    BY <1>2, <1>5
  <2>2. queue' = [queue EXCEPT ![pend[t]] = Append(@, t)] /\ pend' = [pend EXCEPT ![t] = Nowhere]
    BY <1>5, <2>1 DEF SwitchedBack, InsertMp
  <2>3. PICK K2, A2 : Moved(K, A, K2, A2, t, "queue", pend[t])
    BY <1>2, <1>5, <2>1, MoveThere, Spots DEF Placed, Kind
  <2>4. Placed(K2, A2)'
    BY <1>2, <1>3, <1>5, <2>1, <2>2, <2>3, Saves
  <2>5. K[t] = "pend"
    BY <1>2, <1>3, <1>5, <2>1 DEF Placed, LcoresHold
  <2>6. \A x \in Thread : (K2[x] = "parked" <=> K[x] = "parked") /\ (K2[x] # "unborn" => K[x] # "unborn")
    BY <2>3, <2>5 DEF Moved
  <2> QED
    BY <1>1, <1>3, <1>4, <2>4, <2>6, ScStands DEF PlacesInv, Unattended
<1>6. CASE cur[c] = Null \/ pend[cur[c]] = Nowhere
  <2>1. UNCHANGED <<queue, pend>>
    BY <1>6 DEF SwitchedBack
  <2>2. Placed(K, A)'
    BY <1>2, <1>3, <1>6, <2>1, ComesBack
  <2> QED
    BY <1>1, <1>3, <1>4, <2>2, ScStands DEF PlacesInv, Unattended
<1> QED
  BY <1>5, <1>6

LEMMA RestoringKeeps ==
  ASSUME PlacesInv, NEW c \in Lcore, Restore(c), Unattended
  PROVE  PlacesInv'
<1>1. PICK K, A : Stands(K, A)
  BY DEF PlacesInv
<1>2. Placed(K, A)'
  BY <1>1, RestoreKeeps DEF Stands
<1>3. /\ sc \in [Lcore -> ScPlace] /\ sc[c] = "timer" /\ sc' = [sc EXCEPT ![c] = "ready"]
      /\ UNCHANGED <<setup, un, join, joiner, pc, ip, sched>>
  BY <1>1 DEF Stands, Placed, LcoresHold, Restore, joinVars
<1>4. MainHolds' /\ \A d \in Lcore : Exists(d) /\ sc[d] # "made" => Exists(d)' /\ sc'[d] # "made"
  BY <1>3, SchedulerOfMain DEF PlacesInv
<1> QED
  BY <1>1, <1>2, <1>3, <1>4, ScStands DEF PlacesInv, Unattended

-----------------------------------------------------------------------------
(* What a lcore creates before lthread_run is new. *)
LEMMA RootsAreUnborn ==
  ASSUME MainHolds, NEW K, ProgsHold(K), NEW c \in Lcore, sc[c] = "off"
  PROVE  /\ setup.root[c] \in Seq(Thread) /\ Distinct(setup.root[c])
         /\ \A x \in Thread : Has(setup.root[c], x) =>
              /\ K[x] = "unborn"
              /\ \A i \in DOMAIN setup.prog[x] : setup.prog[x][i][1] # "_cancel"
<1>1. /\ setup.root[c] \in Seq(Thread) /\ TakenOnce(setup) /\ OnlyTasklets(setup)
      /\ DOMAIN setup.root[c] = 1 .. Len(setup.root[c])
  BY LthreadAssumption DEF MainHolds
<1>2. Distinct(setup.root[c])
  BY <1>1 DEF TakenOnce, Distinct
<1>3. ASSUME NEW x \in Thread, Has(setup.root[c], x)
      PROVE  /\ K[x] = "unborn"
             /\ \A i \in DOMAIN setup.prog[x] : setup.prog[x][i][1] # "_cancel"
  <2>1. PICK i \in DOMAIN setup.root[c] : setup.root[c][i] = x
    BY <1>1, <1>3 DEF Has
  <2>2. ~ Born(x)
    <3>1. CASE \E d \in Lcore : Exists(d) /\ sc[d] # "made" /\ \E j \in DOMAIN setup.root[d] : setup.root[d][j] = x
      BY <1>1, <2>1, <3>1 DEF TakenOnce, Exists
    <3>2. CASE \E u \in Thread : \E j \in DOMAIN setup.prog[u] : j < ip[u] /\ Taken(setup.prog[u][j]) = x
      BY <1>1, <2>1, <3>2 DEF TakenOnce
    <3>3. CASE \E j \in DOMAIN setup.main : j < mip /\ setup.main[j][1] = "launch" /\ setup.main[j][2] = x
      <4>1. setup.main # <<>>
        BY <3>3
      <4> QED
        BY <2>1, <3>3, <4>1, GreenAssumption DEF MainHolds, WellUsed
    <3> QED
      BY <3>1, <3>2, <3>3 DEF Born
  <2>3. \A j \in DOMAIN setup.prog[x] : setup.prog[x][j][1] # "_cancel"
    BY <1>1, <2>1 DEF OnlyTasklets
  <2> QED
    BY <2>2, <2>3 DEF ProgsHold
<1> QED
  BY <1>1, <1>2, <1>3

LEMMA StartKeeps ==
  ASSUME PlacesInv, NEW c \in Lcore, Start(c), Unattended, Green => c # Master
  PROVE  PlacesInv'
<1>1. PICK K, A : Stands(K, A)
  BY DEF PlacesInv
<1>2. MainHolds /\ Placed(K, A) /\ ProgsHold(K) /\ sc \in [Lcore -> ScPlace]
  BY <1>1 DEF PlacesInv, Stands, Placed, LcoresHold
<1>3. PICK r : r = setup.root[c]
  OBVIOUS
<1>4. /\ sc[c] = "off" /\ sc' = [sc EXCEPT ![c] = "sync"] /\ queue' = [queue EXCEPT ![Ready(c)] = r]
      /\ state' = [x \in Thread |-> IF Has(r, x) THEN {"INIT"} ELSE state[x]]
      /\ UNCHANGED <<setup, timer, un, cur, sched, pend, susp, next, cb, join, joiner, pc, ip>>
  BY <1>3 DEF Start, Has, joinVars
<1>5. /\ r \in Seq(Thread) /\ Distinct(r)
      /\ \A x \in Thread : Has(r, x) =>
           K[x] = "unborn" /\ \A i \in DOMAIN setup.prog[x] : setup.prog[x][i][1] # "_cancel"
  BY <1>2, <1>3, <1>4, RootsAreUnborn
<1>6. PICK K2, A2 : /\ K2 = [x \in Thread |-> IF Has(r, x) THEN "queue" ELSE K[x]]
                    /\ A2 = [x \in Thread |-> IF Has(r, x) THEN Ready(c) ELSE A[x]]
  OBVIOUS
<1>7. Placed(K2, A2)'
  BY <1>2, <1>4, <1>5, <1>6, Starts
<1>8. MainHolds' /\ \A d \in Lcore : Exists(d) /\ sc[d] # "made" => Exists(d)' /\ sc'[d] # "made"
  BY <1>2, <1>4, SchedulerOfMain
<1>9. \A x \in Thread : Has(r, x) => (Born(x) /\ HasTarget(x))'
  <2>1. ASSUME NEW x \in Thread, Has(r, x) PROVE Born(x)'
    <3>1. \E i \in DOMAIN setup.root[c] : setup.root[c][i] = x
      BY <1>3, <1>5, <2>1 DEF Has
    <3>2. sc'[c] = "sync" /\ setup' = setup
      BY <1>2, <1>4
    <3> QED
      BY <3>1, <3>2 DEF Born, Exists
  <2> QED
    BY <1>4, <1>5, <2>1 DEF HasTarget
<1>10. /\ \A x \in Thread : K2[x] = "parked" <=> K[x] = "parked"
       /\ \A x \in Thread : K2[x] # "unborn" => K[x] # "unborn" \/ (Born(x) /\ HasTarget(x))'
  BY <1>5, <1>6, <1>9
<1> QED
  BY <1>1, <1>2, <1>4, <1>7, <1>8, <1>10, ScStands DEF Unattended

LEMMA SchedulerKeepsPlaces ==
  ASSUME PlacesInv, NEW c \in Lcore, Schedule(c), UNCHANGED greenVars,
         Green /\ sc[c] = "off" => remote[c] = "master"
  PROVE  PlacesInv'
<1>1. Unattended
  BY DEF Unattended, greenVars
<1>2. CASE Start(c)
  <2>1. Green => c # Master
    BY <1>2 DEF Start, PlacesInv, MainHolds
  <2> QED
    BY <1>1, <1>2, <2>1, StartKeeps
<1>3. CASE Synced(c)
  BY <1>1, <1>3, TurnKeeps DEF Synced, ScPlace, schedVars, joinVars
<1>4. CASE Top(c)
  BY <1>1, <1>4, TurnKeeps DEF Top, ScPlace, joinVars
<1>5. CASE Stopped(c)
  BY <1>1, <1>5, TurnKeeps DEF Stopped, ScPlace, joinVars
<1> QED
  BY <1>1, <1>2, <1>3, <1>4, <1>5, PollKeeps, TimerKeeps, SwitchedBackKeeps, RestoringKeeps
     DEF Schedule

-----------------------------------------------------------------------------
(* The main program, and the theorem.                                     *)

(* The program on the master lcore. *)
LEMMA MainMoves ==
  ASSUME PlacesInv, MainHolds',
         UNCHANGED <<setup, queue, timer, un, cur, sc, sched, pend, susp, next, cb, join, joiner, state, pc, ip>>,
         mip' \in Nat, mip' >= mip
  PROVE  PlacesInv'
<1>1. PICK K, A : Stands(K, A)
  BY DEF PlacesInv
<1>2. Placed(K, A)'
  BY <1>1, Unmoved, Unmarked DEF Stands
<1>3. JoinsHold(K) /\ ProgsHold(K) /\ setup \in Setup
  BY <1>1 DEF Stands, PlacesInv, MainHolds
<1>4. ApartFromJoins /\ GoesOn
  BY <1>3 DEF ApartFromJoins, GoesOn, ProgsHold, Exists
<1>5. JoinsHold(K)'
  BY <1>3, <1>4, JoinsKept DEF ProgsHold
<1>6. ProgsHold(K)'
  BY <1>3, <1>4, ProgsKept DEF PlacesInv, ProgsHold
<1> QED
  BY <1>2, <1>5, <1>6 DEF PlacesInv, Stands

LEMMA CallIs ==
  ASSUME MainHolds, Call[1] # "return"
  PROVE  /\ Green /\ WellUsed(setup) /\ mip \in DOMAIN setup.main /\ Call = setup.main[mip]
<1>1. CASE Green
  <2>1. WellUsed(setup)
    BY <1>1, GreenAssumption DEF MainHolds, Green
  <2>2. Len(setup.main) \in Nat /\ DOMAIN setup.main = 1 .. Len(setup.main) /\ mip \in Nat \ {0}
    BY <2>1 DEF WellUsed, MainHolds
  <2>3. ~ (mip > Len(setup.main))
    BY DEF Call
  <2>4. mip \in DOMAIN setup.main
    BY <2>2, <2>3
  <2> QED
    BY <1>1, <2>1, <2>3, <2>4 DEF Call
<1>2. CASE ~ Green
  <2>1. Len(setup.main) = 0 /\ mip > 0
    BY <1>2 DEF MainHolds, Green
  <2> QED
    BY <2>1 DEF Call
<1> QED
  BY <1>1, <1>2

LEMMA LaunchIs ==
  ASSUME MainHolds, Call[1] = "launch"
  PROVE  /\ Call[2] \in Thread /\ Call[3] \in Lcore /\ Master \in Lcore
         /\ Green /\ mip \in DOMAIN setup.main /\ Call = setup.main[mip]
         /\ \A i \in DOMAIN setup.main :
              setup.main[i][1] = "launch" /\ setup.main[i][2] = Call[2] => i = mip
         /\ \A c \in Lcore : \A j \in DOMAIN setup.root[c] : setup.root[c][j] # Call[2]
         /\ \A t \in Thread : \A j \in DOMAIN setup.prog[t] : Taken(setup.prog[t][j]) # Call[2]
         /\ \A j \in DOMAIN setup.prog[Call[2]] : setup.prog[Call[2]][j][1] # "_cancel"
<1>1. Green /\ WellUsed(setup) /\ mip \in DOMAIN setup.main /\ Call = setup.main[mip]
  BY CallIs
<1>2. /\ Master \in Lcore /\ Len(setup.main) \in Nat /\ DOMAIN setup.main = 1 .. Len(setup.main)
      /\ Call[2] \in Thread /\ RegisteredAt(setup, mip, Call[3])
  BY <1>1 DEF WellUsed
<1>3. Call[3] \in Lcore
  <2>1. PICK j \in 1 .. mip - 1 : setup.main[j][1] = "register" /\ setup.main[j][2] = Call[3]
    BY <1>2 DEF RegisteredAt
  <2>2. j \in DOMAIN setup.main
    BY <1>1, <1>2, <2>1
  <2> QED
    BY <1>1, <2>1, <2>2 DEF WellUsed
<1>4. /\ \A j \in DOMAIN setup.main :
           setup.main[j][1] = "launch" /\ setup.main[j][2] = setup.main[mip][2] => mip = j
      /\ \A c \in Lcore : \A j \in DOMAIN setup.root[c] : setup.root[c][j] # setup.main[mip][2]
      /\ \A t \in Thread : \A j \in DOMAIN setup.prog[t] : Taken(setup.prog[t][j]) # setup.main[mip][2]
      /\ \A j \in DOMAIN setup.prog[setup.main[mip][2]] : setup.prog[setup.main[mip][2]][j][1] # "_cancel"
  BY <1>1 DEF WellUsed
<1> QED
  BY <1>1, <1>2, <1>3, <1>4

LEMMA LaunchKeeps ==
  ASSUME PlacesInv, Launch
  PROVE  PlacesInv'
<1>1. PICK K, A : Stands(K, A)
  BY DEF PlacesInv
<1>2. /\ MainHolds /\ Placed(K, A) /\ ProgsHold(K) /\ JoinsHold(K) /\ sc \in [Lcore -> ScPlace]
      /\ ip \in [Thread -> Nat \ {0}] /\ pc = [t \in Thread |-> pc[t]] /\ setup \in Setup
  BY <1>1 DEF PlacesInv, Stands, Placed, LcoresHold, ProgsHold, MainHolds
<1>3. /\ Call[1] = "launch" /\ sc' = [sc EXCEPT ![Master] = "made"]
      /\ NewThread(Master, Call[2], Call[3]) /\ mip' = mip + 1 /\ mpc' = "call"
      /\ UNCHANGED <<lstate, remote, setup, cur, next, cb, sched, pend, join, joiner, timer, ip, pc, susp, un>>
  BY DEF Launch, Main, Done, Unscheduled, joinVars
<1>4. /\ Call[2] \in Thread /\ Call[3] \in Lcore /\ Master \in Lcore
      /\ Green /\ mip \in DOMAIN setup.main /\ Call = setup.main[mip]
      /\ \A i \in DOMAIN setup.main :
           setup.main[i][1] = "launch" /\ setup.main[i][2] = Call[2] => i = mip
      /\ \A c \in Lcore : \A j \in DOMAIN setup.root[c] : setup.root[c][j] # Call[2]
      /\ \A t \in Thread : \A j \in DOMAIN setup.prog[t] : Taken(setup.prog[t][j]) # Call[2]
      /\ \A j \in DOMAIN setup.prog[Call[2]] : setup.prog[Call[2]][j][1] # "_cancel"
  BY <1>2, <1>3, LaunchIs
<1>5. PICK x \in Thread, d \in Lcore : x = Call[2] /\ d = Call[3]
  BY <1>4
<1>6. ScSteps
  BY <1>2, <1>3, <1>4 DEF ScSteps, MainHolds, ScPlace
<1>7. /\ mip' \in Nat \ {0} /\ mip' >= mip
      /\ \A c \in Lcore : Exists(c) /\ sc[c] # "made" => Exists(c)' /\ sc'[c] # "made"
  BY <1>2, <1>3, <1>4 DEF MainHolds, Exists
<1>8. MainHolds'
  BY <1>2, <1>3, <1>4, <1>7 DEF MainHolds, Green
<1>9. ApartFromJoins /\ GoesOn
  BY <1>2, <1>3, <1>7 DEF ApartFromJoins, GoesOn
<1>10. CASE ~ Exists(d)
  <2>1. UNCHANGED <<state, queue>>
    BY <1>3, <1>5, <1>10 DEF NewThread
  <2>2. Placed(K, A)'
    BY <1>2, <1>3, <1>6, <2>1, ScMoves
  <2>3. JoinsHold(K)'
    BY <1>2, <1>9, JoinsKept
  <2>4. ProgsHold(K)'
    BY <1>2, <1>3, <1>9, ProgsKept DEF ProgsHold
  <2> QED
    BY <1>8, <2>2, <2>3, <2>4 DEF PlacesInv, Stands
<1>11. CASE Exists(d)
  <2>1. state' = [state EXCEPT ![x] = {"INIT"}] /\ ReadyInsert(Master, d, x)
    BY <1>3, <1>5, <1>11 DEF NewThread
  <2>2. PICK q \in {Ready(d), PReady(d)} : queue' = [queue EXCEPT ![q] = Append(@, x)]
    BY <2>1 DEF ReadyInsert, InsertMp
  <2>3. K[x] = "unborn"
    <3>1. ~ Born(x)
      <4>1. ~ \E i \in DOMAIN setup.main : i < mip /\ setup.main[i][1] = "launch" /\ setup.main[i][2] = x
        <5>1. mip \in Nat
          BY <1>2 DEF MainHolds
        <5> QED
          BY <1>4, <1>5, <5>1
      <4> QED
        BY <1>4, <1>5, <4>1 DEF Born
    <3> QED
      BY <1>2, <3>1 DEF ProgsHold
  <2>4. PICK K2, A2 : Moved(K, A, K2, A2, x, "queue", q)
    BY <1>2, <2>2, MoveThere, Spots, QueueNames DEF Placed, Kind
  <2>5. Placed(K2, A2)'
    <3>1. q \in {Ready(d), PReady(d)} /\ queue' = [queue EXCEPT ![q] = Append(@, x)]
      BY <2>2
    <3>2. UNCHANGED <<timer, un, cur, sched, pend, susp, next, cb>>
      BY <1>3
    <3>3. Placed(K, A) /\ K[x] = "unborn" /\ Exists(d) /\ state' = [state EXCEPT ![x] = {"INIT"}] /\ ScSteps
      BY <1>2, <1>6, <1>11, <2>1, <2>3
    <3>4. Moved(K, A, K2, A2, x, "queue", q)
      BY <2>4
    <3>5. UNCHANGED timer /\ UNCHANGED un /\ UNCHANGED cur /\ UNCHANGED sched /\ UNCHANGED pend /\ UNCHANGED susp
          /\ UNCHANGED next /\ UNCHANGED cb
      BY <3>2
    <3> QED
      BY <3>1, <3>3, <3>4, <3>5, Creates
  <2>6. (Born(x) /\ HasTarget(x))'
    <3>1. Born(x)'
      BY <1>2, <1>3, <1>4, <1>5 DEF Born, MainHolds
    <3>2. HasTarget(x)'
      BY <1>3, <1>4, <1>5 DEF HasTarget
    <3> QED
      BY <3>1, <3>2
  <2>7. /\ \A y \in Thread : K2[y] = "parked" <=> K[y] = "parked"
        /\ \A y \in Thread : K2[y] # "unborn" => K[y] # "unborn" \/ (Born(y) /\ HasTarget(y))'
    BY <2>3, <2>4, <2>6 DEF Moved
  <2>8. JoinsHold(K2)'
    BY <1>2, <1>9, <2>7, JoinsKept
  <2>9. ProgsHold(K2)'
    BY <1>2, <1>3, <1>9, <2>7, ProgsKept DEF ProgsHold
  <2> QED
    BY <1>8, <2>5, <2>8, <2>9 DEF PlacesInv, Stands
<1> QED
  BY <1>10, <1>11

LEMMA MainKeepsPlaces ==
  ASSUME PlacesInv, MainStep
  PROVE  PlacesInv'
<1>1. MainHolds /\ mip \in Nat \ {0}
  BY DEF PlacesInv, MainHolds
<1>2. CASE LaunchRefused \/ JoinMisses \/ UnregisterRefused
  BY <1>2, Untouching DEF LaunchRefused, JoinMisses, UnregisterRefused, Throw, Unscheduled, placeVars,
                          joinVars
<1>3. CASE Register \/ Registered \/ Join \/ Unregister \/ Unregistered
  <2>1. /\ UNCHANGED <<setup, queue, timer, un, cur, sc, sched, pend, susp, next, cb, join, joiner, state, pc, ip>>
        /\ mip' \in {mip, mip + 1}
    BY <1>3 DEF Register, Registered, Join, Unregister, Unregistered, lthreadVars, vars, schedVars,
                joinVars, Done, Here
  <2>2. MainHolds'
    <3>1. CASE Register
      <4>1. /\ Call[1] = "register" /\ remote' = [remote EXCEPT ![Call[2]] = "launched"]
            /\ mpc' = "registered" /\ UNCHANGED <<mip, lstate>>
        BY <3>1 DEF Register, Main, Here
      <4>2. Green /\ Call[2] \in Lcore \ {Master} /\ Master \in Lcore
        BY <1>1, <4>1, CallIs DEF WellUsed
      <4>3. remote'[Master] = remote[Master] /\ remote' = [c \in Lcore |-> remote'[c]]
        BY <1>1, <4>1, <4>2 DEF MainHolds
      <4> QED
        BY <1>1, <2>1, <4>1, <4>3 DEF MainHolds, Green, Call
    <3>2. CASE Registered
      <4>1. /\ Call[1] = "register" /\ lstate' = [lstate EXCEPT ![Call[2]] = "GREEN"]
            /\ mpc' = "call" /\ mip' = mip + 1 /\ UNCHANGED remote
        BY <1>1, <3>2 DEF Registered, MainAt, Done, MainHolds
      <4>2. Green /\ Call[2] \in Lcore \ {Master} /\ Master \in Lcore
        BY <1>1, <4>1, CallIs DEF WellUsed
      <4>3. lstate'[Master] = lstate[Master] /\ lstate' = [c \in Lcore |-> lstate'[c]]
        BY <1>1, <4>1, <4>2 DEF MainHolds
      <4> QED
        BY <1>1, <2>1, <4>1, <4>3 DEF MainHolds, Green
    <3>3. CASE Join
      BY <1>1, <2>1, <3>3 DEF Join, Done, MainHolds, Green
    <3>4. CASE Unregister
      BY <1>1, <2>1, <3>4 DEF Unregister, Here, MainHolds, Green
    <3>5. CASE Unregistered
      <4>1. /\ lstate' = [lstate EXCEPT ![Call[2]] = "FINISHED"]
            /\ mpc' = "call" /\ mip' = mip + 1 /\ UNCHANGED remote
        BY <3>5 DEF Unregistered, Done
      <4>2. Green => Master \in Lcore
        BY <1>1, GreenAssumption DEF MainHolds, Green, WellUsed
      <4>3. (Green => lstate'[Master] # "GREEN") /\ lstate' = [c \in Lcore |-> lstate'[c]]
        BY <1>1, <4>1, <4>2 DEF MainHolds
      <4> QED
        BY <1>1, <2>1, <4>1, <4>3 DEF MainHolds, Green
    <3> QED
      BY <1>3, <3>1, <3>2, <3>3, <3>4, <3>5
  <2> QED
    BY <1>1, <2>1, <2>2, MainMoves
<1> QED
  BY <1>2, <1>3, LaunchKeeps DEF MainStep

LEMMA LauncherKeepsPlaces ==
  ASSUME PlacesInv, NEW c \in Lcore, Launcher(c)
  PROVE  PlacesInv'
<1>1. MainHolds /\ mip \in Nat \ {0}
  BY DEF PlacesInv, MainHolds
<1>2. /\ remote[c] = "launched" /\ lstate' = [lstate EXCEPT ![c] = "NATIVE"]
      /\ remote' = [remote EXCEPT ![c] = "master"]
      /\ UNCHANGED <<setup, queue, timer, un, cur, sc, sched, pend, susp, next, cb, join, joiner, state, pc, ip>>
      /\ UNCHANGED <<mip, mpc>>
  BY DEF Launcher, lthreadVars, vars, schedVars, joinVars
<1>3. Green => Master \in Lcore /\ c # Master
  BY <1>1, <1>2, GreenAssumption DEF MainHolds, Green, WellUsed
<1>4. MainHolds'
  BY <1>1, <1>2, <1>3 DEF MainHolds, Green, Call
<1> QED
  BY <1>1, <1>2, <1>4, MainMoves

LEMMA PlacesStep ==
  ASSUME PlacesInv, [TlsNext]_threadVars
  PROVE  PlacesInv'
<1>1. ASSUME NEW c \in Lcore, GreenStep(c)
      PROVE  PlacesInv'
  <2>1. CASE MayStart(c) /\ LcoreStep(c) /\ UNCHANGED greenVars
    <3>1. CASE Link(c)
      BY <2>1, <3>1, Untouching DEF Link, placeVars, greenVars, schedVars, joinVars
    <3>2. CASE Idle(c) /\ Schedule(c)
      BY <2>1, <3>2, SchedulerKeepsPlaces DEF MayStart, Idle
    <3>3. ASSUME NEW t \in Thread, ThreadStep(c, t)
          PROVE  PlacesInv'
      BY <2>1, <3>3, ThreadKeepsPlaces
    <3> QED
      BY <2>1, <3>1, <3>2, <3>3 DEF LcoreStep
  <2> QED
    BY <1>1, <2>1, LauncherKeepsPlaces, GreenKeepsPlaces DEF GreenStep
<1>2. CASE UNCHANGED threadVars
  BY <1>2, Untouching DEF threadVars, allVars, vars, greenVars, schedVars, joinVars, placeVars
<1> QED
  BY <1>1, <1>2, MainKeepsPlaces, KeysKeepPlaces DEF TlsNext, TlsStep

LEMMA PlacesInit ==
  ASSUME TlsInit
  PROVE  PlacesInv
<1>1. Init /\ GreenInit
  BY DEF TlsInit, GreenInit
<1> DEFINE K == [t \in Thread |-> "unborn"]
           A == [t \in Thread |-> 0]
<1>2. K \in [Thread -> Kind] /\ A \in [Thread -> Spot] /\ \A t \in Thread : K[t] = "unborn"
  BY Spots DEF Kind
<1> HIDE DEF K, A
<1>3. QueuesHold(K, A)
  BY <1>1, <1>2 DEF Init, QueuesHold, Distinct, Has
<1>4. TimersHold(K, A) /\ WakersHold(K, A)
  BY <1>1, <1>2, Numbers DEF Init, TimersHold, WakersHold
<1>5. LcoresHold(K, A)
  BY <1>1, <1>2, Numbers DEF Init, LcoresHold, ScPlace
<1>6. SchedsHold(K, A)
  BY <1>1, <1>2, QueueNames DEF Init, SchedsHold, Nowhere, Ready, PReady
<1>7. StatesHold(K, A) /\ CallbacksHold
  BY <1>1, <1>2, QueueNames DEF Init, StatesHold, Sleepy, CallbacksHold, Blocking
<1>8. JoinsHold(K)
  BY <1>1, <1>2, Numbers DEF Init, JoinsHold, Ending, Waits
<1>9. ProgsHold(K)
  BY <1>1, <1>2 DEF Init, ProgsHold, Waking
<1>10. MainHolds
  BY <1>1, GreenAssumption DEF Init, GreenInit, MainHolds, WellUsed, Green
<1> QED
  BY <1>2, <1>3, <1>4, <1>5, <1>6, <1>7, <1>8, <1>9, <1>10 DEF PlacesInv, Stands, Placed

-----------------------------------------------------------------------------
LEMMA AtMostOne ==
  ASSUME NEW S, \A x, y \in S : x = y
  PROVE  Cardinality(S) <= 1
<1>1. CASE S = {}
  BY <1>1, FS_EmptySet
<1>2. CASE S # {}
  <2>1. PICK x \in S : TRUE
    BY <1>2
  <2>2. S = {x}
    BY <2>1
  <2> QED
    BY <2>2, FS_Singleton
<1> QED
  BY <1>1, <1>2

InQueue(t, x) == \E q \in QueueName : \E i \in 1 .. Len(queue[q]) : queue[q][i] = t /\ x = <<q, i>>
InTimer(t, x) == \E c \in Lcore : timer[t] = c /\ x = <<"timer", c>>
WithWaker(t, x) == \E u \in Thread : un[u] = t /\ x = <<"woken by", u>>

LEMMA PlacesAre ==
  ASSUME NEW t, NEW x
  PROVE  x \in Places(t) <=> InQueue(t, x) \/ InTimer(t, x) \/ WithWaker(t, x)
<1> DEFINE In(q) == {<<q, i>> : i \in {j \in 1 .. Len(queue[q]) : queue[q][j] = t}}
           Q == UNION {In(q) : q \in QueueName}
           T == {<<"timer", c>> : c \in {d \in Lcore : timer[t] = d}}
           W == {<<"woken by", u>> : u \in {v \in Thread : un[v] = t}}
<1>1. x \in Q <=> InQueue(t, x)
  <2>1. \A q : x \in In(q) <=> \E i \in 1 .. Len(queue[q]) : queue[q][i] = t /\ x = <<q, i>>
    OBVIOUS
  <2> HIDE DEF In
  <2>2. x \in Q <=> \E q \in QueueName : x \in In(q)
    OBVIOUS
  <2> HIDE DEF Q
  <2> QED
    BY <2>1, <2>2 DEF InQueue
<1>2. x \in T <=> InTimer(t, x)
  BY DEF InTimer
<1>3. x \in W <=> WithWaker(t, x)
  BY DEF WithWaker
<1>4. Places(t) = Q \cup T \cup W
  BY DEF Places
<1> HIDE DEF Q, T, W
<1> QED
  BY <1>1, <1>2, <1>3, <1>4

LEMMA PlacesAreOne ==
  ASSUME PlacesInv
  PROVE  OnePlace
<1>1. PICK K, A : Stands(K, A)
  BY DEF PlacesInv
<1>2. Placed(K, A) /\ JoinsHold(K)
  BY <1>1 DEF Stands
<1>3. ASSUME NEW t \in Thread
      PROVE  /\ Cardinality(On(t)) <= 1 /\ Cardinality(Places(t)) <= 1
             /\ \A c \in On(t) : sc[c] = "run" => Places(t) = {}
             /\ "FREED" \in state[t] => On(t) = {} /\ Places(t) = {}
             /\ Alive(t) => On(t) # {} \/ Places(t) # {} \/ Parked(t)
  <2>q. \A q \in QueueName : \A i \in 1 .. Len(queue[q]) : queue[q][i] = t =>
            /\ K[t] = "queue" /\ A[t] = q
            /\ \A j \in 1 .. Len(queue[q]) : queue[q][j] = t => j = i
    BY <1>2 DEF Placed, QueuesHold, Has, Distinct
  <2>p. ASSUME NEW x, x \in Places(t)
        PROVE  \/ /\ K[t] = "queue" /\ A[t] \in QueueName
                  /\ \E i \in 1 .. Len(queue[A[t]]) : x = <<A[t], i>> /\ queue[A[t]][i] = t
               \/ K[t] = "timer" /\ x = <<"timer", timer[t]>>
               \/ K[t] = "un" /\ x = <<"woken by", A[t]>>
    <3>1. InQueue(t, x) \/ InTimer(t, x) \/ WithWaker(t, x)
      BY <2>p, PlacesAre
    <3>2. CASE InQueue(t, x)
      BY <2>q, <3>2 DEF InQueue
    <3>3. CASE InTimer(t, x)
      <4>1. timer[t] # -1 /\ x = <<"timer", timer[t]>>
        BY <3>3, Numbers DEF InTimer
      <4> QED
        BY <1>2, <4>1 DEF Placed, TimersHold
    <3>4. CASE WithWaker(t, x)
      BY <1>2, <3>4 DEF Placed, WakersHold, WithWaker
    <3> QED
      BY <3>1, <3>2, <3>3, <3>4
  <2>1. Cardinality(Places(t)) <= 1
    <3>1. ASSUME NEW x \in Places(t), NEW y \in Places(t)
          PROVE  x = y
      <4>1. /\ \/ K[t] = "queue" /\ \E i \in 1 .. Len(queue[A[t]]) : x = <<A[t], i>> /\ queue[A[t]][i] = t
               \/ K[t] = "timer" /\ x = <<"timer", timer[t]>>
               \/ K[t] = "un" /\ x = <<"woken by", A[t]>>
            /\ \/ K[t] = "queue" /\ \E i \in 1 .. Len(queue[A[t]]) : y = <<A[t], i>> /\ queue[A[t]][i] = t
               \/ K[t] = "timer" /\ y = <<"timer", timer[t]>>
               \/ K[t] = "un" /\ y = <<"woken by", A[t]>>
        BY <2>p
      <4>2. CASE K[t] = "queue"
        <5>1. A[t] \in QueueName
          BY <1>2, <4>2 DEF Placed, QueuesHold
        <5> QED
          BY <2>q, <4>1, <4>2, <5>1
      <4>3. CASE K[t] = "timer"
        <5>1. x = <<"timer", timer[t]>> /\ y = <<"timer", timer[t]>>
          BY <4>1, <4>3
        <5> QED
          BY <5>1
      <4>4. CASE K[t] = "un"
        <5>1. x = <<"woken by", A[t]>> /\ y = <<"woken by", A[t]>>
          BY <4>1, <4>4
        <5> QED
          BY <5>1
      <4> QED
        BY <4>1, <4>2, <4>3, <4>4
    <3> QED
      BY <3>1, AtMostOne
  <2>2. ASSUME NEW c \in On(t)
        PROVE  /\ c \in Lcore /\ cur[c] = t
               /\ \/ sc[c] = "run" /\ K[t] = "on" /\ A[t] = c /\ sched[t] = c
                  \/ sc[c] = "back" /\ pend[t] # Nowhere /\ K[t] = "pend" /\ A[t] = c
                  \/ sc[c] = "back" /\ pend[t] = Nowhere /\ K[t] # "freed" /\ sched[t] = c
    <3>1. c \in Lcore /\ cur[c] = t /\ sc[c] \in {"run", "back"}
      BY <1>2, Numbers DEF On, Placed, LcoresHold
    <3> QED
      BY <1>2, <3>1 DEF Placed, LcoresHold, SchedsHold
  <2>3. Cardinality(On(t)) <= 1
    <3>1. ASSUME NEW c \in On(t), NEW d \in On(t)
          PROVE  c = d
      <4>1. CASE sc[c] = "run" /\ K[t] = "on" /\ A[t] = c /\ sched[t] = c
        <5>1. K[t] = "on" => A[t] = d \/ sched[t] = d
          BY <2>2
        <5> QED
          BY <4>1, <5>1
      <4>2. CASE sc[c] = "back" /\ pend[t] # Nowhere /\ K[t] = "pend" /\ A[t] = c
        <5>1. pend[t] # Nowhere /\ K[t] = "pend" => A[t] = d
          BY <2>2
        <5> QED
          BY <4>2, <5>1
      <4>3. CASE sc[c] = "back" /\ pend[t] = Nowhere /\ K[t] # "freed" /\ sched[t] = c
        <5>1. pend[t] = Nowhere => sched[t] = d
          BY <2>2
        <5> QED
          BY <4>3, <5>1
      <4> QED
        BY <2>2, <4>1, <4>2, <4>3
    <3> QED
      BY <3>1, AtMostOne
  <2>4. \A c \in On(t) : sc[c] = "run" => Places(t) = {}
    BY <2>p, <2>2
  <2>5. "FREED" \in state[t] => On(t) = {} /\ Places(t) = {}
    <3>1. "FREED" \in state[t] => K[t] = "freed"
      BY <1>2 DEF Placed, StatesHold
    <3> QED
      BY <2>p, <2>2, <3>1
  <2>6. ASSUME Alive(t)
        PROVE  On(t) # {} \/ Places(t) # {} \/ Parked(t)
    <3>1. K[t] \in Kind \ {"unborn", "freed"}
      BY <1>2, <2>6 DEF Placed, StatesHold, Alive
    <3>2. CASE K[t] = "queue"
      <4>1. A[t] \in QueueName /\ Has(queue[A[t]], t)
        BY <1>2, <3>2 DEF Placed, QueuesHold
      <4>2. PICK i \in 1 .. Len(queue[A[t]]) : queue[A[t]][i] = t
        BY <4>1 DEF Has
      <4>3. <<A[t], i>> \in Places(t)
        BY <4>1, <4>2, PlacesAre DEF InQueue
      <4> QED
        BY <4>3
    <3>3. CASE K[t] = "timer"
      <4>1. timer[t] \in Lcore
        BY <1>2, <3>3 DEF Placed, TimersHold, SchedsHold
      <4>2. <<"timer", timer[t]>> \in Places(t)
        BY <4>1, PlacesAre DEF InTimer, WithWaker
      <4> QED
        BY <4>2
    <3>4. CASE K[t] = "un"
      <4>1. A[t] \in Thread /\ un[A[t]] = t
        BY <1>2, <3>4 DEF Placed, WakersHold
      <4>2. <<"woken by", A[t]>> \in Places(t)
        BY <4>1, PlacesAre DEF InTimer, WithWaker
      <4> QED
        BY <4>2
    <3>5. CASE K[t] = "parked"
      BY <1>2, <3>5 DEF Placed, StatesHold, Sleepy, JoinsHold, Parked
    <3>6. CASE K[t] \in {"on", "pend"}
      <4>1. A[t] \in Lcore /\ cur[A[t]] = t
        BY <1>2, <3>6 DEF Placed, LcoresHold
      <4> QED
        BY <4>1 DEF On
    <3> QED
      BY <3>1, <3>2, <3>3, <3>4, <3>5, <3>6 DEF Kind
  <2> QED
    BY <2>1, <2>3, <2>4, <2>5, <2>6
<1> QED
  BY <1>3 DEF OnePlace

(* lthread_sched.c, lthread_queue.h and lthread.c: a struct lthread is in  *)
(* one queue, timer, waker or lcore at a time, however lcores interleave;  *)
(* the deferred write of _suspend and set_affinity is what this rests on.  *)
THEOREM ThreadsAreInOnePlace == TlsSpec => []OnePlace
<1>1. TlsInit => PlacesInv
  BY PlacesInit
<1>2. PlacesInv /\ [TlsNext]_threadVars => PlacesInv'
  BY PlacesStep
<1>3. PlacesInv => OnePlace
  BY PlacesAreOne
<1> QED
  BY <1>1, <1>2, <1>3, PTL DEF TlsSpec

-----------------------------------------------------------------------------
(* State bits and counts: the invariant next to the places.               *)

(* Programs that detach themselves before they sleep, whoever has detached *)
(* himself, been asleep, or is the target of a cancel.                     *)
Guarded(t) ==
  \A j \in DOMAIN setup.prog[t] : setup.prog[t][j][1] \in SleepOps =>
    \E k \in 1 .. j - 1 : setup.prog[t][k][1] = "detach"
Detached(t) == \E k \in DOMAIN setup.prog[t] : k < ip[t] /\ setup.prog[t][k][1] = "detach"
HasSlept(t) == \E j \in DOMAIN setup.prog[t] : j <= ip[t] /\ setup.prog[t][j][1] \in SleepOps
Cancelled(t) ==
  \E u \in Thread : \E i \in DOMAIN setup.prog[u] :
    setup.prog[u][i][1] = "cancel" /\ setup.prog[u][i][2] = t
Awake == \A t \in Thread : \A j \in DOMAIN setup.prog[t] : setup.prog[t][j][1] \notin SleepOps
Over == {"DETACH", "EXITED"}
AtOnce == {"detach", "create", "set", "key_create"}

(* What the state bits and the places in programs say of each other.  Only *)
(* the timer callback takes a bit away from a thread that lives, so DETACH *)
(* is kept by who had it before his first sleep.                           *)
ThreadMarks(t) ==
  /\ Op(t)[1] \in AtOnce => pc[t] = "op"
  /\ pc[t] \in {"dummy", "slept"} => Op(t)[1] = "dummy"
  /\ timer[t] # -1 => HasSlept(t)
  /\ Guarded(t) /\ Detached(t) => state[t] \cap {"DETACH", "FREED"} # {}
  /\ "CANCELLED" \in state[t] => Cancelled(t)
  /\ \A c \in Lcore : pend[t] = PReady(c) => Does(t, "affinity")
  /\ Awake /\ pc[t] \in {"leave", "left"} => "FREED" \in state[t] \/ Over \subseteq state[t]
  /\ Awake /\ pc[t] = "left" => \A c \in Lcore : sc[c] = "run" => cur[c] # t
CallbackMarks(c) ==
  sc[c] = "timer" \/ next[c] = "timer" =>
    /\ HasSlept(cb[c][1])
    /\ Guarded(cb[c][1]) => "DETACH" \in cb[c][2]
    /\ "CANCELLED" \in cb[c][2] => Cancelled(cb[c][1])
MarksHold ==
  /\ \A t \in Thread : ThreadMarks(t)
  /\ \A c \in Lcore : CallbackMarks(c)

-----------------------------------------------------------------------------
(* What the step of a running thread does, in the program, to the bits and *)
(* to the counts. *)
PcTo(c, t, p) ==
  /\ pc' = [pc EXCEPT ![t] = p]
  /\ \/ /\ ip' = [ip EXCEPT ![t] = @ + 1] /\ p = "op"
        /\ Op(t)[1] = "detach" => "DETACH" \in state'[t]
        /\ Op(t)[1] = "create" /\ mishap' = "none" => state'[Op(t)[2]] # {}
     \/ /\ UNCHANGED ip
        /\ Op(t)[1] \in AtOnce => p = "op"
        /\ p \in {"dummy", "slept"} => Op(t)[1] = "dummy"
        /\ p = "leave" => Over \subseteq state'[t]
        /\ p = "left" => pc[t] = "leave" /\ sc' = [sc EXCEPT ![c] = "back"]
PcStep(c, t) == \E p : PcTo(c, t, p)

StateStep(t) ==
  /\ \A x \in Thread : state[x] \subseteq state'[x]
  /\ \A x \in Thread : "CANCELLED" \in state'[x] => "CANCELLED" \in state[x] \/ Cancelled(x)

CountStep(c, t) ==
  \/ UNCHANGED <<sched, susp, nb>>
  \/ /\ nb' = [nb EXCEPT ![c] = @ + 1] /\ susp' = [susp EXCEPT ![t] = TRUE]
     /\ UNCHANGED sched
  \/ /\ Op(t)[1] = "affinity" /\ pc[t] = "op" /\ \E d \in Lcore : sched' = [sched EXCEPT ![t] = d]
     /\ UNCHANGED <<susp, nb>>

PlaceStep(c, t) ==
  /\ UNCHANGED sc \/ sc' = [sc EXCEPT ![c] = "back"]
  /\ \/ UNCHANGED timer
     \/ Op(t)[1] \in SleepOps /\ timer' = [timer EXCEPT ![t] = c]
  /\ \/ UNCHANGED pend
     \/ \E q \in QueueName : /\ pend' = [pend EXCEPT ![t] = q]
                             /\ q \in Blocking \/ Op(t)[1] = "affinity"

Acts(c, t) ==
  /\ Running(c, t) /\ UNCHANGED <<setup, cur, next, cb, active, num>>
  /\ PcStep(c, t) /\ StateStep(t) /\ CountStep(c, t) /\ PlaceStep(c, t)

LEMMA StateIs ==
  ASSUME PlacesInv
  PROVE  state = [x \in Thread |-> state[x]]
BY DEF PlacesInv, Stands, Placed, StatesHold

LEMMA PcSteps ==
  ASSUME PlacesInv, NEW c \in Lcore, NEW t \in Thread, ThreadStep(c, t), ~ Derail(c, t),
         Op(t)[1] \in AtOnce => pc[t] = "op"
  PROVE  PcStep(c, t)
<1>0. state = [x \in Thread |-> state[x]] /\ pc = [x \in Thread |-> pc[x]]
  BY StateIs DEF PlacesInv, Stands, ProgsHold
<1> USE DEF PcStep, PcTo, Calls, At, Goto, Advance, Over, AtOnce
<1>1. CASE Yield(c, t) \/ Sleep(c, t) \/ SetAffinity(c, t) \/ Detach(c, t)
  BY <1>0, <1>1 DEF Yield, Sleep, SetAffinity, Detach
<1>2. CASE Cancel(c, t) \/ CancelTasklet(c, t) \/ ShutdownAll(c, t)
  BY <1>2 DEF Cancel, CancelTasklet, ShutdownAll
<1>n. CASE Create(c, t)
  <2>1. /\ Running(c, t) /\ Op(t)[1] = "create" /\ NewThread(c, Op(t)[2], Op(t)[3])
        /\ pc' = [pc EXCEPT ![t] = "op"] /\ ip' = [ip EXCEPT ![t] = @ + 1]
    BY <1>n DEF Create, Running
  <2>2. Op(t)[2] \in Thread
    BY <2>1, OpIs, RunningIs DEF PlacesInv, MainHolds, WellNamed
  <2>3. mishap' = "none" => state'[Op(t)[2]] # {}
    BY <1>0, <2>1, <2>2 DEF NewThread
  <2>4. PcTo(c, t, "op")
    BY <2>1, <2>3
  <2> HIDE DEF PcTo
  <2> QED
    BY <2>4
<1>3. CASE Return(c, t)
  <2>1. state'[t] = state[t] \cup {"EXITED"}
    BY <1>0, <1>3 DEF Return
  <2>2. /\ UNCHANGED ip /\ Op(t)[1] = "return" /\ pc' = [pc EXCEPT ![t] = pc'[t]]
        /\ pc'[t] = IF "DETACH" \in state[t] THEN "leave" ELSE "exit"
    BY <1>0, <1>3 DEF Return
  <2> QED
    BY <2>1, <2>2
<1>4. CASE ExitCollected(c, t)
  <2>1. Over \subseteq state'[t]
    BY <1>0, <1>4 DEF ExitCollected
  <2> QED
    BY <1>4, <2>1 DEF ExitCollected
<1>5. CASE ExitCall(c, t) \/ ExitFirst(c, t) \/ ExitResumed(c, t) \/ ExitSecond(c, t)
           \/ ExitWakes(c, t) \/ ExitWaits(c, t)
  BY <1>5 DEF ExitCall, ExitFirst, ExitResumed, ExitSecond, ExitWakes, ExitWaits, Reschedule
<1>6. CASE Leave(c, t)
  <2>1. /\ UNCHANGED ip /\ pc[t] = "leave" /\ pc' = [pc EXCEPT ![t] = "left"]
        /\ sc' = [sc EXCEPT ![c] = "back"]
    BY <1>6 DEF Leave, Reschedule, Switch
  <2>2. Op(t)[1] \notin AtOnce
    BY <2>1
  <2>3. PcTo(c, t, "left")
    BY <2>1, <2>2
  <2> HIDE DEF PcTo
  <2> QED
    BY <2>3
<1>7. CASE JoinCall(c, t) \/ JoinFirst(c, t) \/ JoinSecond(c, t) \/ JoinWaits(c, t)
           \/ JoinCollects(c, t)
  BY <1>7 DEF JoinCall, JoinFirst, JoinSecond, JoinWaits, JoinCollects, Reschedule
<1>8. CASE LockCall(c, t) \/ LockCas(c, t) \/ LockCount(c, t) \/ LockOwner(c, t)
           \/ TrylockCall(c, t) \/ TrylockCas(c, t) \/ TrylockBusy(c, t)
  BY <1>8 DEF LockCall, LockCas, LockCount, LockOwner, TrylockCall, TrylockCas, TrylockBusy, Block
<1>9. CASE UnlockCall(c, t) \/ UnlockCheck(c, t) \/ UnlockRemove(c, t) \/ UnlockWakes(c, t)
           \/ UnlockReleases(c, t)
  BY <1>9 DEF UnlockCall, UnlockCheck, UnlockRemove, UnlockWakes, UnlockReleases, Remove
<1>10. CASE CondWait(c, t) \/ CondSignal(c, t) \/ CondSignals(c, t)
            \/ CondBroadcast(c, t) \/ CondBroadcasts(c, t) \/ CondYields(c, t)
  BY <1>10 DEF CondWait, CondSignal, CondSignals, CondBroadcast, CondBroadcasts, CondYields, Remove
<1> QED
  BY <1>1, <1>2, <1>n, <1>3, <1>4, <1>5, <1>6, <1>7, <1>8, <1>9, <1>10 DEF ThreadStep

LEMMA TaskletOfCancel ==
  ASSUME PlacesInv, NEW c \in Lcore, NEW t \in Thread, Running(c, t), Op(t)[1] = "_cancel"
  PROVE  Op(t)[2] \in Thread /\ Cancelled(Op(t)[2])
<1>1. PICK K, A : Stands(K, A)
  BY DEF PlacesInv
<1>2. /\ ip[t] \in DOMAIN setup.prog[t] /\ Op(t) = setup.prog[t][ip[t]] /\ Op(t)[2] \in Thread
  BY OpIs, RunningIs DEF PlacesInv, MainHolds, WellNamed
<1>3. K[t] = "on" /\ Born(t)
  BY <1>1, OnIs DEF Stands, Running, ProgsHold
<1>4. OnlyTasklets(setup)
  BY LthreadAssumption DEF PlacesInv, MainHolds
<1>5. CASE \E d \in Lcore : Exists(d) /\ sc[d] # "made" /\ \E i \in DOMAIN setup.root[d] : setup.root[d][i] = t
  BY <1>2, <1>4, <1>5 DEF OnlyTasklets
<1>6. CASE \E u \in Thread : \E i \in DOMAIN setup.prog[u] : i < ip[u] /\ Taken(setup.prog[u][i]) = t
  BY <1>2, <1>4, <1>6 DEF OnlyTasklets, Cancelled
<1>7. CASE \E i \in DOMAIN setup.main : i < mip /\ setup.main[i][1] = "launch" /\ setup.main[i][2] = t
  <2>1. setup.main # <<>>
    BY <1>7
  <2>2. PICK i \in DOMAIN setup.main : setup.main[i][1] = "launch" /\ setup.main[i][2] = t
    BY <1>7
  <2>3. WellUsed(setup)
    BY <2>1, GreenAssumption DEF PlacesInv, MainHolds
  <2>4. \A j \in DOMAIN setup.prog[setup.main[i][2]] : setup.prog[setup.main[i][2]][j][1] # "_cancel"
    BY <2>2, <2>3 DEF WellUsed
  <2> QED
    BY <1>2, <2>2, <2>4
<1> QED
  BY <1>2, <1>3, <1>5, <1>6, <1>7 DEF Born

-----------------------------------------------------------------------------
(* What the step of a running thread does to bits and counts.             *)

LEMMA Grows ==
  ASSUME PlacesInv, NEW x \in Thread, NEW S, state' = [state EXCEPT ![x] = @ \cup S],
         "CANCELLED" \notin S \/ Cancelled(x), NEW t
  PROVE  StateStep(t)
BY StateIs DEF StateStep

(* A struct that is taken has no bits. *)
LEMMA TakenHasNoBits ==
  ASSUME PlacesInv, NEW t \in Thread, NEW x \in Thread, Op(t)[1] \in {"create", "cancel"},
         Taken(Op(t)) = x
  PROVE  state[x] = {}
<1>1. PICK K, A : Stands(K, A)
  BY DEF PlacesInv
<1>2. K[x] = "unborn"
  BY <1>1, TakesUnborn DEF PlacesInv, Stands
<1> QED
  BY <1>1, <1>2 DEF Stands, Placed, StatesHold

LEMMA StateOfNew ==
  ASSUME PlacesInv, NEW t \in Thread, NEW x \in Thread, Op(t)[1] \in {"create", "cancel"},
         Taken(Op(t)) = x, NEW c, NEW d, NewThread(c, x, d)
  PROVE  StateStep(t)
BY TakenHasNoBits, StateIs DEF StateStep, NewThread

LEMMA StateSteps ==
  ASSUME PlacesInv, NEW c \in Lcore, NEW t \in Thread, ThreadStep(c, t)
  PROVE  StateStep(t)
<1>0. ASSUME UNCHANGED state PROVE StateStep(t)
  BY <1>0 DEF StateStep
<1>1. CASE Yield(c, t) \/ SetAffinity(c, t) \/ ShutdownAll(c, t)
  BY <1>0, <1>1 DEF Yield, SetAffinity, ShutdownAll
<1>2. CASE Sleep(c, t)
  <2>1. state' = [state EXCEPT ![t] = @ \cup {"SLEEPING"}]
    BY <1>2 DEF Sleep
  <2>2. "CANCELLED" \notin {"SLEEPING"}
    OBVIOUS
  <2> QED
    BY <2>1, <2>2, Grows
<1>3. CASE Detach(c, t) \/ Return(c, t)
  BY <1>3, Grows DEF Detach, Return
<1>4. CASE Create(c, t)
  <2>1. Calls(c, t, "create") /\ NewThread(c, Op(t)[2], Op(t)[3]) /\ Op(t)[1] = "create"
    BY <1>4 DEF Create, Calls
  <2>2. ip[t] \in Nat \ {0} /\ setup \in Setup
    BY <2>1, RunningIs DEF Calls, At, Running, PlacesInv, MainHolds
  <2>3. Op(t)[2] \in Thread /\ Taken(Op(t)) = Op(t)[2]
    BY <2>1, <2>2, OpIs DEF WellNamed, Taken
  <2> QED
    BY <2>1, <2>3, StateOfNew
<1>5. CASE Cancel(c, t)
  <2>1. Calls(c, t, "cancel") /\ Op(t)[1] = "cancel"
    BY <1>5 DEF Cancel, Calls
  <2>2. ip[t] \in Nat \ {0} /\ setup \in Setup
    BY <2>1, RunningIs DEF Calls, At, Running, PlacesInv, MainHolds
  <2>3. Op(t)[2] \in Thread /\ Op(t)[3] \in Thread /\ Taken(Op(t)) = Op(t)[3]
        /\ ip[t] \in DOMAIN setup.prog[t] /\ Op(t) = setup.prog[t][ip[t]]
    BY <2>1, <2>2, OpIs DEF WellNamed, Taken
  <2>4. Cancelled(Op(t)[2])
    BY <2>1, <2>3 DEF Cancelled
  <2>5. CASE sched[Op(t)[2]] = c
    BY <1>5, <2>3, <2>4, <2>5, Grows DEF Cancel
  <2>6. CASE sched[Op(t)[2]] # c /\ sched[Op(t)[2]] = -1
    BY <1>0, <1>5, <2>6 DEF Cancel
  <2>7. CASE sched[Op(t)[2]] # c /\ sched[Op(t)[2]] # -1
    <3>1. NewThread(c, Op(t)[3], sched[Op(t)[2]])
      BY <1>5, <2>7 DEF Cancel
    <3> QED
      BY <2>1, <2>3, <3>1, StateOfNew
  <2> QED
    BY <2>5, <2>6, <2>7
<1>6. CASE CancelTasklet(c, t)
  <2>1. Op(t)[2] \in Thread /\ Cancelled(Op(t)[2])
    BY <1>6, TaskletOfCancel DEF CancelTasklet, Calls, At, Running
  <2> QED
    BY <1>6, <2>1, StateIs DEF CancelTasklet, StateStep
<1>7. CASE ExitCall(c, t) \/ ExitFirst(c, t) \/ ExitResumed(c, t) \/ ExitSecond(c, t)
           \/ ExitWakes(c, t) \/ ExitWaits(c, t) \/ Leave(c, t) \/ Derail(c, t)
  BY <1>0, <1>7 DEF ExitCall, ExitFirst, ExitResumed, ExitSecond, ExitWakes, ExitWaits, Leave,
                    Reschedule, Derail
<1>8. CASE ExitCollected(c, t)
  <2>1. state' = [state EXCEPT ![t] = @ \cup {"DETACH", "EXITED"}]
    BY <1>8 DEF ExitCollected
  <2>2. "CANCELLED" \notin {"DETACH", "EXITED"}
    OBVIOUS
  <2> QED
    BY <2>1, <2>2, Grows
<1>9. CASE JoinCall(c, t) \/ JoinFirst(c, t) \/ JoinSecond(c, t) \/ JoinWaits(c, t)
           \/ JoinCollects(c, t)
  BY <1>0, <1>9 DEF JoinCall, JoinFirst, JoinSecond, JoinWaits, JoinCollects, Reschedule
<1>10. CASE LockCall(c, t) \/ LockCas(c, t) \/ LockCount(c, t) \/ LockOwner(c, t)
            \/ TrylockCall(c, t) \/ TrylockCas(c, t) \/ TrylockBusy(c, t)
  BY <1>0, <1>10 DEF LockCall, LockCas, LockCount, LockOwner, TrylockCall, TrylockCas, TrylockBusy
<1>11. CASE UnlockCall(c, t) \/ UnlockCheck(c, t) \/ UnlockRemove(c, t) \/ UnlockWakes(c, t)
            \/ UnlockReleases(c, t)
  BY <1>0, <1>11 DEF UnlockCall, UnlockCheck, UnlockRemove, UnlockWakes, UnlockReleases, Remove, Wake
<1>12. CASE CondWait(c, t) \/ CondSignal(c, t) \/ CondSignals(c, t)
            \/ CondBroadcast(c, t) \/ CondBroadcasts(c, t) \/ CondYields(c, t)
  BY <1>0, <1>12 DEF CondWait, CondSignal, CondSignals, CondBroadcast, CondBroadcasts, CondYields,
                     Remove, Wake
<1> QED
  BY <1>1, <1>2, <1>3, <1>4, <1>5, <1>6, <1>7, <1>8, <1>9, <1>10, <1>11, <1>12 DEF ThreadStep

LEMMA CountSteps ==
  ASSUME PlacesInv, NEW c \in Lcore, NEW t \in Thread, ThreadStep(c, t)
  PROVE  CountStep(c, t)
<1>0. CASE Derail(c, t)
  BY <1>0 DEF CountStep, Derail
<1>1. CASE Yield(c, t) \/ Detach(c, t) \/ Create(c, t) \/ Cancel(c, t) \/ CancelTasklet(c, t)
           \/ ShutdownAll(c, t) \/ Return(c, t)
  BY <1>1 DEF CountStep, Yield, Detach, Create, Cancel, CancelTasklet, ShutdownAll, Return, Stay, Switch
<1>2. CASE Sleep(c, t)
  BY <1>2 DEF CountStep, Sleep, Suspend
<1>3. CASE SetAffinity(c, t)
  <2>1. Op(t)[2] \in Lcore /\ Op(t)[1] = "affinity" /\ pc[t] = "op"
    <3>1. Op(t)[1] = "affinity" /\ Running(c, t) /\ pc[t] = "op"
      BY <1>3 DEF SetAffinity, Calls, At, Running
    <3>2. ip[t] \in Nat \ {0} /\ setup \in Setup
      BY <3>1, RunningIs DEF PlacesInv, MainHolds
    <3> QED
      BY <3>1, <3>2, OpIs DEF WellNamed
  <2> QED
    BY <1>3, <2>1 DEF CountStep, SetAffinity, Stay, Switch
<1>4. CASE ExitCall(c, t) \/ ExitResumed(c, t) \/ ExitSecond(c, t)
           \/ ExitWakes(c, t) \/ ExitWaits(c, t) \/ Leave(c, t) \/ ExitCollected(c, t)
  BY <1>4 DEF CountStep, ExitCall, ExitResumed, ExitSecond, ExitWakes, ExitWaits, Leave,
              Reschedule, ExitCollected, Stay, Switch
<1>5. CASE ExitFirst(c, t)
  BY <1>5 DEF CountStep, ExitFirst, Suspend
<1>6. CASE JoinCall(c, t) \/ JoinSecond(c, t) \/ JoinWaits(c, t) \/ JoinCollects(c, t)
  BY <1>6 DEF CountStep, JoinCall, JoinSecond, JoinWaits, JoinCollects, Reschedule, Stay, Switch
<1>7. CASE JoinFirst(c, t)
  BY <1>7 DEF CountStep, JoinFirst, Suspend
<1>8. CASE LockCall(c, t) \/ LockCas(c, t) \/ TrylockCall(c, t) \/ TrylockCas(c, t) \/ TrylockBusy(c, t)
  BY <1>8 DEF CountStep, LockCall, LockCas, TrylockCall, TrylockCas, TrylockBusy, Stay
<1>9. CASE LockCount(c, t) \/ LockOwner(c, t)
  BY <1>9 DEF CountStep, LockCount, LockOwner, Block, Suspend, Stay
<1>10. CASE UnlockCall(c, t) \/ UnlockCheck(c, t) \/ UnlockRemove(c, t) \/ UnlockWakes(c, t)
            \/ UnlockReleases(c, t)
  BY <1>10 DEF CountStep, UnlockCall, UnlockCheck, UnlockRemove, UnlockWakes, UnlockReleases,
               Remove, Wake, Stay
<1>11. CASE CondWait(c, t)
  BY <1>11 DEF CountStep, CondWait, Suspend
<1>12. CASE CondSignal(c, t) \/ CondSignals(c, t)
            \/ CondBroadcast(c, t) \/ CondBroadcasts(c, t) \/ CondYields(c, t)
  BY <1>12 DEF CountStep, CondSignal, CondSignals, CondBroadcast, CondBroadcasts, CondYields,
               Remove, Wake, Stay, Switch
<1> QED
  BY <1>0, <1>1, <1>2, <1>3, <1>4, <1>5, <1>6, <1>7, <1>8, <1>9, <1>10, <1>11, <1>12 DEF ThreadStep

LEMMA PlaceSteps ==
  ASSUME PlacesInv, NEW c \in Lcore, NEW t \in Thread, ThreadStep(c, t)
  PROVE  PlaceStep(c, t)
<1>0. CASE Derail(c, t)
  BY <1>0 DEF PlaceStep, Derail, schedVars
<1>1. CASE Yield(c, t) \/ Detach(c, t) \/ Create(c, t) \/ Cancel(c, t) \/ CancelTasklet(c, t)
           \/ ShutdownAll(c, t) \/ Return(c, t)
  BY <1>1 DEF PlaceStep, Yield, Detach, Create, Cancel, CancelTasklet, ShutdownAll, Return, Stay, Switch
<1>2. CASE Sleep(c, t)
  BY <1>2 DEF PlaceStep, Sleep, Suspend, SleepOps, Calls
<1>3. CASE SetAffinity(c, t)
  <2>1. PReady(Op(t)[2]) \in QueueName /\ Op(t)[1] = "affinity"
    <3>1. Op(t)[1] = "affinity" /\ Running(c, t)
      BY <1>3 DEF SetAffinity, Calls, At, Running
    <3>2. ip[t] \in Nat \ {0} /\ setup \in Setup
      BY <3>1, RunningIs DEF PlacesInv, MainHolds
    <3> QED
      BY <3>1, <3>2, OpIs DEF WellNamed, QueueName
  <2>2. UNCHANGED timer /\ (UNCHANGED sc \/ sc' = [sc EXCEPT ![c] = "back"])
        /\ (UNCHANGED pend \/ pend' = [pend EXCEPT ![t] = PReady(Op(t)[2])])
    BY <1>3 DEF SetAffinity, Stay, Switch
  <2> QED
    BY <2>1, <2>2 DEF PlaceStep
<1>4. CASE ExitCall(c, t) \/ ExitResumed(c, t) \/ ExitSecond(c, t)
           \/ ExitWakes(c, t) \/ ExitWaits(c, t) \/ Leave(c, t) \/ ExitCollected(c, t)
  BY <1>4 DEF PlaceStep, ExitCall, ExitResumed, ExitSecond, ExitWakes, ExitWaits, Leave,
              Reschedule, ExitCollected, Stay, Switch
<1>5. CASE ExitFirst(c, t)
  BY <1>5 DEF PlaceStep, ExitFirst, Suspend
<1>6. CASE JoinCall(c, t) \/ JoinSecond(c, t) \/ JoinWaits(c, t) \/ JoinCollects(c, t)
  BY <1>6 DEF PlaceStep, JoinCall, JoinSecond, JoinWaits, JoinCollects, Reschedule, Stay, Switch
<1>7. CASE JoinFirst(c, t)
  BY <1>7 DEF PlaceStep, JoinFirst, Suspend
<1>8. CASE LockCall(c, t) \/ LockCas(c, t) \/ TrylockCall(c, t) \/ TrylockCas(c, t) \/ TrylockBusy(c, t)
  BY <1>8 DEF PlaceStep, LockCall, LockCas, TrylockCall, TrylockCas, TrylockBusy, Stay
<1>9. CASE LockCount(c, t) \/ LockOwner(c, t)
  <2>1. UNCHANGED timer /\ (UNCHANGED sc \/ sc' = [sc EXCEPT ![c] = "back"])
        /\ (UNCHANGED pend \/ pend' = [pend EXCEPT ![t] = Mutex])
    BY <1>9 DEF LockCount, LockOwner, Block, Suspend, Stay
  <2> QED
    BY <2>1, QueueNames DEF PlaceStep, Blocking
<1>10. CASE UnlockCall(c, t) \/ UnlockCheck(c, t) \/ UnlockRemove(c, t) \/ UnlockWakes(c, t)
            \/ UnlockReleases(c, t)
  BY <1>10 DEF PlaceStep, UnlockCall, UnlockCheck, UnlockRemove, UnlockWakes, UnlockReleases,
               Remove, Wake, Stay
<1>11. CASE CondWait(c, t)
  <2>1. UNCHANGED timer /\ sc' = [sc EXCEPT ![c] = "back"] /\ pend' = [pend EXCEPT ![t] = Cond]
    BY <1>11 DEF CondWait, Suspend
  <2> QED
    BY <2>1, QueueNames DEF PlaceStep, Blocking
<1>12. CASE CondSignal(c, t) \/ CondSignals(c, t)
            \/ CondBroadcast(c, t) \/ CondBroadcasts(c, t) \/ CondYields(c, t)
  BY <1>12 DEF PlaceStep, CondSignal, CondSignals, CondBroadcast, CondBroadcasts, CondYields,
               Remove, Wake, Stay, Switch
<1> QED
  BY <1>0, <1>1, <1>2, <1>3, <1>4, <1>5, <1>6, <1>7, <1>8, <1>9, <1>10, <1>11, <1>12 DEF ThreadStep

-----------------------------------------------------------------------------
(* Every step of a running thread is such a step.                         *)

LEMMA ThreadActs ==
  ASSUME PlacesInv, NEW c \in Lcore, NEW t \in Thread, ThreadStep(c, t), ~ Derail(c, t),
         ThreadMarks(t)
  PROVE  Acts(c, t)
<1>1. Running(c, t)
  <2> USE DEF Running, Calls, At
  <2>1. CASE Yield(c, t) \/ Sleep(c, t) \/ SetAffinity(c, t) \/ Detach(c, t)
             \/ Create(c, t) \/ Cancel(c, t) \/ CancelTasklet(c, t) \/ ShutdownAll(c, t)
    BY <2>1 DEF Yield, Sleep, SetAffinity, Detach, Create, Cancel, CancelTasklet, ShutdownAll
  <2>2. CASE Return(c, t) \/ ExitCall(c, t) \/ ExitFirst(c, t) \/ ExitResumed(c, t) \/ ExitSecond(c, t)
             \/ ExitWakes(c, t) \/ ExitCollected(c, t) \/ ExitWaits(c, t) \/ Leave(c, t)
    BY <2>2 DEF Return, ExitCall, ExitFirst, ExitResumed, ExitSecond, ExitWakes, ExitCollected,
                ExitWaits, Leave
  <2>3. CASE JoinCall(c, t) \/ JoinFirst(c, t) \/ JoinSecond(c, t) \/ JoinWaits(c, t)
             \/ JoinCollects(c, t)
    BY <2>3 DEF JoinCall, JoinFirst, JoinSecond, JoinWaits, JoinCollects
  <2>4. CASE LockCall(c, t) \/ LockCas(c, t) \/ LockCount(c, t) \/ LockOwner(c, t)
             \/ TrylockCall(c, t) \/ TrylockCas(c, t) \/ TrylockBusy(c, t)
    BY <2>4 DEF LockCall, LockCas, LockCount, LockOwner, TrylockCall, TrylockCas, TrylockBusy
  <2>5. CASE UnlockCall(c, t) \/ UnlockCheck(c, t) \/ UnlockRemove(c, t) \/ UnlockWakes(c, t)
             \/ UnlockReleases(c, t)
    BY <2>5 DEF UnlockCall, UnlockCheck, UnlockRemove, UnlockWakes, UnlockReleases
  <2>6. CASE CondWait(c, t) \/ CondSignal(c, t) \/ CondSignals(c, t)
             \/ CondBroadcast(c, t) \/ CondBroadcasts(c, t) \/ CondYields(c, t)
    BY <2>6 DEF CondWait, CondSignal, CondSignals, CondBroadcast, CondBroadcasts, CondYields
  <2> QED
    BY <2>1, <2>2, <2>3, <2>4, <2>5, <2>6 DEF ThreadStep
<1>2. Same /\ UNCHANGED <<active, num>>
  <2> USE DEF flagVars
  <2>1. CASE Yield(c, t) \/ Sleep(c, t) \/ SetAffinity(c, t) \/ Detach(c, t)
             \/ Create(c, t) \/ Cancel(c, t) \/ CancelTasklet(c, t) \/ ShutdownAll(c, t)
    BY <2>1 DEF Yield, Sleep, SetAffinity, Detach, Create, Cancel, CancelTasklet, ShutdownAll
  <2>2. CASE Return(c, t) \/ ExitCall(c, t) \/ ExitFirst(c, t) \/ ExitResumed(c, t) \/ ExitSecond(c, t)
             \/ ExitWakes(c, t) \/ ExitCollected(c, t) \/ ExitWaits(c, t) \/ Leave(c, t)
    BY <2>2 DEF Return, ExitCall, ExitFirst, ExitResumed, ExitSecond, ExitWakes, ExitCollected,
                ExitWaits, Leave, Reschedule
  <2>3. CASE JoinCall(c, t) \/ JoinFirst(c, t) \/ JoinSecond(c, t) \/ JoinWaits(c, t)
             \/ JoinCollects(c, t)
    BY <2>3 DEF JoinCall, JoinFirst, JoinSecond, JoinWaits, JoinCollects, Reschedule
  <2>4. CASE LockCall(c, t) \/ LockCas(c, t) \/ LockCount(c, t) \/ LockOwner(c, t)
             \/ TrylockCall(c, t) \/ TrylockCas(c, t) \/ TrylockBusy(c, t)
    BY <2>4 DEF LockCall, LockCas, LockCount, LockOwner, TrylockCall, TrylockCas, TrylockBusy
  <2>5. CASE UnlockCall(c, t) \/ UnlockCheck(c, t) \/ UnlockRemove(c, t) \/ UnlockWakes(c, t)
             \/ UnlockReleases(c, t)
    BY <2>5 DEF UnlockCall, UnlockCheck, UnlockRemove, UnlockWakes, UnlockReleases, Remove, Wake
  <2>6. CASE CondWait(c, t) \/ CondSignal(c, t) \/ CondSignals(c, t)
             \/ CondBroadcast(c, t) \/ CondBroadcasts(c, t) \/ CondYields(c, t)
    BY <2>6 DEF CondWait, CondSignal, CondSignals, CondBroadcast, CondBroadcasts, CondYields, Remove, Wake
  <2> QED
    BY <2>1, <2>2, <2>3, <2>4, <2>5, <2>6 DEF ThreadStep
<1>3. PcStep(c, t)
  BY PcSteps DEF ThreadMarks
<1> QED
  BY <1>1, <1>2, <1>3, StateSteps, CountSteps, PlaceSteps DEF Acts, Same

LEMMA GreenActs ==
  ASSUME PlacesInv, NEW c \in Lcore, NEW t \in Thread, GreenThreadStep(c, t), ThreadMarks(t)
  PROVE  Acts(c, t)
<1>s. \/ UNCHANGED <<sc, nb, susp, state, timer>>
      \/ /\ sc' = [sc EXCEPT ![c] = "back"] /\ UNCHANGED <<nb, susp, state, timer>>
      \/ /\ Op(t)[1] \in SleepOps
         /\ timer' = [timer EXCEPT ![t] = c] /\ state' = [state EXCEPT ![t] = @ \cup {"SLEEPING"}]
         /\ Suspend(c, t)
  <2>1. CASE Sleeps(c, t)
    BY <2>1 DEF Sleeps, SleepStep, SsnSleep, Calls, SleepOps, Stay
  <2>2. CASE DummySleeps(c, t)
    <3>1. Op(t)[1] = "dummy"
      BY <2>2 DEF DummySleeps, At, ThreadMarks
    <3> QED
      BY <2>2, <3>1 DEF DummySleeps, SleepStep, SsnSleep, SleepOps, Stay
  <2>3. CASE Yields(c, t) \/ DummyYields(c, t)
    BY <2>3 DEF Yields, DummyYields, YieldStep, SsnYield, Stay, Switch
  <2>4. CASE Spawned(c, t) \/ DummyStarts(c, t) \/ DummyEnds(c, t)
    BY <2>4 DEF Spawned, DummyStarts, DummyEnds, NoStep, Stay
  <2> QED
    BY <2>1, <2>2, <2>3, <2>4 DEF GreenThreadStep
<1>u. Running(c, t) /\ UNCHANGED <<setup, cur, next, cb, active, num, sched, pend>>
  BY DEF GreenThreadStep, Sleeps, Yields, Spawned, DummyStarts, DummySleeps, DummyYields, DummyEnds,
         SleepStep, YieldStep, NoStep, Calls, At, Running, Same, Untouched, flagVars
<1>1. PcStep(c, t)
  <2> USE DEF Calls, At, Goto, Advance, AtOnce
  <2>1. CASE Sleeps(c, t) \/ Yields(c, t) \/ Spawned(c, t)
    <3>1. PcTo(c, t, "op")
      BY <2>1 DEF Sleeps, Yields, Spawned, PcTo
    <3> QED
      BY <3>1 DEF PcStep
  <2>2. CASE DummyStarts(c, t) \/ DummyYields(c, t)
    <3>0. /\ Op(t)[1] = "dummy" /\ pc' = [pc EXCEPT ![t] = "dummy"] /\ UNCHANGED ip
      BY <2>2 DEF DummyStarts, DummyYields, ThreadMarks
    <3>1. PcTo(c, t, "dummy")
      BY <3>0 DEF PcTo
    <3> QED
      BY <3>1 DEF PcStep
  <2>3. CASE DummySleeps(c, t)
    <3>0. /\ Op(t)[1] = "dummy" /\ pc' = [pc EXCEPT ![t] = "slept"] /\ UNCHANGED ip
      BY <2>3 DEF DummySleeps, ThreadMarks
    <3>1. PcTo(c, t, "slept")
      BY <3>0 DEF PcTo
    <3> QED
      BY <3>1 DEF PcStep
  <2>4. CASE DummyEnds(c, t)
    <3>0. Op(t)[1] = "dummy" /\ pc' = [pc EXCEPT ![t] = "op"] /\ ip' = [ip EXCEPT ![t] = @ + 1]
      BY <2>4 DEF DummyEnds, ThreadMarks
    <3>1. PcTo(c, t, "op")
      BY <3>0 DEF PcTo
    <3> QED
      BY <3>1 DEF PcStep
  <2> QED
    BY <2>1, <2>2, <2>3, <2>4 DEF GreenThreadStep
<1>2. StateStep(t)
  <2>1. CASE UNCHANGED state
    BY <2>1 DEF StateStep
  <2>2. CASE state' = [state EXCEPT ![t] = @ \cup {"SLEEPING"}]
    <3>1. "CANCELLED" \notin {"SLEEPING"}
      OBVIOUS
    <3> QED
      BY <2>2, <3>1, Grows
  <2> QED
    BY <1>s, <2>1, <2>2
<1>3. CountStep(c, t)
  BY <1>s, <1>u DEF CountStep, Suspend
<1>4. PlaceStep(c, t)
  BY <1>s, <1>u DEF PlaceStep, Suspend
<1> QED
  BY <1>u, <1>1, <1>2, <1>3, <1>4 DEF Acts

LEMMA KeyActs ==
  ASSUME PlacesInv, NEW c \in Lcore, NEW t \in Thread, KeyStep(c, t)
  PROVE  Acts(c, t)
<1>1. Running(c, t) /\ NoStep /\ Advance(t) /\ Op(t)[1] \notin {"detach", "create"}
  BY DEF KeyStep, KeyCreate, KeyDelete, SetSpecific, GetSpecific, KeyOp, Calls, At, Running
<1>2. PcTo(c, t, "op")
  BY <1>1 DEF PcTo, Advance
<1> QED
  BY <1>1, <1>2 DEF Acts, PcStep, StateStep, CountStep, PlaceStep, NoStep, Stay, Same, Untouched, flagVars

-----------------------------------------------------------------------------
(* Running threads keep the marks.                                        *)

LEMMA IndexIs ==
  ASSUME setup \in Setup, NEW t \in Thread, NEW i \in DOMAIN setup.prog[t]
  PROVE  i \in Nat \ {0} /\ i <= Len(setup.prog[t]) /\ Len(setup.prog[t]) \in Nat
BY LthreadAssumption

(* Programs do not change, and what has been executed stays so. *)
ProgsGo ==
  /\ UNCHANGED setup
  /\ \A x \in Thread : ip[x] \in Nat /\ ip'[x] \in Nat /\ ip'[x] >= ip[x]

LEMMA WordsStay ==
  ASSUME PlacesInv, ProgsGo, NEW x \in Thread
  PROVE  /\ HasSlept(x) => HasSlept(x)'
         /\ Guarded(x)' <=> Guarded(x)
         /\ Cancelled(x)' <=> Cancelled(x)
         /\ \A f : Does(x, f)' <=> Does(x, f)
         /\ Awake' <=> Awake
<1>1. ASSUME HasSlept(x) PROVE HasSlept(x)'
  <2>1. PICK j \in DOMAIN setup.prog[x] : j <= ip[x] /\ setup.prog[x][j][1] \in SleepOps
    BY <1>1 DEF HasSlept
  <2>2. j \in Nat
    BY IndexIs DEF PlacesInv, MainHolds
  <2>3. j <= ip'[x]
    BY <2>1, <2>2 DEF ProgsGo
  <2> QED
    BY <2>1, <2>3 DEF HasSlept, ProgsGo
<1> QED
  BY <1>1 DEF ProgsGo, Guarded, Cancelled, Does, Awake

LEMMA ActsGoOn ==
  ASSUME PlacesInv, NEW c \in Lcore, NEW t \in Thread, Acts(c, t)
  PROVE  /\ ProgsGo
         /\ pc = [x \in Thread |-> pc[x]] /\ ip = [x \in Thread |-> ip[x]]
         /\ setup \in Setup /\ ip[t] \in Nat \ {0}
         /\ \A x \in Thread : x # t => pc'[x] = pc[x] /\ ip'[x] = ip[x] /\ Op(x)' = Op(x)
<1>1. ip \in [Thread -> Nat \ {0}] /\ pc = [x \in Thread |-> pc[x]] /\ setup \in Setup /\ UNCHANGED setup
  BY DEF PlacesInv, Stands, ProgsHold, MainHolds, Acts
<1>2. UNCHANGED ip \/ ip' = [ip EXCEPT ![t] = @ + 1]
  BY DEF Acts, PcStep, PcTo
<1>3. \A x \in Thread : x # t => pc'[x] = pc[x] /\ ip'[x] = ip[x]
  BY <1>1 DEF Acts, PcStep, PcTo
<1>4. ProgsGo
  BY <1>1, <1>2 DEF ProgsGo
<1> QED
  BY <1>1, <1>3, <1>4 DEF Op

(* The thread that acts. *)
LEMMA MarksOfActor ==
  ASSUME PlacesInv, NEW c \in Lcore, NEW t \in Thread, ThreadMarks(t), Acts(c, t)
  PROVE  ThreadMarks(t)'
<1>0. /\ ProgsGo /\ pc = [x \in Thread |-> pc[x]] /\ ip = [x \in Thread |-> ip[x]]
      /\ setup \in Setup /\ UNCHANGED setup /\ ip[t] \in Nat \ {0}
  BY ActsGoOn DEF ProgsGo
<1>1. PICK p : PcTo(c, t, p)
  BY DEF Acts, PcStep
<1>2. pc'[t] = p /\ (ip'[t] = ip[t] + 1 \/ ip'[t] = ip[t])
  BY <1>0, <1>1 DEF PcTo
<1>3. UNCHANGED ip => Op(t)' = Op(t)
  BY <1>0 DEF Op
<1>4. StateStep(t) /\ state[t] \subseteq state'[t]
  BY DEF Acts, StateStep
<1>5. Op(t)[1] # "return" => ip[t] \in DOMAIN setup.prog[t] /\ Op(t) = setup.prog[t][ip[t]]
  BY <1>0, OpIs
<1>w. /\ HasSlept(t) => HasSlept(t)'
      /\ Guarded(t)' <=> Guarded(t)
      /\ Cancelled(t)' <=> Cancelled(t)
      /\ \A f : Does(t, f)' <=> Does(t, f)
      /\ Awake' <=> Awake
  BY <1>0, WordsStay
<1>a. (Op(t)[1] \in AtOnce => pc[t] = "op")'
  BY <1>1, <1>2, <1>3 DEF PcTo
<1>b. (pc[t] \in {"dummy", "slept"} => Op(t)[1] = "dummy")'
  BY <1>1, <1>2, <1>3 DEF PcTo
<1>c. (timer[t] # -1 => HasSlept(t))'
  <2>1. CASE UNCHANGED timer
    BY <2>1, <1>w DEF ThreadMarks
  <2>2. CASE Op(t)[1] \in SleepOps
    <3>1. ip[t] \in DOMAIN setup.prog[t] /\ Op(t) = setup.prog[t][ip[t]]
      BY <1>5, <2>2 DEF SleepOps
    <3>2. ip[t] <= ip[t] /\ setup.prog[t][ip[t]][1] \in SleepOps
      BY <1>0, <2>2, <3>1
    <3> QED
      BY <3>1, <3>2, <1>w DEF HasSlept
  <2> QED
    BY <2>1, <2>2 DEF Acts, PlaceStep
<1>d. (Guarded(t) /\ Detached(t) => state[t] \cap {"DETACH", "FREED"} # {})'
  <2>1. ASSUME Detached(t)', Guarded(t) PROVE state'[t] \cap {"DETACH", "FREED"} # {}
    <3>1. PICK k \in DOMAIN setup.prog[t] : k < ip'[t] /\ setup.prog[t][k][1] = "detach"
      BY <1>0, <2>1 DEF Detached
    <3>2. k \in Nat
      BY <1>0, IndexIs
    <3>3. CASE k < ip[t]
      BY <3>1, <3>3, <2>1, <1>4 DEF ThreadMarks, Detached
    <3>4. CASE ~ (k < ip[t])
      <4>1. k = ip[t] /\ ip'[t] = ip[t] + 1
        BY <1>0, <1>2, <3>1, <3>2, <3>4
      <4>2. Op(t)[1] = "detach" /\ ~ UNCHANGED ip
        BY <1>0, <3>1, <3>2, <4>1 DEF Op
      <4> QED
        BY <1>1, <4>2 DEF PcTo
    <3> QED
      BY <3>3, <3>4
  <2> QED
    BY <2>1, <1>w
<1>e. ("CANCELLED" \in state[t] => Cancelled(t))'
  BY <1>4, <1>w DEF ThreadMarks, StateStep
<1>f. (\A d \in Lcore : pend[t] = PReady(d) => Does(t, "affinity"))'
  <2>1. CASE UNCHANGED pend
    BY <2>1, <1>w DEF ThreadMarks
  <2>2. CASE \E q \in Blocking : pend' = [pend EXCEPT ![t] = q]
    <3>1. pend = [x \in Thread |-> pend[x]]
      BY DEF PlacesInv, Stands, Placed, LcoresHold
    <3>2. pend'[t] \in Blocking
      BY <2>2, <3>1
    <3> QED
      BY <3>2, QueueNames
  <2>3. CASE Op(t)[1] = "affinity"
    <3>1. ip[t] \in DOMAIN setup.prog[t] /\ setup.prog[t][ip[t]][1] = "affinity"
      BY <1>5, <2>3
    <3>2. Does(t, "affinity")
      BY <1>0, <3>1, IndexIs DEF Does
    <3> QED
      BY <3>2, <1>w
  <2> QED
    BY <2>1, <2>2, <2>3 DEF Acts, PlaceStep
<1>g. (Awake /\ pc[t] \in {"leave", "left"} => "FREED" \in state[t] \/ Over \subseteq state[t])'
  <2>1. CASE p = "leave"
    BY <1>1, <1>2, <2>1 DEF PcTo
  <2>2. CASE p = "left"
    BY <1>1, <1>2, <2>2, <1>4, <1>w DEF PcTo, ThreadMarks
  <2> QED
    BY <1>2, <2>1, <2>2
<1>h. (Awake /\ pc[t] = "left" => \A d \in Lcore : sc[d] = "run" => cur[d] # t)'
  <2>1. ASSUME p = "left", NEW d \in Lcore, sc'[d] = "run", cur'[d] = t PROVE FALSE
    <3>1. sc' = [sc EXCEPT ![c] = "back"] /\ UNCHANGED cur
      BY <1>1, <2>1 DEF PcTo, Acts
    <3>2. PICK K, A : Stands(K, A)
      BY DEF PlacesInv
    <3>3. sc = [e \in Lcore |-> sc[e]]
      BY <3>2 DEF Stands, Placed, LcoresHold
    <3>4. d # c /\ sc[d] = "run" /\ cur[d] = t
      BY <2>1, <3>1, <3>3
    <3>5. A[t] = c /\ A[t] = d
      BY <3>2, <3>4, OnIs DEF Acts, Running, Stands
    <3> QED
      BY <3>4, <3>5
  <2> QED
    BY <2>1, <1>2
<1> QED
  BY <1>a, <1>b, <1>c, <1>d, <1>e, <1>f, <1>g, <1>h DEF ThreadMarks

(* Another thread. *)
LEMMA MarksOfOther ==
  ASSUME PlacesInv, NEW c \in Lcore, NEW t \in Thread, Acts(c, t), NEW x \in Thread, x # t, ThreadMarks(x)
  PROVE  ThreadMarks(x)'
<1>0. ProgsGo /\ pc'[x] = pc[x] /\ ip'[x] = ip[x] /\ Op(x)' = Op(x)
  BY ActsGoOn
<1>w. /\ HasSlept(x) => HasSlept(x)'
      /\ Guarded(x)' <=> Guarded(x)
      /\ Cancelled(x)' <=> Cancelled(x)
      /\ \A f : Does(x, f)' <=> Does(x, f)
      /\ Awake' <=> Awake
  BY <1>0, WordsStay
<1>1. Detached(x)' <=> Detached(x)
  BY <1>0 DEF Detached, ProgsGo
<1>2. state[x] \subseteq state'[x] /\ ("CANCELLED" \in state'[x] => "CANCELLED" \in state[x] \/ Cancelled(x))
  BY DEF Acts, StateStep
<1>3. timer'[x] = timer[x] /\ pend'[x] = pend[x]
  <2>1. timer = [y \in Thread |-> timer[y]] /\ pend = [y \in Thread |-> pend[y]]
    BY DEF PlacesInv, Stands, Placed, LcoresHold, TimersHold
  <2> QED
    BY <2>1 DEF Acts, PlaceStep
<1>4. UNCHANGED cur /\ \A d \in Lcore : sc'[d] = "run" => sc[d] = "run"
  <2>1. sc = [e \in Lcore |-> sc[e]]
    BY DEF PlacesInv, Stands, Placed, LcoresHold
  <2> QED
    BY <2>1 DEF Acts, PlaceStep
<1>a. (/\ Op(x)[1] \in AtOnce => pc[x] = "op"
       /\ pc[x] \in {"dummy", "slept"} => Op(x)[1] = "dummy"
       /\ timer[x] # -1 => HasSlept(x)
       /\ Guarded(x) /\ Detached(x) => state[x] \cap {"DETACH", "FREED"} # {}
       /\ "CANCELLED" \in state[x] => Cancelled(x))'
  BY <1>0, <1>w, <1>1, <1>2, <1>3 DEF ThreadMarks
<1>b. (/\ \A d \in Lcore : pend[x] = PReady(d) => Does(x, "affinity")
       /\ Awake /\ pc[x] \in {"leave", "left"} => "FREED" \in state[x] \/ Over \subseteq state[x]
       /\ Awake /\ pc[x] = "left" => \A d \in Lcore : sc[d] = "run" => cur[d] # x)'
  BY <1>0, <1>w, <1>2, <1>3, <1>4 DEF ThreadMarks
<1> QED
  BY <1>a, <1>b DEF ThreadMarks

LEMMA MarksOfCallback ==
  ASSUME PlacesInv, NEW c \in Lcore, NEW t \in Thread, Acts(c, t), NEW d \in Lcore, CallbackMarks(d)
  PROVE  CallbackMarks(d)'
<1>1. UNCHANGED <<next, cb>> /\ (sc'[d] = "timer" => sc[d] = "timer")
  <2>1. sc = [e \in Lcore |-> sc[e]]
    BY DEF PlacesInv, Stands, Placed, LcoresHold
  <2> QED
    BY <2>1 DEF Acts, PlaceStep
<1>2. sc[d] = "timer" \/ next[d] = "timer" => cb[d][1] \in Thread
  BY DEF PlacesInv, Stands, Placed, CallbacksHold
<1>3. ProgsGo
  BY ActsGoOn
<1>4. ASSUME cb[d][1] \in Thread
      PROVE  /\ HasSlept(cb[d][1]) => HasSlept(cb[d][1])'
             /\ Guarded(cb[d][1])' <=> Guarded(cb[d][1])
             /\ Cancelled(cb[d][1])' <=> Cancelled(cb[d][1])
  <2>1. PICK x \in Thread : x = cb[d][1]
    BY <1>4
  <2>2. UNCHANGED cb
    BY <1>1
  <2>3. /\ HasSlept(x) => HasSlept(x)'
        /\ Guarded(x)' <=> Guarded(x)
        /\ Cancelled(x)' <=> Cancelled(x)
    BY <1>3, WordsStay
  <2> QED
    BY <2>1, <2>2, <2>3
<1> QED
  BY <1>1, <1>2, <1>4 DEF CallbackMarks

LEMMA ActsKeepMarks ==
  ASSUME PlacesInv, MarksHold, NEW c \in Lcore, NEW t \in Thread, Acts(c, t)
  PROVE  MarksHold'
<1>1. \A x \in Thread : ThreadMarks(x)'
  BY MarksOfActor, MarksOfOther DEF MarksHold
<1>2. \A d \in Lcore : CallbackMarks(d)'
  BY MarksOfCallback DEF MarksHold
<1> QED
  BY <1>1, <1>2 DEF MarksHold

-----------------------------------------------------------------------------
(* What schedulers do to the bits, and what they find in a thread.        *)

(* What a step of a scheduler does to the bits of a thread. *)
BitsKept(x) ==
  \/ state[x] \subseteq state'[x] /\ ("CANCELLED" \in state'[x] => "CANCELLED" \in state[x])
  \/ state'[x] = {"FREED"}
  \/ state[x] = {"INIT"} /\ "CANCELLED" \notin state'[x]
  \/ /\ HasSlept(x)
     /\ Guarded(x) => "DETACH" \in state'[x]
     /\ "CANCELLED" \in state'[x] => Cancelled(x)

CallbackKept(d) ==
  (sc'[d] = "timer" \/ next'[d] = "timer") => (sc[d] = "timer" \/ next[d] = "timer") /\ cb'[d] = cb[d]

SchedulerActs ==
  /\ UNCHANGED <<setup, ip, pc>>
  /\ \A x \in Thread : timer'[x] \in {timer[x], -1} /\ pend'[x] \in {pend[x], Nowhere} /\ BitsKept(x)
  /\ \A x \in Thread, d \in Lcore :
       Awake /\ pc[x] = "left" /\ sc'[d] = "run" /\ cur'[d] = x => sc[d] = "run" /\ cur[d] = x

LEMMA SchedulerKeepsThreads ==
  ASSUME MarksHold, SchedulerActs, NEW x \in Thread
  PROVE  ThreadMarks(x)'
<1>1. ThreadMarks(x)
  BY DEF MarksHold
<1>2. /\ Op(x)' = Op(x) /\ HasSlept(x)' = HasSlept(x) /\ Guarded(x)' = Guarded(x)
      /\ Detached(x)' = Detached(x) /\ Cancelled(x)' = Cancelled(x) /\ Awake' = Awake
      /\ Does(x, "affinity")' = Does(x, "affinity") /\ pc'[x] = pc[x]
  BY DEF SchedulerActs, Op, HasSlept, Guarded, Detached, Cancelled, Awake, Does
<1>3. timer'[x] \in {timer[x], -1} /\ pend'[x] \in {pend[x], Nowhere} /\ BitsKept(x)
  BY DEF SchedulerActs
<1>4. HasSlept(x) => ~ Awake
  BY DEF HasSlept, Awake
<1>5. (/\ Op(x)[1] \in AtOnce => pc[x] = "op"
       /\ pc[x] \in {"dummy", "slept"} => Op(x)[1] = "dummy"
       /\ timer[x] # -1 => HasSlept(x))'
  BY <1>1, <1>2, <1>3 DEF ThreadMarks
<1>6. (Guarded(x) /\ Detached(x) => state[x] \cap {"DETACH", "FREED"} # {})'
  <2>1. Guarded(x) /\ Detached(x) => state[x] \cap {"DETACH", "FREED"} # {}
    BY <1>1 DEF ThreadMarks
  <2> QED
    BY <2>1, <1>2, <1>3 DEF BitsKept
<1>7. ("CANCELLED" \in state[x] => Cancelled(x))'
  <2>1. "CANCELLED" \in state[x] => Cancelled(x)
    BY <1>1 DEF ThreadMarks
  <2> QED
    BY <2>1, <1>2, <1>3 DEF BitsKept
<1>8. (\A d \in Lcore : pend[x] = PReady(d) => Does(x, "affinity"))'
  <2>1. \A d \in Lcore : pend'[x] = PReady(d) => pend[x] = PReady(d)
    BY <1>3, QueueNames
  <2> QED
    BY <2>1, <1>1, <1>2 DEF ThreadMarks
<1>9. (Awake /\ pc[x] \in {"leave", "left"} => "FREED" \in state[x] \/ Over \subseteq state[x])'
  <2>1. Awake /\ pc[x] \in {"leave", "left"} => "FREED" \in state[x] \/ Over \subseteq state[x]
    BY <1>1 DEF ThreadMarks
  <2> QED
    BY <2>1, <1>2, <1>3, <1>4 DEF BitsKept, Over
<1>10. (Awake /\ pc[x] = "left" => \A d \in Lcore : sc[d] = "run" => cur[d] # x)'
  BY <1>1, <1>2 DEF ThreadMarks, SchedulerActs
<1> QED
  BY <1>5, <1>6, <1>7, <1>8, <1>9, <1>10 DEF ThreadMarks

LEMMA SchedulerKeepsCallback ==
  ASSUME MarksHold, UNCHANGED <<setup, ip, pc>>, NEW d \in Lcore, CallbackKept(d)
  PROVE  CallbackMarks(d)'
<1>1. CallbackMarks(d)
  BY DEF MarksHold
<1> QED
  BY <1>1 DEF CallbackMarks, CallbackKept, HasSlept, Guarded, Cancelled

LEMMA SchedulerKeepsMarks ==
  ASSUME MarksHold, SchedulerActs, \A d \in Lcore : CallbackKept(d)
  PROVE  MarksHold'
BY SchedulerKeepsThreads, SchedulerKeepsCallback DEF MarksHold, SchedulerActs

-----------------------------------------------------------------------------
(* What the scheduler of c finds when it takes the thread t. *)
Takes(c, t) == (FromQueue(c, t) \/ FromTimer(c, t)) /\ sc[c] \in {"ready", "pready"}

LEMMA TakenIs ==
  ASSUME PlacesInv, NEW c \in Lcore, NEW t \in Thread, Takes(c, t)
  PROVE  /\ sched[t] \in {c, -1} /\ "FREED" \notin state[t] /\ state[t] # {}
         /\ "INIT" \in state[t] <=> sched[t] = -1
         /\ "INIT" \in state[t] => state[t] = {"INIT"}
         /\ sched[t] = -1 => ~ susp[t]
         /\ FromTimer(c, t) => sched[t] = c /\ susp[t] = TRUE /\ timer[t] = c
         /\ susp \in [Thread -> BOOLEAN] /\ sched = [x \in Thread |-> sched[x]]
         /\ state = [x \in Thread |-> state[x]] /\ cur = [d \in Lcore |-> cur[d]]
         /\ sc = [d \in Lcore |-> sc[d]] /\ timer = [x \in Thread |-> timer[x]]
<1>1. PICK K, A : Stands(K, A)
  BY DEF PlacesInv
<1>2. Placed(K, A)
  BY <1>1 DEF Stands
<1>3. \/ FromQueue(c, t) /\ K[t] = "queue" /\ A[t] \in {Ready(c), PReady(c)}
      \/ FromTimer(c, t) /\ K[t] = "timer" /\ sched[t] = c /\ timer[t] = c
  <2>1. CASE FromQueue(c, t)
    <3>1. PICK q \in {Ready(c), PReady(c)} : queue[q] # <<>> /\ t = Head(queue[q])
      BY <2>1 DEF FromQueue
    <3>2. q \in QueueName /\ QueuesHold(K, A)
      BY <1>2, QueueNames DEF Placed
    <3> QED
      BY <2>1, <3>1, <3>2, HeadIs
  <2>2. CASE FromTimer(c, t)
    BY <1>2, <2>2, Numbers DEF FromTimer, Placed, TimersHold
  <2> QED
    BY <2>1, <2>2 DEF Takes
<1>4. K[t] \notin {"unborn", "freed"}
  BY <1>3
<1>5. sched[t] \in {c, -1}
  BY <1>2, <1>3 DEF Placed, SchedsHold
<1>6. /\ "FREED" \notin state[t] /\ state[t] # {} /\ ("INIT" \in state[t] <=> sched[t] = -1)
      /\ "INIT" \in state[t] => state[t] = {"INIT"}
      /\ sched[t] = -1 => ~ susp[t]
      /\ susp \in [Thread -> BOOLEAN] /\ state = [x \in Thread |-> state[x]]
      /\ K[t] = "timer" => susp[t] = TRUE
  BY <1>2, <1>4 DEF Placed, StatesHold, Sleepy
<1>7. /\ sched = [x \in Thread |-> sched[x]] /\ cur = [d \in Lcore |-> cur[d]]
      /\ sc = [d \in Lcore |-> sc[d]] /\ timer = [x \in Thread |-> timer[x]]
  BY <1>2 DEF Placed, SchedsHold, LcoresHold, TimersHold
<1>8. FromTimer(c, t) => K[t] = "timer" /\ timer[t] = c
  BY <1>2, Numbers DEF FromTimer, Placed, TimersHold
<1>9. K[t] = "timer" => sched[t] = c
  BY <1>3, QueueNames
<1> QED
  BY <1>5, <1>6, <1>7, <1>8, <1>9

LEMMA MarksOfResume ==
  ASSUME PlacesInv, MarksHold, NEW c \in Lcore, NEW t \in Thread, Takes(c, t),
         NEW S, S \subseteq {"EXPIRED"}, NEW n, Resume(c, t, state[t] \cup S, n),
         UNCHANGED <<setup, ip, pc, pend>>
  PROVE  SchedulerActs
<1>1. /\ "FREED" \notin state[t] /\ ("INIT" \in state[t] => state[t] = {"INIT"})
      /\ state = [x \in Thread |-> state[x]] /\ cur = [d \in Lcore |-> cur[d]]
      /\ sc = [d \in Lcore |-> sc[d]] /\ timer = [x \in Thread |-> timer[x]]
  BY TakenIs
<1>2. \A x \in Thread : timer'[x] \in {timer[x], -1} /\ pend'[x] \in {pend[x], Nowhere}
  BY <1>1 DEF Takes, FromQueue, FromTimer
<1> DEFINE st == state[t] \cup S
<1>3. CASE "DETACH" \in st /\ st \cap {"CANCELLED", "EXITED"} # {}
  <2>1. /\ state' = [state EXCEPT ![t] = {"FREED"}]
        /\ cur' = [cur EXCEPT ![c] = Null] /\ sc' = [sc EXCEPT ![c] = "back"]
    BY <1>3 DEF Resume
  <2>2. \A x \in Thread : BitsKept(x)
    BY <1>1, <2>1 DEF BitsKept
  <2>3. \A x \in Thread, d \in Lcore : sc'[d] = "run" /\ cur'[d] = x => sc[d] = "run" /\ cur[d] = x
    BY <1>1, <2>1
  <2> QED
    BY <1>2, <2>2, <2>3 DEF SchedulerActs
<1>4. CASE ~ ("DETACH" \in st /\ st \cap {"CANCELLED", "EXITED"} # {})
  <2>1. /\ cur' = [cur EXCEPT ![c] = t] /\ sc' = [sc EXCEPT ![c] = "run"]
        /\ state' = [state EXCEPT ![t] = IF "INIT" \in st THEN {"READY"} ELSE st]
    BY <1>4 DEF Resume
  <2>2. \A x \in Thread : BitsKept(x)
    <3>1. state'[t] = IF "INIT" \in st THEN {"READY"} ELSE st
      BY <1>1, <2>1
    <3>2. "INIT" \in st <=> "INIT" \in state[t]
      OBVIOUS
    <3>3. state[t] \subseteq st /\ ("CANCELLED" \in st => "CANCELLED" \in state[t])
      OBVIOUS
    <3> HIDE DEF st
    <3>4. BitsKept(t)
      BY <1>1, <3>1, <3>2, <3>3 DEF BitsKept
    <3>5. \A x \in Thread : x # t => state'[x] = state[x]
      BY <1>1, <2>1
    <3> QED
      BY <3>4, <3>5 DEF BitsKept
  <2>3. Awake => pc[t] # "left"
    <3>1. Awake /\ pc[t] = "left" => Over \subseteq state[t]
      BY <1>1 DEF MarksHold, ThreadMarks
    <3> QED
      BY <1>4, <3>1 DEF Over
  <2>4. \A x \in Thread, d \in Lcore : sc'[d] = "run" /\ cur'[d] = x => x = t \/ (sc[d] = "run" /\ cur[d] = x)
    BY <1>1, <2>1
  <2> HIDE DEF st
  <2> QED
    BY <1>2, <2>2, <2>3, <2>4 DEF SchedulerActs
<1> QED
  BY <1>3, <1>4

-----------------------------------------------------------------------------
(* Schedulers and the main program keep the marks.                        *)

LEMMA Domains ==
  ASSUME PlacesInv
  PROVE  /\ sc = [d \in Lcore |-> sc[d]] /\ cur = [d \in Lcore |-> cur[d]]
         /\ next = [d \in Lcore |-> next[d]] /\ cb = [d \in Lcore |-> cb[d]]
         /\ state = [x \in Thread |-> state[x]] /\ pend = [x \in Thread |-> pend[x]]
         /\ timer = [x \in Thread |-> timer[x]] /\ sched = [x \in Thread |-> sched[x]]
         /\ susp \in [Thread -> BOOLEAN]
         /\ \A d \in Lcore : sc[d] \notin {"run", "back"} => next[d] = "top"
         /\ \A d \in Lcore : cur[d] # Null => sc[d] \in {"run", "back"}
BY DEF PlacesInv, Stands, Placed, LcoresHold, CallbacksHold, StatesHold, TimersHold, SchedsHold

(* Steps that only move the scheduler of c. *)
LEMMA TurnKeepsMarks ==
  ASSUME PlacesInv, MarksHold, NEW c \in Lcore, NEW s, s \notin {"run", "timer"}, sc' = [sc EXCEPT ![c] = s],
         UNCHANGED <<setup, ip, pc, timer, pend, cur, next, cb>>,
         \A x \in Thread : BitsKept(x)
  PROVE  MarksHold'
<1>1. sc = [d \in Lcore |-> sc[d]]
  BY Domains
<1>2. SchedulerActs
  BY <1>1 DEF SchedulerActs
<1>3. \A d \in Lcore : CallbackKept(d)
  BY <1>1 DEF CallbackKept
<1> QED
  BY <1>2, <1>3, SchedulerKeepsMarks

LEMMA StartKeepsMarks ==
  ASSUME PlacesInv, MarksHold, NEW c \in Lcore, Start(c)
  PROVE  MarksHold'
<1>1. PICK K, A : Stands(K, A)
  BY DEF PlacesInv
<1>2. \A x \in Thread : Has(setup.root[c], x) => K[x] = "unborn"
  BY <1>1, RootsAreUnborn DEF Start, PlacesInv, Stands
<1>3. ASSUME NEW x \in Thread PROVE BitsKept(x)
  <2>1. state' = [t \in Thread |-> IF \E i \in 1 .. Len(setup.root[c]) : setup.root[c][i] = t
                                   THEN {"INIT"} ELSE state[t]]
    BY DEF Start
  <2>2. state'[x] = IF Has(setup.root[c], x) THEN {"INIT"} ELSE state[x]
    BY <2>1 DEF Has
  <2>3. Has(setup.root[c], x) => state[x] = {}
    BY <1>1, <1>2 DEF Stands, Placed, StatesHold
  <2> QED
    BY <2>2, <2>3 DEF BitsKept
<1> QED
  BY <1>3, TurnKeepsMarks DEF Start

LEMMA PollKeepsMarks ==
  ASSUME PlacesInv, MarksHold, NEW c \in Lcore, PollReady(c) \/ PollPReady(c)
  PROVE  MarksHold'
<1>1. PICK q \in {Ready(c), PReady(c)}, there \in {"pready", "top"} :
        Poll(c, q, sc[c], there) /\ sc[c] \in {"ready", "pready"}
  BY DEF PollReady, PollPReady, Poll
<1>2. UNCHANGED <<setup, cb, pend, timer, ip, pc>>
  BY <1>1 DEF Poll
<1>3. CASE Pollable(q)
  <2>1. PICK t : t = Head(queue[q])
    OBVIOUS
  <2>2. /\ queue[q] # <<>> /\ queue' = [queue EXCEPT ![q] = Tail(@)]
        /\ Resume(c, t, state[t], nb[c]) /\ next' = [next EXCEPT ![c] = there]
    BY <1>1, <1>3, <2>1 DEF Poll, Pollable
  <2>3. t \in Thread
    BY <2>1, <2>2, HeadIs, QueueNames DEF PlacesInv, Stands, Placed
  <2>4. Takes(c, t)
    <3>1. next'[c] # "timer"
      BY <2>2, Domains
    <3> QED
      BY <1>1, <1>2, <2>1, <2>2, <3>1 DEF FromQueue, Takes
  <2>5. Resume(c, t, state[t] \cup {}, nb[c])
    <3>1. state[t] \cup {} = state[t]
      OBVIOUS
    <3> QED
      BY <2>2, <3>1
  <2>6. SchedulerActs
    BY <1>2, <2>3, <2>4, <2>5, MarksOfResume
  <2>7. \A d \in Lcore : CallbackKept(d)
    <3>1. sc' = [sc EXCEPT ![c] = sc'[c]] /\ sc'[c] \in {"run", "back"}
      BY <2>2, Domains DEF Resume
    <3> QED
      BY <1>2, <2>2, <3>1, Domains DEF CallbackKept
  <2> QED
    BY <2>6, <2>7, SchedulerKeepsMarks
<1>4. CASE ~ Pollable(q)
  <2>1. sc' = [sc EXCEPT ![c] = there] /\ UNCHANGED <<cur, next, state>>
    BY <1>1, <1>4 DEF Poll
  <2>2. \A x \in Thread : BitsKept(x)
    BY <2>1 DEF BitsKept
  <2> QED
    BY <1>2, <2>1, <2>2, TurnKeepsMarks
<1> QED
  BY <1>3, <1>4

(* Who has slept and detaches himself before he sleeps has detached himself. *)
LEMMA SleeperDetached ==
  ASSUME PlacesInv, NEW t \in Thread, HasSlept(t), Guarded(t)
  PROVE  Detached(t)
<1>1. PICK j \in DOMAIN setup.prog[t] : j <= ip[t] /\ setup.prog[t][j][1] \in SleepOps
  BY DEF HasSlept
<1>2. PICK k \in 1 .. j - 1 : setup.prog[t][k][1] = "detach"
  BY <1>1 DEF Guarded
<1>3. /\ j \in Nat \ {0} /\ j <= Len(setup.prog[t]) /\ Len(setup.prog[t]) \in Nat
      /\ DOMAIN setup.prog[t] = 1 .. Len(setup.prog[t]) /\ ip[t] \in Nat
  BY <1>1, IndexIs, LthreadAssumption DEF PlacesInv, MainHolds, Stands, ProgsHold
<1>4. k \in DOMAIN setup.prog[t] /\ k < ip[t]
  BY <1>1, <1>2, <1>3
<1> QED
  BY <1>2, <1>4 DEF Detached

LEMMA TimerKeepsMarks ==
  ASSUME PlacesInv, MarksHold, NEW c \in Lcore, NEW t \in Thread, TimerExpires(c, t)
  PROVE  MarksHold'
<1>1. /\ sc[c] = "ready" /\ FromTimer(c, t) /\ UNCHANGED <<setup, ip, pc, pend>>
      /\ next' = [next EXCEPT ![c] = "timer"]
      /\ cb' = [cb EXCEPT ![c] = <<t, state[t] \ {"EXPIRED"}>>]
  BY DEF TimerExpires, FromTimer, Resume
<1>2. PICK n : Resume(c, t, state[t] \cup {"EXPIRED"}, n)
  BY DEF TimerExpires
<1>3. Takes(c, t)
  BY <1>1 DEF Takes
<1>4. SchedulerActs
  BY <1>1, <1>2, <1>3, MarksOfResume
<1>5. \A d \in Lcore : d # c => CallbackKept(d)
  <2>1. sc' = [sc EXCEPT ![c] = sc'[c]]
    BY <1>2, Domains DEF Resume
  <2> QED
    BY <1>1, <2>1, Domains DEF CallbackKept
<1>6. CallbackMarks(c)'
  <2>1. cb'[c][1] = t /\ cb'[c][2] = state[t] \ {"EXPIRED"}
    BY <1>1, Domains
  <2>2. timer[t] = c /\ "FREED" \notin state[t]
    BY <1>1, <1>3, TakenIs
  <2>3. HasSlept(t) /\ ("CANCELLED" \in state[t] => Cancelled(t))
    BY <2>2, Numbers DEF MarksHold, ThreadMarks
  <2>4. Guarded(t) => "DETACH" \in state[t]
    BY <2>2, <2>3, SleeperDetached DEF MarksHold, ThreadMarks
  <2>5. HasSlept(t)' /\ (Guarded(t)' <=> Guarded(t)) /\ (Cancelled(t)' <=> Cancelled(t))
    BY <1>1, <2>3 DEF HasSlept, Guarded, Cancelled
  <2>6. /\ HasSlept(cb[c][1])'
        /\ Guarded(cb[c][1])' => "DETACH" \in cb'[c][2]
        /\ "CANCELLED" \in cb'[c][2] => Cancelled(cb[c][1])'
    BY <2>1, <2>3, <2>4, <2>5 DEF HasSlept, Guarded, Cancelled
  <2> QED
    BY <2>6 DEF CallbackMarks
<1>7. \A x \in Thread : ThreadMarks(x)'
  BY <1>4, SchedulerKeepsThreads
<1>8. \A d \in Lcore : CallbackMarks(d)'
  BY <1>1, <1>5, <1>6, SchedulerKeepsCallback
<1> QED
  BY <1>7, <1>8 DEF MarksHold

LEMMA SwitchedBackKeepsMarks ==
  ASSUME PlacesInv, MarksHold, NEW c \in Lcore, SwitchedBack(c)
  PROVE  MarksHold'
<1>1. /\ sc[c] = "back" /\ cur' = [cur EXCEPT ![c] = Null] /\ sc' = [sc EXCEPT ![c] = next[c]]
      /\ next' = [next EXCEPT ![c] = "top"]
      /\ UNCHANGED <<setup, state, timer, ip, pc, cb>>
  BY DEF SwitchedBack
<1>2. \A x \in Thread : pend'[x] \in {pend[x], Nowhere}
  BY Domains DEF SwitchedBack
<1>3. \A x \in Thread : BitsKept(x) /\ timer'[x] = timer[x]
  BY <1>1 DEF BitsKept
<1>4. SchedulerActs
  <2>1. \A d \in Lcore, x \in Thread : sc'[d] = "run" /\ cur'[d] = x => sc[d] = "run" /\ cur[d] = x
    BY <1>1, Domains, Numbers
  <2> QED
    BY <1>1, <1>2, <1>3, <2>1 DEF SchedulerActs
<1>5. \A d \in Lcore : CallbackKept(d)
  BY <1>1, Domains DEF CallbackKept
<1> QED
  BY <1>4, <1>5, SchedulerKeepsMarks

LEMMA RestoreKeepsMarks ==
  ASSUME PlacesInv, MarksHold, NEW c \in Lcore, Restore(c)
  PROVE  MarksHold'
<1>1. /\ sc[c] = "timer" /\ sc' = [sc EXCEPT ![c] = "ready"]
      /\ UNCHANGED state \/ state' = [state EXCEPT ![cb[c][1]] = cb[c][2]]
      /\ cb' = [cb EXCEPT ![c] = Nowhere]
      /\ UNCHANGED <<setup, cur, next, pend, timer, ip, pc>>
  BY DEF Restore
<1>2. CallbackMarks(c)
  BY DEF MarksHold
<1>3. ASSUME NEW x \in Thread PROVE BitsKept(x)
  <2>1. CASE state'[x] = state[x]
    BY <2>1 DEF BitsKept
  <2>2. CASE cb[c][1] = x /\ state'[x] = cb[c][2]
    <3>1. /\ HasSlept(x) /\ (Guarded(x) => "DETACH" \in cb[c][2])
          /\ "CANCELLED" \in cb[c][2] => Cancelled(x)
      BY <1>1, <1>2, <2>2 DEF CallbackMarks
    <3> QED
      BY <2>2, <3>1 DEF BitsKept
  <2> QED
    BY <1>1, <2>1, <2>2, Domains
<1>4. SchedulerActs
  BY <1>1, <1>3, Domains DEF SchedulerActs
<1>5. \A d \in Lcore : CallbackKept(d)
  BY <1>1, Domains DEF CallbackKept
<1> QED
  BY <1>4, <1>5, SchedulerKeepsMarks

LEMMA ScheduleKeepsMarks ==
  ASSUME PlacesInv, MarksHold, NEW c \in Lcore, Schedule(c)
  PROVE  MarksHold'
<1>0. ASSUME UNCHANGED state PROVE \A x \in Thread : BitsKept(x)
  BY <1>0 DEF BitsKept
<1>1. CASE Synced(c)
  <2>1. sc' = [sc EXCEPT ![c] = "top"]
    BY <1>1 DEF Synced
  <2> QED
    BY <1>0, <1>1, <2>1, TurnKeepsMarks DEF Synced
<1>2. CASE Top(c)
  <2>1. PICK s \in {"stop", "ready"} : sc' = [sc EXCEPT ![c] = s]
    BY <1>2 DEF Top
  <2> QED
    BY <1>0, <1>2, <2>1, TurnKeepsMarks DEF Top
<1>3. CASE Stopped(c)
  <2>1. sc' = [sc EXCEPT ![c] = "stopped"]
    BY <1>3 DEF Stopped
  <2> QED
    BY <1>0, <1>3, <2>1, TurnKeepsMarks DEF Stopped
<1> QED
  BY <1>1, <1>2, <1>3, StartKeepsMarks, PollKeepsMarks, TimerKeepsMarks, SwitchedBackKeepsMarks,
     RestoreKeepsMarks DEF Schedule

LEMMA LaunchedHasNoBits ==
  ASSUME PlacesInv, Call[1] = "launch"
  PROVE  state[Call[2]] = {}
<1>1. PICK K, A : Stands(K, A)
  BY DEF PlacesInv
<1>2. MainHolds
  BY DEF PlacesInv
<1>3. Call[2] \in Thread /\ ~ Born(Call[2])
  <2>1. mip \in Nat
    BY <1>2 DEF MainHolds
  <2> QED
    BY <1>2, <2>1, LaunchIs DEF Born
<1>4. K[Call[2]] = "unborn"
  BY <1>1, <1>3 DEF Stands, ProgsHold
<1> QED
  BY <1>1, <1>3, <1>4 DEF Stands, Placed, StatesHold

LEMMA LaunchKeepsMarks ==
  ASSUME PlacesInv, MarksHold, Launch
  PROVE  MarksHold'
<1>1. /\ Call[1] = "launch" /\ sc' = [sc EXCEPT ![Master] = "made"]
      /\ NewThread(Master, Call[2], Call[3])
      /\ UNCHANGED <<setup, cur, next, cb, pend, timer, ip, pc>>
  BY DEF Launch, Main, Unscheduled
<1>2. Call[2] \in Thread /\ Master \in Lcore
  BY <1>1, LaunchIs DEF PlacesInv
<1>3. state[Call[2]] = {}
  BY <1>1, LaunchedHasNoBits
<1>4. \A x \in Thread : BitsKept(x)
  BY <1>1, <1>2, <1>3, Domains DEF NewThread, BitsKept
<1> QED
  BY <1>1, <1>2, <1>4, TurnKeepsMarks

(* Steps that leave the lthreads and their schedulers as they are. *)
LEMMA UntouchedMarks ==
  ASSUME MarksHold, UNCHANGED <<setup, ip, pc, timer, pend, cur, next, cb, sc, state>>
  PROVE  MarksHold'
<1>1. SchedulerActs /\ \A d \in Lcore : CallbackKept(d)
  BY DEF SchedulerActs, CallbackKept, BitsKept
<1> QED
  BY <1>1, SchedulerKeepsMarks

-----------------------------------------------------------------------------
(* All steps; the counts.                                                 *)

(* The steps of the system, as far as threads and their counts go. *)
Apart ==
  UNCHANGED <<setup, ip, pc, timer, pend, cur, next, cb, sc, state, sched, susp, nb, active, num>>

LEMMA StepIs ==
  ASSUME PlacesInv, MarksHold, [TlsNext]_threadVars
  PROVE  \/ \E c \in Lcore, t \in Thread : Acts(c, t)
         \/ \E c \in Lcore : Schedule(c)
         \/ Launch
         \/ Apart
<1>1. ASSUME MainStep PROVE Launch \/ Apart
  BY <1>1 DEF MainStep, Register, Registered, LaunchRefused, Join, JoinMisses, Unregister,
              UnregisterRefused, Unregistered, lthreadVars, vars, schedVars, flagVars, Unscheduled, Apart
<1>2. ASSUME NEW c \in Lcore, GreenStep(c)
      PROVE  (\E t \in Thread : Acts(c, t)) \/ Schedule(c) \/ Apart
  <2>1. CASE Launcher(c)
    BY <2>1 DEF Launcher, lthreadVars, vars, schedVars, flagVars, Apart
  <2>2. CASE Link(c)
    BY <2>2 DEF Link, schedVars, flagVars, Apart
  <2>3. ASSUME NEW t \in Thread, ThreadStep(c, t)
        PROVE  Acts(c, t) \/ Apart
    <3>1. CASE Derail(c, t)
      BY <3>1 DEF Derail, schedVars, flagVars, Apart
    <3>2. CASE ~ Derail(c, t)
      BY <2>3, <3>2, ThreadActs DEF MarksHold
    <3> QED
      BY <3>1, <3>2
  <2>4. ASSUME NEW t \in Thread, GreenThreadStep(c, t)
        PROVE  Acts(c, t)
    BY <2>4, GreenActs DEF MarksHold
  <2> QED
    BY <1>2, <2>1, <2>2, <2>3, <2>4 DEF GreenStep, LcoreStep
<1>3. ASSUME NEW c \in Lcore, NEW t \in Thread, KeyStep(c, t)
      PROVE  Acts(c, t)
  BY <1>3, KeyActs
<1>4. CASE UNCHANGED threadVars
  BY <1>4 DEF threadVars, allVars, vars, schedVars, flagVars, Apart
<1> QED
  BY <1>1, <1>2, <1>3, <1>4 DEF TlsNext, TlsStep

LEMMA MarksStep ==
  ASSUME PlacesInv, MarksHold, [TlsNext]_threadVars
  PROVE  MarksHold'
BY StepIs, ActsKeepMarks, ScheduleKeepsMarks, LaunchKeepsMarks, UntouchedMarks DEF Apart

LEMMA MarksInit ==
  ASSUME TlsInit
  PROVE  MarksHold
<1>1. /\ timer = [t \in Thread |-> -1] /\ pend = [t \in Thread |-> Nowhere]
      /\ pc = [t \in Thread |-> "op"] /\ ip = [t \in Thread |-> 1] /\ state = [t \in Thread |-> {}]
      /\ sc = [c \in Lcore |-> "off"] /\ next = [c \in Lcore |-> "top"] /\ setup \in Setup
  BY DEF TlsInit, GreenInit, Init
<1>2. ASSUME NEW t \in Thread PROVE ~ Detached(t)
  BY <1>1, IndexIs DEF Detached
<1>3. \A t \in Thread : ThreadMarks(t)
  BY <1>1, <1>2, QueueNames DEF ThreadMarks
<1>4. \A c \in Lcore : CallbackMarks(c)
  BY <1>1 DEF CallbackMarks
<1> QED
  BY <1>3, <1>4 DEF MarksHold

-----------------------------------------------------------------------------
(* The counts. *)
CountsHold ==
  /\ nb \in [Lcore -> Int]
  /\ \A c \in Lcore : nb[c] <= Cardinality(Suspended(c))
  /\ CancelsSleeper \/ \A c \in Lcore : nb[c] = Cardinality(Suspended(c))
  /\ StoppedIsIdle

LEMMA SuspendedAreFinite ==
  ASSUME NEW c
  PROVE  /\ IsFiniteSet(Suspended(c)) /\ Cardinality(Suspended(c)) \in Nat
         /\ IsFiniteSet(Suspended(c)') /\ Cardinality(Suspended(c)') \in Nat
<1>1. Suspended(c) \subseteq Thread /\ Suspended(c)' \subseteq Thread /\ IsFiniteSet(Thread)
  BY LthreadAssumption DEF Suspended
<1>2. IsFiniteSet(Suspended(c)) /\ IsFiniteSet(Suspended(c)')
  BY <1>1, FS_Subset
<1> QED
  BY <1>2, FS_CardinalityType

LEMMA CountsKept ==
  ASSUME CountsHold, UNCHANGED setup, NEW c \in Lcore,
         nb' \in [Lcore -> Int], \A d \in Lcore : d # c => nb'[d] = nb[d] /\ Suspended(d)' = Suspended(d),
         nb'[c] - nb[c] <= Cardinality(Suspended(c)') - Cardinality(Suspended(c)),
         CancelsSleeper \/ nb'[c] - nb[c] = Cardinality(Suspended(c)') - Cardinality(Suspended(c)),
         StoppedIsIdle'
  PROVE  CountsHold'
<1>1. CancelsSleeper' <=> CancelsSleeper
  BY DEF CancelsSleeper
<1>2. \A d \in Lcore : /\ nb[d] \in Int /\ nb'[d] \in Int /\ Cardinality(Suspended(d)) \in Nat
                       /\ Cardinality(Suspended(d)') \in Nat
  BY SuspendedAreFinite DEF CountsHold
<1>3. ASSUME NEW d \in Lcore
      PROVE  /\ nb'[d] <= Cardinality(Suspended(d)')
             /\ CancelsSleeper \/ nb'[d] = Cardinality(Suspended(d)')
  <2>0. nb[d] <= Cardinality(Suspended(d)) /\ (CancelsSleeper \/ nb[d] = Cardinality(Suspended(d)))
    BY DEF CountsHold
  <2>1. CASE d = c
    BY <1>2, <2>0, <2>1
  <2>2. CASE d # c
    BY <2>0, <2>2
  <2> QED
    BY <2>1, <2>2
<1>4. CancelsSleeper' \/ \A d \in Lcore : nb'[d] = Cardinality(Suspended(d)')
  BY <1>1, <1>3
<1>5. \A d \in Lcore : nb'[d] <= Cardinality(Suspended(d)')
  BY <1>3
<1> QED
  BY <1>4, <1>5 DEF CountsHold

LEMMA SameCounts ==
  ASSUME CountsHold, UNCHANGED setup, UNCHANGED nb, \A d \in Lcore : Suspended(d)' = Suspended(d), StoppedIsIdle'
  PROVE  CountsHold'
<1>1. CancelsSleeper' <=> CancelsSleeper
  BY DEF CancelsSleeper
<1>2. nb' \in [Lcore -> Int]
  BY DEF CountsHold
<1>3. \A d \in Lcore : nb'[d] <= Cardinality(Suspended(d)')
  BY DEF CountsHold
<1>4. CancelsSleeper' \/ \A d \in Lcore : nb'[d] = Cardinality(Suspended(d)')
  BY <1>1 DEF CountsHold
<1> QED
  BY <1>2, <1>3, <1>4 DEF CountsHold

-----------------------------------------------------------------------------
(* Running threads and resumed ones keep the counts.                      *)

StopPlace == {"stop", "stopped"}

LEMMA FreedStays ==
  ASSUME PlacesInv, NEW x \in Thread, sched[x] # -1, ~ Alive(x)
  PROVE  "FREED" \in state[x]
BY DEF PlacesInv, Stands, Placed, SchedsHold, StatesHold, Alive

(* Who belongs to a scheduler that has stopped has belonged to it before,   *)
(* and is still freed. *)
LEMMA StoppedKept ==
  ASSUME PlacesInv, StoppedIsIdle, UNCHANGED setup,
         (\A t \in Thread : ~ Sent(t)) => \A d \in Lcore, x \in Thread :
            sc'[d] \in StopPlace /\ sched'[x] = d =>
              \/ sc[d] \in StopPlace /\ sched[x] = d /\ ("FREED" \in state[x] => "FREED" \in state'[x])
              \/ ~ Alive(x)'
  PROVE  StoppedIsIdle'
<1>1. \A t \in Thread : Sent(t)' <=> Sent(t)
  BY DEF Sent, Does
<1>2. ASSUME \A t \in Thread : ~ Sent(t), NEW d \in Lcore, NEW x \in Thread,
             sc'[d] \in StopPlace, sched'[x] = d
      PROVE  ~ Alive(x)'
  <2>1. CASE ~ Alive(x)'
    BY <2>1
  <2>2. CASE sc[d] \in StopPlace /\ sched[x] = d /\ ("FREED" \in state[x] => "FREED" \in state'[x])
    <3>1. ~ Alive(x)
      BY <1>2, <2>2 DEF StoppedIsIdle, StopPlace
    <3>2. "FREED" \in state'[x]
      BY <2>2, <3>1, FreedStays, Numbers
    <3> QED
      BY <3>2 DEF Alive
  <2> QED
    BY <1>2, <2>1, <2>2
<1> QED
  BY <1>1, <1>2 DEF StoppedIsIdle, StopPlace

(* A step of the thread t on lcore c. *)
LEMMA ActsKeepStopped ==
  ASSUME PlacesInv, StoppedIsIdle, NEW c \in Lcore, NEW t \in Thread, Acts(c, t)
  PROVE  StoppedIsIdle'
<1>1. ip[t] \in Nat \ {0} /\ setup \in Setup /\ UNCHANGED setup
  BY ActsGoOn DEF Acts
<1>2. \A d \in Lcore : sc'[d] \in StopPlace => sc[d] \in StopPlace
  BY Domains DEF Acts, PlaceStep, StopPlace
<1>3. \A x \in Thread : state[x] \subseteq state'[x]
  BY DEF Acts, StateStep
<1>4. ASSUME \A x \in Thread : ~ Sent(x) PROVE UNCHANGED sched
  <2>1. Op(t)[1] # "affinity"
    <3>1. ASSUME Op(t)[1] = "affinity" PROVE Does(t, "affinity")
      <4>1. ip[t] \in DOMAIN setup.prog[t] /\ setup.prog[t][ip[t]][1] = "affinity"
        BY <1>1, <3>1, OpIs
      <4> QED
        BY <1>1, <4>1, IndexIs DEF Does
    <3> QED
      BY <1>4, <3>1 DEF Sent
  <2> QED
    BY <2>1 DEF Acts, CountStep
<1> QED
  BY <1>1, <1>2, <1>3, <1>4, StoppedKept

LEMMA ActsKeepCounts ==
  ASSUME PlacesInv, CountsHold, NEW c \in Lcore, NEW t \in Thread, Acts(c, t)
  PROVE  CountsHold'
<1>1. StoppedIsIdle' /\ UNCHANGED setup
  BY ActsKeepStopped DEF CountsHold, Acts
<1>2. ~ susp[t] /\ sched[t] = c
  BY OnIs DEF PlacesInv, Stands, Acts, Running
<1>3. susp \in [Thread -> BOOLEAN] /\ sched = [x \in Thread |-> sched[x]] /\ nb \in [Lcore -> Int]
  BY Domains DEF CountsHold
<1>4. CASE UNCHANGED <<sched, susp, nb>>
  <2>1. \A d \in Lcore : Suspended(d)' = Suspended(d)
    BY <1>4 DEF Suspended
  <2> QED
    BY <1>1, <1>4, <2>1, SameCounts
<1>5. CASE nb' = [nb EXCEPT ![c] = @ + 1] /\ susp' = [susp EXCEPT ![t] = TRUE] /\ UNCHANGED sched
  <2>1. \A d \in Lcore : d # c => nb'[d] = nb[d] /\ Suspended(d)' = Suspended(d)
    BY <1>2, <1>3, <1>5 DEF Suspended
  <2>2. Suspended(c)' = Suspended(c) \cup {t} /\ t \notin Suspended(c)
    BY <1>2, <1>3, <1>5 DEF Suspended
  <2>3. Cardinality(Suspended(c)') = Cardinality(Suspended(c)) + 1 /\ Cardinality(Suspended(c)) \in Nat
    BY <2>2, SuspendedAreFinite, FS_AddElement
  <2>4. nb' \in [Lcore -> Int] /\ nb'[c] = nb[c] + 1 /\ nb[c] \in Int
    BY <1>3, <1>5
  <2>5. nb'[c] - nb[c] = Cardinality(Suspended(c)') - Cardinality(Suspended(c))
        /\ nb'[c] - nb[c] <= Cardinality(Suspended(c)') - Cardinality(Suspended(c))
    BY <2>3, <2>4
  <2> QED
    BY <1>1, <2>1, <2>4, <2>5, CountsKept
<1>6. CASE (\E d \in Lcore : sched' = [sched EXCEPT ![t] = d]) /\ UNCHANGED <<susp, nb>>
  <2>1. \A d \in Lcore : Suspended(d)' = Suspended(d)
    BY <1>2, <1>3, <1>6 DEF Suspended
  <2> QED
    BY <1>1, <1>6, <2>1, SameCounts
<1> QED
  BY <1>4, <1>5, <1>6 DEF Acts, CountStep

-----------------------------------------------------------------------------
(* A cancelled sleeper that the timer does not free has not detached       *)
(* himself before he sleeps. *)
LEMMA CancelledSleeper ==
  ASSUME PlacesInv, MarksHold, NEW t \in Thread, timer[t] # -1,
         "CANCELLED" \in state[t], "DETACH" \notin state[t], "FREED" \notin state[t]
  PROVE  CancelsSleeper
<1>1. HasSlept(t) /\ Cancelled(t) /\ (Guarded(t) /\ Detached(t) => state[t] \cap {"DETACH", "FREED"} # {})
  BY DEF MarksHold, ThreadMarks
<1>2. ~ Guarded(t)
  BY <1>1, SleeperDetached
<1>3. PICK j \in DOMAIN setup.prog[t] : /\ setup.prog[t][j][1] \in SleepOps
                                       /\ \A k \in 1 .. j - 1 : setup.prog[t][k][1] # "detach"
  BY <1>2 DEF Guarded
<1>4. PICK u \in Thread : \E i \in DOMAIN setup.prog[u] :
        setup.prog[u][i][1] = "cancel" /\ setup.prog[u][i][2] = t
  BY <1>1 DEF Cancelled
<1>5. PICK i \in DOMAIN setup.prog[u] : setup.prog[u][i][1] = "cancel" /\ setup.prog[u][i][2] = t
  BY <1>4
<1> QED
  BY <1>3, <1>5 DEF CancelsSleeper

(* n is nb_blocked_threads when the thread t is resumed: the callback of a *)
(* timer has counted out who is cancelled. *)
LEMMA ResumeKeepsCounts ==
  ASSUME PlacesInv, MarksHold, CountsHold, NEW c \in Lcore, NEW t \in Thread, Takes(c, t),
         NEW S, S \subseteq {"EXPIRED"}, NEW n, Resume(c, t, state[t] \cup S, n),
         \/ n = nb[c]
         \/ FromTimer(c, t) /\ "CANCELLED" \in state[t] /\ n = nb[c] - 1,
         UNCHANGED setup
  PROVE  CountsHold'
<1>1. /\ sched[t] \in {c, -1} /\ "FREED" \notin state[t] /\ state[t] # {}
      /\ "INIT" \in state[t] <=> sched[t] = -1
      /\ "INIT" \in state[t] => state[t] = {"INIT"}
      /\ sched[t] = -1 => ~ susp[t]
      /\ FromTimer(c, t) => sched[t] = c /\ susp[t] = TRUE /\ timer[t] = c
      /\ susp \in [Thread -> BOOLEAN] /\ sched = [x \in Thread |-> sched[x]]
      /\ state = [x \in Thread |-> state[x]] /\ sc = [d \in Lcore |-> sc[d]]
  BY TakenIs
<1>2. nb \in [Lcore -> Int] /\ nb[c] \in Int /\ n \in Int /\ -1 \notin Lcore
  BY Numbers DEF CountsHold
<1> DEFINE st == state[t] \cup S
<1>3. /\ state[t] \subseteq st /\ "FREED" \notin st /\ ("INIT" \in st <=> "INIT" \in state[t])
      /\ "DETACH" \in st <=> "DETACH" \in state[t]
  BY <1>1
<1>4. CASE "DETACH" \in st /\ st \cap {"CANCELLED", "EXITED"} # {}
  <2>1. /\ state' = [state EXCEPT ![t] = {"FREED"}]
        /\ sc' = [sc EXCEPT ![c] = "back"] /\ nb' = [nb EXCEPT ![c] = n]
        /\ susp' = [susp EXCEPT ![t] = @ /\ n = nb[c]] /\ UNCHANGED sched
    BY <1>4 DEF Resume
  <2>2. StoppedIsIdle'
    <3>1. \A d \in Lcore, x \in Thread : sc'[d] \in StopPlace /\ sched'[x] = d =>
            sc[d] \in StopPlace /\ sched[x] = d /\ ("FREED" \in state[x] => "FREED" \in state'[x])
      BY <1>1, <2>1 DEF StopPlace
    <3> QED
      BY <3>1, StoppedKept DEF CountsHold
  <2>3. CASE n = nb[c]
    <3>1. UNCHANGED nb /\ UNCHANGED <<susp, sched>>
      BY <1>1, <1>2, <2>1, <2>3
    <3>2. \A d \in Lcore : Suspended(d)' = Suspended(d)
      BY <3>1 DEF Suspended
    <3> QED
      BY <2>2, <3>1, <3>2, SameCounts
  <2>4. CASE FromTimer(c, t) /\ n = nb[c] - 1
    <3>1. susp' = [susp EXCEPT ![t] = FALSE] /\ nb'[c] = nb[c] - 1 /\ nb' \in [Lcore -> Int]
          /\ \A d \in Lcore : d # c => nb'[d] = nb[d]
      <4>1. n # nb[c]
        BY <1>2, <2>4
      <4> QED
        BY <1>1, <1>2, <2>1, <2>4, <4>1
    <3>2. Suspended(c)' = Suspended(c) \ {t} /\ t \in Suspended(c)
      BY <1>1, <2>1, <2>4, <3>1 DEF Suspended
    <3>3. \A d \in Lcore : d # c => Suspended(d)' = Suspended(d)
      BY <1>1, <2>1, <2>4, <3>1 DEF Suspended
    <3>4. Cardinality(Suspended(c)') = Cardinality(Suspended(c)) - 1 /\ Cardinality(Suspended(c)) \in Nat
      BY <3>2, SuspendedAreFinite, FS_RemoveElement
    <3>5. nb'[c] - nb[c] = Cardinality(Suspended(c)') - Cardinality(Suspended(c))
          /\ nb'[c] - nb[c] <= Cardinality(Suspended(c)') - Cardinality(Suspended(c))
      BY <1>2, <3>1, <3>4
    <3> QED
      BY <2>2, <3>1, <3>3, <3>5, CountsKept
  <2> QED
    BY <2>3, <2>4
<1>5. CASE ~ ("DETACH" \in st /\ st \cap {"CANCELLED", "EXITED"} # {})
  <2>1. /\ sc' = [sc EXCEPT ![c] = "run"]
        /\ sched' = IF "INIT" \in st THEN [sched EXCEPT ![t] = c] ELSE sched
        /\ state' = [state EXCEPT ![t] = IF "INIT" \in st THEN {"READY"} ELSE st]
        /\ susp' = [susp EXCEPT ![t] = FALSE]
        /\ nb' = [nb EXCEPT ![c] = IF susp[t] THEN n - 1 ELSE n]
    BY <1>5 DEF Resume
  <2>2. StoppedIsIdle'
    <3>1. \A d \in Lcore, x \in Thread : sc'[d] \in StopPlace /\ sched'[x] = d =>
            sc[d] \in StopPlace /\ sched[x] = d /\ ("FREED" \in state[x] => "FREED" \in state'[x])
      BY <1>1, <2>1 DEF StopPlace
    <3> QED
      BY <3>1, StoppedKept DEF CountsHold
  <2>3. \A x \in Thread : x # t => susp'[x] = susp[x] /\ sched'[x] = sched[x]
    BY <1>1, <2>1
  <2>4. susp'[t] = FALSE
    BY <1>1, <2>1
  <2>5. \A d \in Lcore : Suspended(d)' = Suspended(d) \ {t}
    BY <2>3, <2>4 DEF Suspended
  <2>6. \A d \in Lcore : d # c => t \notin Suspended(d)
    BY <1>1, <1>2 DEF Suspended
  <2>7. \A d \in Lcore : d # c => nb'[d] = nb[d] /\ Suspended(d)' = Suspended(d)
    BY <1>2, <2>1, <2>5, <2>6
  <2>8. nb' \in [Lcore -> Int] /\ nb'[c] = IF susp[t] THEN n - 1 ELSE n
    BY <1>2, <2>1
  <2>9. Suspended(c)' = Suspended(c) \ {t} /\ (t \in Suspended(c) <=> susp[t])
    BY <1>1, <1>2, <2>5 DEF Suspended
  <2>10. /\ Cardinality(Suspended(c)) \in Nat
         /\ Cardinality(Suspended(c)') = IF susp[t] THEN Cardinality(Suspended(c)) - 1
                                         ELSE Cardinality(Suspended(c))
    BY <2>9, SuspendedAreFinite, FS_RemoveElement
  <2>11. n = nb[c] \/ (n = nb[c] - 1 /\ CancelsSleeper)
    <3>1. ASSUME FromTimer(c, t), "CANCELLED" \in state[t] PROVE CancelsSleeper
      <4>1. "DETACH" \notin state[t]
        BY <1>5, <3>1
      <4>2. timer[t] # -1
        BY <1>1, <1>2, <3>1
      <4> QED
        BY <1>1, <3>1, <4>1, <4>2, CancelledSleeper
    <3> QED
      BY <3>1
  <2>12. susp[t] \in BOOLEAN
    BY <1>1
  <2>13. /\ nb'[c] - nb[c] <= Cardinality(Suspended(c)') - Cardinality(Suspended(c))
         /\ CancelsSleeper \/ nb'[c] - nb[c] = Cardinality(Suspended(c)') - Cardinality(Suspended(c))
    BY <1>2, <2>8, <2>10, <2>11, <2>12
  <2> QED
    BY <2>2, <2>7, <2>8, <2>13, CountsKept
<1> QED
  BY <1>4, <1>5

-----------------------------------------------------------------------------
(* Schedulers keep the counts, and the theorem.                           *)

(* A scheduler that finds its loop done, and no operation sends threads to *)
(* others, has none left: who is alive is in one of its queues or counted. *)
LEMMA DoneIsIdle ==
  ASSUME PlacesInv, MarksHold, CountsHold, \A t \in Thread : ~ Sent(t),
         NEW c \in Lcore, sc[c] = "top", IsDone(c), NEW x \in Thread, sched[x] = c
  PROVE  ~ Alive(x)
<1>1. PICK K, A : Stands(K, A)
  BY DEF PlacesInv
<1>2. Placed(K, A)
  BY <1>1 DEF Stands
<1>3. ~ CancelsSleeper
  <2>1. ASSUME CancelsSleeper PROVE FALSE
    <3>1. PICK t \in Thread : \E i \in DOMAIN setup.prog[t] : setup.prog[t][i][1] = "cancel"
      BY <2>1 DEF CancelsSleeper
    <3>2. Does(t, "cancel")
      BY <3>1, IndexIs DEF Does, PlacesInv, MainHolds
    <3> QED
      BY <3>2 DEF Sent
  <2> QED
    BY <2>1
<1>4. ~ susp[x]
  <2>1. Cardinality(Suspended(c)) = 0
    BY <1>3 DEF CountsHold, IsDone
  <2>2. Suspended(c) = {}
    BY <2>1, SuspendedAreFinite, FS_EmptySet
  <2> QED
    BY <2>2 DEF Suspended
<1>5. ~ Sleepy(K, A, x)
  BY <1>2, <1>4 DEF Placed, StatesHold
<1>6. ASSUME Alive(x) PROVE FALSE
  <2>1. K[x] \in Kind \ {"unborn", "freed"}
    BY <1>2, <1>6 DEF Placed, StatesHold, Alive
  <2>2. K[x] \notin {"un", "parked", "timer"}
    BY <1>5 DEF Sleepy
  <2>3. CASE K[x] = "queue"
    <3>1. A[x] \in QueueName /\ A[x] \notin Blocking /\ Has(queue[A[x]], x)
      BY <1>2, <1>5, <2>3 DEF Placed, QueuesHold, Sleepy
    <3>2. PICK d \in Lcore : A[x] \in {Ready(d), PReady(d)}
      BY <3>1, QueueNames
    <3>3. d = c
      BY <1>2, <2>3, <3>2, Numbers DEF Placed, SchedsHold
    <3>4. queue[A[x]] = <<>>
      BY <3>2, <3>3 DEF IsDone
    <3> QED
      BY <3>1, <3>4 DEF Has
  <2>4. CASE K[x] = "on"
    <3>1. A[x] = c
      BY <1>2, <2>4 DEF Placed, SchedsHold
    <3> QED
      BY <1>2, <2>4, <3>1 DEF Placed, LcoresHold
  <2>5. CASE K[x] = "pend"
    <3>1. pend[x] # Nowhere /\ pend[x] \in QueueName \cup {Nowhere}
      BY <1>2, <2>5 DEF Placed, LcoresHold
    <3>2. pend[x] \notin Blocking
      BY <1>5 DEF Sleepy
    <3>3. PICK d \in Lcore : pend[x] \in {Ready(d), PReady(d)}
      BY <3>1, <3>2, QueueNames
    <3>4. pend[x] = PReady(d)
      BY <1>2, <3>3 DEF Placed, SchedsHold
    <3>5. Does(x, "affinity")
      BY <3>4 DEF MarksHold, ThreadMarks
    <3> QED
      BY <3>5 DEF Sent
  <2> QED
    BY <2>1, <2>2, <2>3, <2>4, <2>5 DEF Kind
<1> QED
  BY <1>6

(* Steps that only move the scheduler of c. *)
LEMMA TurnKeepsCounts ==
  ASSUME PlacesInv, CountsHold, NEW c \in Lcore, NEW s, sc' = [sc EXCEPT ![c] = s],
         s \in StopPlace => \/ sc[c] \in StopPlace
                            \/ (\A t \in Thread : ~ Sent(t)) =>
                                 \A x \in Thread : sched[x] = c => ~ Alive(x)',
         UNCHANGED <<setup, susp, sched, nb>>,
         \A x \in Thread : "FREED" \in state[x] => "FREED" \in state'[x]
  PROVE  CountsHold'
<1>1. \A d \in Lcore : Suspended(d)' = Suspended(d)
  BY DEF Suspended
<1>2. sc = [d \in Lcore |-> sc[d]]
  BY Domains
<1>3. StoppedIsIdle
  BY DEF CountsHold
<1>4. ASSUME \A t \in Thread : ~ Sent(t), NEW d \in Lcore, NEW x \in Thread,
             sc'[d] \in StopPlace, sched'[x] = d
      PROVE  \/ sc[d] \in StopPlace /\ sched[x] = d /\ ("FREED" \in state[x] => "FREED" \in state'[x])
             \/ ~ Alive(x)'
  <2>1. CASE d = c
    BY <1>2, <1>4, <2>1
  <2>2. CASE d # c
    BY <1>2, <1>4, <2>2
  <2> QED
    BY <2>1, <2>2
<1>5. StoppedIsIdle'
  BY <1>3, <1>4, StoppedKept
<1> QED
  BY <1>1, <1>5, SameCounts

LEMMA PollKeepsCounts ==
  ASSUME PlacesInv, MarksHold, CountsHold, NEW c \in Lcore, PollReady(c) \/ PollPReady(c)
  PROVE  CountsHold'
<1>1. PICK q \in {Ready(c), PReady(c)}, there \in {"pready", "top"} :
        Poll(c, q, sc[c], there) /\ sc[c] \in {"ready", "pready"}
  BY DEF PollReady, PollPReady, Poll
<1>2. UNCHANGED <<setup, cb, timer>>
  BY <1>1 DEF Poll
<1>3. CASE Pollable(q)
  <2>1. PICK t : t = Head(queue[q])
    OBVIOUS
  <2>2. /\ queue[q] # <<>> /\ queue' = [queue EXCEPT ![q] = Tail(@)]
        /\ Resume(c, t, state[t], nb[c]) /\ next' = [next EXCEPT ![c] = there]
    BY <1>1, <1>3, <2>1 DEF Poll, Pollable
  <2>3. t \in Thread
    BY <2>1, <2>2, HeadIs, QueueNames DEF PlacesInv, Stands, Placed
  <2>4. Takes(c, t)
    <3>1. next'[c] # "timer"
      BY <2>2, Domains
    <3> QED
      BY <1>1, <1>2, <2>1, <2>2, <3>1 DEF FromQueue, Takes
  <2>5. Resume(c, t, state[t] \cup {}, nb[c])
    <3>1. state[t] \cup {} = state[t]
      OBVIOUS
    <3> QED
      BY <2>2, <3>1
  <2> QED
    BY <1>2, <2>3, <2>4, <2>5, ResumeKeepsCounts
<1>4. CASE ~ Pollable(q)
  <2>1. sc' = [sc EXCEPT ![c] = there] /\ UNCHANGED <<state, susp, sched, nb>>
    BY <1>1, <1>4 DEF Poll
  <2>2. there \notin StopPlace
    BY DEF StopPlace
  <2> QED
    BY <1>2, <2>1, <2>2, TurnKeepsCounts
<1> QED
  BY <1>3, <1>4

LEMMA TimerKeepsCounts ==
  ASSUME PlacesInv, MarksHold, CountsHold, NEW c \in Lcore, NEW t \in Thread, TimerExpires(c, t)
  PROVE  CountsHold'
<1>1. sc[c] = "ready" /\ FromTimer(c, t) /\ UNCHANGED setup
  BY DEF TimerExpires, FromTimer
<1>2. PICK n : /\ Resume(c, t, state[t] \cup {"EXPIRED"}, n)
               /\ n = IF "CANCELLED" \in state[t] THEN nb[c] - 1 ELSE nb[c]
  BY DEF TimerExpires
<1>3. n = nb[c] \/ (FromTimer(c, t) /\ "CANCELLED" \in state[t] /\ n = nb[c] - 1)
  BY <1>1, <1>2
<1> QED
  BY <1>1, <1>2, <1>3, ResumeKeepsCounts DEF Takes

LEMMA StartGrows ==
  ASSUME PlacesInv, NEW c \in Lcore, Start(c), NEW x \in Thread
  PROVE  state[x] \subseteq state'[x]
<1>1. PICK K, A : Stands(K, A)
  BY DEF PlacesInv
<1>2. Has(setup.root[c], x) => K[x] = "unborn"
  BY <1>1, RootsAreUnborn DEF Start, PlacesInv, Stands
<1>3. state' = [t \in Thread |-> IF \E i \in 1 .. Len(setup.root[c]) : setup.root[c][i] = t
                                 THEN {"INIT"} ELSE state[t]]
  BY DEF Start
<1>4. state'[x] = IF Has(setup.root[c], x) THEN {"INIT"} ELSE state[x]
  BY <1>3 DEF Has
<1> QED
  BY <1>1, <1>2, <1>4 DEF Stands, Placed, StatesHold

LEMMA ScheduleKeepsCounts ==
  ASSUME PlacesInv, MarksHold, CountsHold, NEW c \in Lcore, Schedule(c)
  PROVE  CountsHold'
<1>1. CASE Start(c)
  <2>1. sc' = [sc EXCEPT ![c] = "sync"] /\ UNCHANGED <<setup, susp, sched, nb>>
    BY <1>1 DEF Start
  <2> QED
    BY <1>1, <2>1, StartGrows, TurnKeepsCounts DEF StopPlace
<1>2. CASE Synced(c)
  <2>1. sc' = [sc EXCEPT ![c] = "top"] /\ UNCHANGED <<setup, susp, sched, nb, state>>
    BY <1>2 DEF Synced
  <2> QED
    BY <2>1, TurnKeepsCounts DEF StopPlace
<1>3. CASE Top(c)
  <2>1. sc[c] = "top" /\ UNCHANGED <<setup, susp, sched, nb, state>>
    BY <1>3 DEF Top
  <2>2. CASE IsDone(c)
    <3>1. sc' = [sc EXCEPT ![c] = "stop"]
      BY <1>3, <2>2 DEF Top
    <3>2. (\A t \in Thread : ~ Sent(t)) => \A x \in Thread : sched[x] = c => ~ Alive(x)
      BY <2>1, <2>2, DoneIsIdle
    <3>3. \A x \in Thread : Alive(x)' <=> Alive(x)
      BY <2>1 DEF Alive
    <3> QED
      BY <2>1, <3>1, <3>2, <3>3, TurnKeepsCounts
  <2>3. CASE ~ IsDone(c)
    <3>1. sc' = [sc EXCEPT ![c] = "ready"]
      BY <1>3, <2>3 DEF Top
    <3> QED
      BY <2>1, <3>1, TurnKeepsCounts DEF StopPlace
  <2> QED
    BY <2>2, <2>3
<1>4. CASE Stopped(c)
  <2>1. sc[c] = "stop" /\ sc' = [sc EXCEPT ![c] = "stopped"] /\ UNCHANGED <<setup, susp, sched, nb, state>>
    BY <1>4 DEF Stopped
  <2> QED
    BY <2>1, TurnKeepsCounts DEF StopPlace
<1>5. CASE SwitchedBack(c)
  <2>1. sc[c] = "back" /\ sc' = [sc EXCEPT ![c] = next[c]] /\ UNCHANGED <<setup, susp, sched, nb, state>>
    BY <1>5 DEF SwitchedBack
  <2>2. next[c] \notin StopPlace
    BY DEF PlacesInv, Stands, Placed, CallbacksHold, StopPlace
  <2> QED
    BY <2>1, <2>2, TurnKeepsCounts
<1>6. CASE Restore(c)
  <2>1. sc[c] = "timer" /\ sc' = [sc EXCEPT ![c] = "ready"] /\ UNCHANGED <<setup, susp, sched, nb>>
        /\ (UNCHANGED state \/ ("FREED" \notin state[cb[c][1]] /\ state' = [state EXCEPT ![cb[c][1]] = cb[c][2]]))
    BY <1>6 DEF Restore
  <2>2. \A x \in Thread : "FREED" \in state[x] => "FREED" \in state'[x]
    BY <2>1, Domains
  <2> QED
    BY <2>1, <2>2, TurnKeepsCounts DEF StopPlace
<1> QED
  BY <1>1, <1>2, <1>3, <1>4, <1>5, <1>6, PollKeepsCounts, TimerKeepsCounts DEF Schedule

LEMMA LaunchKeepsCounts ==
  ASSUME PlacesInv, CountsHold, Launch
  PROVE  CountsHold'
<1>1. /\ Call[1] = "launch" /\ sc' = [sc EXCEPT ![Master] = "made"]
      /\ NewThread(Master, Call[2], Call[3])
      /\ UNCHANGED <<setup, susp, sched, nb>>
  BY DEF Launch, Main, Unscheduled
<1>2. Call[2] \in Thread /\ Master \in Lcore
  BY <1>1, LaunchIs DEF PlacesInv
<1>3. state[Call[2]] = {}
  BY <1>1, LaunchedHasNoBits
<1>4. \A x \in Thread : "FREED" \in state[x] => "FREED" \in state'[x]
  BY <1>1, <1>2, <1>3, Domains DEF NewThread
<1> QED
  BY <1>1, <1>2, <1>4, TurnKeepsCounts DEF StopPlace

LEMMA CountsStep ==
  ASSUME PlacesInv, MarksHold, CountsHold, [TlsNext]_threadVars
  PROVE  CountsHold'
<1>1. CASE Apart
  <2>1. StoppedIsIdle' /\ \A d \in Lcore : Suspended(d)' = Suspended(d)
    BY <1>1 DEF Apart, CountsHold, StoppedIsIdle, Sent, Does, Alive, Suspended
  <2> QED
    BY <1>1, <2>1, SameCounts DEF Apart
<1> QED
  BY <1>1, StepIs, ActsKeepCounts, ScheduleKeepsCounts, LaunchKeepsCounts

LEMMA CountsInit ==
  ASSUME TlsInit
  PROVE  CountsHold
<1>1. /\ nb = [c \in Lcore |-> 0] /\ susp = [t \in Thread |-> FALSE] /\ sc = [c \in Lcore |-> "off"]
  BY DEF TlsInit, GreenInit, Init
<1>2. \A c \in Lcore : Suspended(c) = {}
  BY <1>1 DEF Suspended
<1>3. \A c \in Lcore : nb[c] = Cardinality(Suspended(c)) /\ nb[c] <= Cardinality(Suspended(c))
  BY <1>1, <1>2, FS_EmptySet
<1> QED
  BY <1>1, <1>3 DEF CountsHold, StoppedIsIdle

(* lthread_sched.h: nb_blocked_threads, which _suspend increments before   *)
(* the switch and decrements after it, and the timer callback for the      *)
(* cancelled, is never more than the threads of the scheduler that are     *)
(* suspended, and equal if no sleeper is cancelled; so lthread_run does    *)
(* not end before them. *)
THEOREM TheSuspendedAreCounted == TlsSpec => []SuspendedAreCounted
<1> DEFINE I == PlacesInv /\ MarksHold /\ CountsHold
<1>1. TlsInit => I
  BY PlacesInit, MarksInit, CountsInit
<1>2. I /\ [TlsNext]_threadVars => I'
  BY PlacesStep, MarksStep, CountsStep
<1>3. I => SuspendedAreCounted
  BY DEF CountsHold, SuspendedAreCounted
<1> QED
  BY <1>1, <1>2, <1>3, PTL DEF TlsSpec

-----------------------------------------------------------------------------
(* Starts: bits that stay, schedulers that have started.                  *)

(* Schedulers that have started, and those that wait for the others. *)
Beginning == {"off", "made"}
Waiting == {"off", "made", "sync"}
Started == {c \in Lcore : sc[c] \notin Beginning}

LEMMA StartedAreFinite ==
  /\ IsFiniteSet(Started) /\ Cardinality(Started) \in Nat
  /\ IsFiniteSet(Started') /\ Cardinality(Started') \in Nat
<1>1. Started \subseteq Lcore /\ Started' \subseteq Lcore /\ IsFiniteSet(Lcore)
  BY LthreadAssumption DEF Started
<1>2. IsFiniteSet(Started) /\ IsFiniteSet(Started')
  BY <1>1, FS_Subset
<1> QED
  BY <1>2, FS_CardinalityType

(* Nothing happens after a mishap. *)
LEMMA MishapsLast ==
  ASSUME [TlsNext]_threadVars
  PROVE  mishap = "none" \/ UNCHANGED threadVars
<1>1. ASSUME TlsNext PROVE mishap = "none"
  <2>1. ASSUME MainStep PROVE mishap = "none"
    BY <2>1 DEF MainStep, Register, Registered, LaunchRefused, Launch, Join, JoinMisses, Unregister,
                UnregisterRefused, Unregistered, Main, MainAt
  <2>2. ASSUME NEW c \in Lcore, TlsStep(c) PROVE mishap = "none"
    BY <2>2 DEF TlsStep, GreenStep, Launcher, LcoreStep, Idle
  <2> QED
    BY <1>1, <2>1, <2>2 DEF TlsNext
<1> QED
  BY <1>1

-----------------------------------------------------------------------------
(* Who has state bits keeps some. *)
LEMMA ResumeLeavesBits ==
  ASSUME PlacesInv, NEW c, NEW t, NEW S, NEW n, Resume(c, t, state[t] \cup S, n),
         NEW x \in Thread, state[x] # {}
  PROVE  state'[x] # {}
<1>1. \/ state' = [state EXCEPT ![t] = {"FREED"}]
      \/ state' = [state EXCEPT ![t] = {"READY"}]
      \/ state' = [state EXCEPT ![t] = state[t] \cup S]
  BY DEF Resume
<1>2. x # t \/ state[t] \cup S # {}
  OBVIOUS
<1> QED
  BY <1>1, <1>2, Domains

LEMMA BitsStay ==
  ASSUME PlacesInv, MarksHold, [TlsNext]_threadVars, NEW x \in Thread, state[x] # {}
  PROVE  state'[x] # {}
<1>1. ASSUME NEW c \in Lcore, NEW t \in Thread, Acts(c, t) PROVE state'[x] # {}
  BY <1>1 DEF Acts, StateStep
<1>2. ASSUME NEW c \in Lcore, Schedule(c) PROVE state'[x] # {}
  <2>1. CASE Start(c)
    BY <2>1, StartGrows
  <2>2. CASE Synced(c) \/ Top(c) \/ Stopped(c) \/ SwitchedBack(c)
    BY <2>2 DEF Synced, Top, Stopped, SwitchedBack
  <2>3. ASSUME NEW q, NEW here, NEW there, Poll(c, q, here, there) PROVE state'[x] # {}
    <3>1. CASE Pollable(q)
      <4>1. Resume(c, Head(queue[q]), state[Head(queue[q])], nb[c])
        BY <2>3, <3>1 DEF Poll
      <4>2. state[Head(queue[q])] \cup {} = state[Head(queue[q])]
        OBVIOUS
      <4> QED
        BY <4>1, <4>2, ResumeLeavesBits
    <3>2. CASE ~ Pollable(q)
      BY <2>3, <3>2 DEF Poll
    <3> QED
      BY <3>1, <3>2
  <2>4. ASSUME NEW t \in Thread, TimerExpires(c, t) PROVE state'[x] # {}
    BY <2>4, ResumeLeavesBits DEF TimerExpires
  <2>5. CASE Restore(c)
    <3>1. sc[c] = "timer" /\ (UNCHANGED state \/ state' = [state EXCEPT ![cb[c][1]] = cb[c][2]])
      BY <2>5 DEF Restore
    <3>2. "SLEEPING" \in cb[c][2]
      BY <3>1 DEF PlacesInv, Stands, Placed, CallbacksHold
    <3> QED
      BY <3>1, <3>2, Domains
  <2> QED
    BY <1>2, <2>1, <2>2, <2>3, <2>4, <2>5 DEF Schedule, PollReady, PollPReady
<1>3. CASE Launch
  <2>1. UNCHANGED state \/ state' = [state EXCEPT ![Call[2]] = {"INIT"}]
    BY <1>3 DEF Launch, NewThread
  <2> QED
    BY <2>1, Domains
<1>4. CASE Apart
  BY <1>4 DEF Apart
<1> QED
  BY <1>1, <1>2, <1>3, <1>4, StepIs

-----------------------------------------------------------------------------
(* Starts are for good, and only Start and Top touch the counts. *)
Onward == \A d \in Lcore : sc'[d] \notin Waiting => sc[d] \notin Waiting \/ active >= num

Level == UNCHANGED <<active, num>> \/ (active' = active - 1 /\ num' = num - 1)

LEMMA TurnGoesOn ==
  ASSUME PlacesInv, NEW c \in Lcore, NEW s, s \notin Beginning, sc[c] \notin Beginning,
         sc[c] # "sync" \/ active >= num, sc' = [sc EXCEPT ![c] = s]
  PROVE  Started' = Started /\ Onward
<1>1. \A d \in Lcore : sc'[d] = IF d = c THEN s ELSE sc[d]
  BY Domains
<1> QED
  BY <1>1 DEF Started, Onward, Waiting, Beginning

LEMMA StartsGoOn ==
  ASSUME PlacesInv, MarksHold, [TlsNext]_threadVars
  PROVE  \/ \E c \in Lcore : Start(c)
         \/ Started' = Started /\ Onward /\ UNCHANGED setup /\ Level
<1>1. ASSUME NEW c \in Lcore, NEW t \in Thread, Acts(c, t)
      PROVE  Started' = Started /\ Onward /\ UNCHANGED setup /\ Level
  <2>1. sc[c] = "run" /\ (UNCHANGED sc \/ sc' = [sc EXCEPT ![c] = "back"])
    BY <1>1 DEF Acts, PlaceStep, Running
  <2>2. CASE UNCHANGED sc
    BY <1>1, <2>2 DEF Acts, Started, Onward, Level
  <2>3. CASE sc' = [sc EXCEPT ![c] = "back"]
    BY <1>1, <2>1, <2>3, TurnGoesOn DEF Acts, Beginning, Level
  <2> QED
    BY <2>1, <2>2, <2>3
<1>2. ASSUME NEW c \in Lcore, Schedule(c), ~ Start(c)
      PROVE  Started' = Started /\ Onward /\ UNCHANGED setup /\ Level
  <2>1. CASE Synced(c)
    BY <2>1, TurnGoesOn DEF Synced, Beginning, Level, flagVars
  <2>2. CASE Top(c)
    <3>1. PICK s \in {"stop", "ready"} : sc' = [sc EXCEPT ![c] = s] /\ sc[c] = "top"
      BY <2>2 DEF Top
    <3>2. Started' = Started /\ Onward
      BY <3>1, TurnGoesOn DEF Beginning
    <3> QED
      BY <2>2, <3>2 DEF Top, Level
  <2>3. CASE Stopped(c)
    BY <2>3, TurnGoesOn DEF Stopped, Beginning, Level, flagVars
  <2>4. ASSUME NEW q, NEW here \in {"ready", "pready"}, NEW there \in {"pready", "top"}, Poll(c, q, here, there)
        PROVE  Started' = Started /\ Onward /\ UNCHANGED setup /\ Level
    <3>1. PICK s \in {"run", "back", "pready", "top"} : sc' = [sc EXCEPT ![c] = s]
      BY <2>4 DEF Poll, Resume
    <3>2. sc[c] = here /\ UNCHANGED <<setup, active, num>>
      BY <2>4 DEF Poll, flagVars
    <3> QED
      BY <3>1, <3>2, TurnGoesOn DEF Beginning, Level
  <2>5. ASSUME NEW t \in Thread, TimerExpires(c, t)
        PROVE  Started' = Started /\ Onward /\ UNCHANGED setup /\ Level
    <3>1. PICK s \in {"run", "back"} : sc' = [sc EXCEPT ![c] = s]
      BY <2>5 DEF TimerExpires, Resume
    <3>2. sc[c] = "ready" /\ UNCHANGED <<setup, active, num>>
      BY <2>5 DEF TimerExpires, flagVars
    <3> QED
      BY <3>1, <3>2, TurnGoesOn DEF Beginning, Level
  <2>6. CASE SwitchedBack(c)
    <3>1. sc' = [sc EXCEPT ![c] = next[c]] /\ sc[c] = "back" /\ UNCHANGED <<setup, active, num>>
      BY <2>6 DEF SwitchedBack, flagVars
    <3>2. next[c] \notin Beginning
      BY DEF PlacesInv, Stands, Placed, CallbacksHold, Beginning
    <3> QED
      BY <3>1, <3>2, TurnGoesOn DEF Beginning, Level
  <2>7. CASE Restore(c)
    BY <2>7, TurnGoesOn DEF Restore, Beginning, Level, flagVars
  <2> QED
    BY <1>2, <2>1, <2>2, <2>3, <2>4, <2>5, <2>6, <2>7 DEF Schedule, PollReady, PollPReady
<1>3. CASE Launch
  <2>1. sc' = [sc EXCEPT ![Master] = "made"] /\ UNCHANGED <<setup, active, num>> /\ Call[1] = "launch"
    BY <1>3 DEF Launch, Main, Unscheduled, flagVars
  <2>2. sc[Master] \in {"off", "made"}
    BY <2>1, CallIs DEF PlacesInv, MainHolds
  <2>3. \A d \in Lcore : sc'[d] = IF d = Master THEN "made" ELSE sc[d]
    BY <2>1, Domains
  <2> QED
    BY <2>1, <2>2, <2>3 DEF Started, Onward, Beginning, Waiting, Level
<1>4. CASE Apart
  BY <1>4 DEF Apart, Started, Onward, Level
<1> QED
  BY <1>1, <1>2, <1>3, <1>4, StepIs

-----------------------------------------------------------------------------
(* Starts are counted, and the created have bits.                         *)

LEMMA SetupNum ==
  ASSUME PlacesInv
  PROVE  setup \in Setup /\ setup.num \in Nat
BY LthreadAssumption DEF PlacesInv, MainHolds

(* The difference of the two counts says how many schedulers have started; *)
(* one that goes on has found enough of them. *)
Counted ==
  /\ active \in Int /\ num \in Int
  /\ active - num = Cardinality(Started) - setup.num
  /\ \A c \in Lcore : sc[c] \notin Waiting => setup.num <= Cardinality(Started)

LEMMA CountedKept ==
  ASSUME PlacesInv, MarksHold, Counted, [TlsNext]_threadVars
  PROVE  Counted' /\ UNCHANGED setup
<1>1. /\ setup.num \in Nat /\ Cardinality(Started) \in Nat /\ Cardinality(Started') \in Nat
      /\ IsFiniteSet(Started)
  BY SetupNum, StartedAreFinite
<1>2. ASSUME NEW c \in Lcore, Start(c) PROVE Counted' /\ UNCHANGED setup
  <2>1. /\ sc[c] = "off" /\ sc' = [sc EXCEPT ![c] = "sync"] /\ active' = active + 1
        /\ UNCHANGED <<num, setup>>
    BY <1>2 DEF Start
  <2>2. \A d \in Lcore : sc'[d] = IF d = c THEN "sync" ELSE sc[d]
    BY <2>1, Domains
  <2>3. Started' = Started \cup {c} /\ c \notin Started
    BY <2>1, <2>2 DEF Started, Beginning
  <2>4. Cardinality(Started') = Cardinality(Started) + 1
    BY <1>1, <2>3, FS_AddElement
  <2>5. \A d \in Lcore : sc'[d] \notin Waiting => sc[d] \notin Waiting
    BY <2>2 DEF Waiting
  <2> QED
    BY <1>1, <2>1, <2>4, <2>5 DEF Counted
<1>3. CASE Started' = Started /\ Onward /\ UNCHANGED setup /\ Level
  <2>1. active' \in Int /\ num' \in Int /\ active' - num' = active - num
    BY <1>3 DEF Counted, Level
  <2>2. \A d \in Lcore : sc'[d] \notin Waiting => setup.num <= Cardinality(Started)
    BY <1>1, <1>3 DEF Counted, Onward
  <2> QED
    BY <1>3, <2>1, <2>2 DEF Counted
<1> QED
  BY <1>2, <1>3, StartsGoOn

(* Those whom a scheduler creates when it starts. *)
RootsHaveBits == \A c \in Started : \A i \in DOMAIN setup.root[c] : state[setup.root[c][i]] # {}

LEMMA RootsKept ==
  ASSUME PlacesInv, MarksHold, RootsHaveBits, [TlsNext]_threadVars, UNCHANGED setup
  PROVE  RootsHaveBits'
<1>1. ASSUME NEW c \in Lcore, NEW i \in DOMAIN setup.root[c]
      PROVE  /\ setup.root[c][i] \in Thread /\ i \in 1 .. Len(setup.root[c])
             /\ c \in Started => state'[setup.root[c][i]] # {}
  <2>1. setup.root[c] \in Seq(Thread)
    BY LthreadAssumption, SetupNum
  <2>2. setup.root[c][i] \in Thread /\ i \in 1 .. Len(setup.root[c])
    BY <2>1
  <2> QED
    BY <2>2, BitsStay DEF RootsHaveBits
<1>2. ASSUME NEW c \in Lcore, Start(c), NEW i \in DOMAIN setup.root[c]
      PROVE  state'[setup.root[c][i]] # {}
  BY <1>1, <1>2 DEF Start
<1>3. ASSUME NEW c \in Lcore, Start(c) PROVE Started' \subseteq Started \cup {c}
  <2>1. sc' = [sc EXCEPT ![c] = "sync"]
    BY <1>3 DEF Start
  <2> QED
    BY <2>1, Domains DEF Started
<1>4. \A c \in Lcore : c \in Started' => c \in Started \/ Start(c)
  BY <1>3, StartsGoOn DEF Started
<1>5. \A c \in Started' : c \in Lcore
  BY DEF Started
<1> QED
  BY <1>1, <1>2, <1>4, <1>5 DEF RootsHaveBits

(* Those whom the operations have created. *)
CreatedHaveBits ==
  mishap = "none" => \A t \in Thread : \A i \in DOMAIN setup.prog[t] :
    i < ip[t] /\ setup.prog[t][i][1] = "create" => state[setup.prog[t][i][2]] # {}

LEMMA CreatedKept ==
  ASSUME PlacesInv, MarksHold, CreatedHaveBits, [TlsNext]_threadVars, UNCHANGED setup
  PROVE  CreatedHaveBits'
<1>1. ASSUME mishap' = "none" PROVE mishap = "none"
  BY <1>1, MishapsLast DEF threadVars, allVars, vars
<1>2. ASSUME mishap' = "none", NEW t \in Thread, NEW i \in DOMAIN setup.prog[t],
             i < ip'[t], setup.prog[t][i][1] = "create"
      PROVE  state'[setup.prog[t][i][2]] # {}
  <2>1. /\ setup \in Setup /\ i \in Nat \ {0} /\ ip \in [Thread -> Nat \ {0}]
        /\ WellNamed(t, setup.prog[t][i])
    BY SetupNum, IndexIs, LthreadAssumption DEF PlacesInv, Stands, ProgsHold
  <2>2. setup.prog[t][i][2] \in Thread
    BY <1>2, <2>1 DEF WellNamed
  <2>3. CASE i < ip[t]
    BY <1>1, <1>2, <2>2, <2>3, BitsStay DEF CreatedHaveBits
  <2>4. CASE ~ (i < ip[t])
    <3>1. ip'[t] # ip[t]
      BY <1>2, <2>4
    <3>2. PICK c \in Lcore, x \in Thread : Acts(c, x)
      <4>1. ASSUME NEW c \in Lcore, Schedule(c) PROVE UNCHANGED ip
        BY <4>1 DEF Schedule, Start, Synced, Top, Stopped, PollReady, PollPReady, Poll, TimerExpires,
                    SwitchedBack, Restore
      <4>2. Launch => UNCHANGED ip
        BY DEF Launch, Unscheduled
      <4> QED
        BY <3>1, <4>1, <4>2, StepIs DEF Apart
    <3>3. x = t
      BY <3>1, <3>2, ActsGoOn
    <3>4. PICK p : PcTo(c, t, p)
      BY <3>2, <3>3 DEF Acts, PcStep
    <3>5. ip' = [ip EXCEPT ![t] = @ + 1] /\ (Op(t)[1] = "create" /\ mishap' = "none" => state'[Op(t)[2]] # {})
      BY <3>1, <3>4 DEF PcTo
    <3>6. i = ip[t]
      BY <1>2, <2>1, <2>4, <3>5
    <3>7. Op(t) = setup.prog[t][i]
      BY <2>1, <3>6, IndexIs DEF Op
    <3> QED
      BY <1>2, <3>5, <3>7
  <2> QED
    BY <2>3, <2>4
<1> QED
  BY <1>2 DEF CreatedHaveBits

StartsHold == Counted /\ RootsHaveBits /\ CreatedHaveBits

LEMMA StartsStep ==
  ASSUME PlacesInv, MarksHold, StartsHold, [TlsNext]_threadVars
  PROVE  StartsHold'
BY CountedKept, RootsKept, CreatedKept DEF StartsHold

LEMMA StartsInit ==
  ASSUME TlsInit
  PROVE  StartsHold
<1>1. /\ sc = [c \in Lcore |-> "off"] /\ active = 0 /\ num = setup.num /\ ip = [t \in Thread |-> 1]
      /\ setup \in Setup /\ setup.num \in Nat
  BY LthreadAssumption DEF TlsInit, GreenInit, Init
<1>2. Started = {}
  BY <1>1 DEF Started, Beginning
<1>3. Cardinality(Started) = 0
  BY <1>2, FS_EmptySet
<1>4. \A t \in Thread : \A i \in DOMAIN setup.prog[t] : ~ (i < ip[t])
  BY <1>1, IndexIs
<1> QED
  BY <1>1, <1>2, <1>3, <1>4 DEF StartsHold, Counted, RootsHaveBits, CreatedHaveBits, Waiting

-----------------------------------------------------------------------------
(* Calls of the main program.                                             *)

(* The main program: the lcores that are registered are green, or native   *)
(* if their own launcher was later, and who was launched is in the vector  *)
(* until he is joined. *)
RegisteredAreGreen ==
  \A c \in Lcore : RegisteredAt(setup, mip, c) => lstate[c] \in {"GREEN", "NATIVE"}
Gone(x) == \E j \in 1 .. mip - 1 : setup.main[j][1] = "join" /\ setup.main[j][2] = x
LaunchedAreKept ==
  \A i \in DOMAIN setup.main : i < mip /\ setup.main[i][1] = "launch" =>
    Has(threads, setup.main[i][2]) \/ Gone(setup.main[i][2])
CallsHold ==
  /\ threads \in Seq(Thread)
  /\ mpc = "unregistered" => Call[1] = "unregister"
  /\ RegisteredAreGreen /\ LaunchedAreKept

LEMMA CallsStay ==
  ASSUME [TlsNext]_threadVars
  PROVE  MainStep \/ (\E c \in Lcore : Launcher(c)) \/ UNCHANGED <<mip, mpc, lstate, threads>>
<1>1. ASSUME NEW c \in Lcore, GreenStep(c), ~ Launcher(c)
      PROVE  UNCHANGED <<mip, mpc, lstate, threads>>
  BY <1>1 DEF GreenStep, GreenThreadStep, Sleeps, Yields, Spawned, DummyStarts, DummySleeps,
              DummyYields, DummyEnds, greenVars
<1>2. ASSUME NEW c \in Lcore, NEW t \in Thread, KeyStep(c, t)
      PROVE  UNCHANGED <<mip, mpc, lstate, threads>>
  BY <1>2 DEF KeyStep, KeyCreate, KeyDelete, SetSpecific, GetSpecific, KeyOp, greenVars
<1>3. CASE UNCHANGED threadVars
  BY <1>3 DEF threadVars, allVars, greenVars
<1> QED
  BY <1>1, <1>2, <1>3 DEF TlsNext, TlsStep

(* Who is registered after a call was before, or by this call, and this    *)
(* call does not unregister him. *)
LEMMA RegisteredNext ==
  ASSUME NEW n \in Nat \ {0}, NEW s, NEW c, RegisteredAt(s, n + 1, c)
  PROVE  /\ RegisteredAt(s, n, c) \/ (s.main[n][1] = "register" /\ s.main[n][2] = c)
         /\ s.main[n][1] = "unregister" => s.main[n][2] # c
<1>1. PICK j \in 1 .. n : /\ s.main[j][1] = "register" /\ s.main[j][2] = c
                          /\ \A k \in j .. n : s.main[k][1] = "unregister" => s.main[k][2] # c
  BY DEF RegisteredAt
<1>2. CASE j = n
  BY <1>1, <1>2
<1>3. CASE j # n
  <2>1. j \in 1 .. n - 1 /\ \A k \in j .. n - 1 : k \in j .. n
    BY <1>3
  <2>2. RegisteredAt(s, n, c)
    BY <1>1, <2>1 DEF RegisteredAt
  <2> QED
    BY <1>1, <2>2
<1> QED
  BY <1>2, <1>3

LEMMA HasAppended ==
  ASSUME NEW s \in Seq(Thread), NEW t \in Thread
  PROVE  /\ Append(s, t) \in Seq(Thread) /\ Has(Append(s, t), t)
         /\ \A x : Has(s, x) => Has(Append(s, t), x)
<1>1. /\ Append(s, t) \in Seq(Thread) /\ Len(Append(s, t)) = Len(s) + 1 /\ Len(s) \in Nat
      /\ \A i \in 1 .. Len(s) : Append(s, t)[i] = s[i]
      /\ Append(s, t)[Len(s) + 1] = t
  OBVIOUS
<1> QED
  BY <1>1 DEF Has

(* Erasing an element of a vector leaves the others. *)
LEMMA HasOthers ==
  ASSUME NEW s \in Seq(Thread), NEW i \in 1 .. Len(s), NEW r,
         r = [j \in 1 .. Len(s) - 1 |-> s[IF j < i THEN j ELSE j + 1]]
  PROVE  /\ r \in Seq(Thread)
         /\ \A x : Has(s, x) /\ x # s[i] => Has(r, x)
<1>1. Len(s) \in Nat /\ Len(s) - 1 \in Nat /\ \A k \in 1 .. Len(s) : s[k] \in Thread
  OBVIOUS
<1>2. ASSUME NEW j \in 1 .. Len(s) - 1 PROVE (IF j < i THEN j ELSE j + 1) \in 1 .. Len(s)
  BY <1>1
<1>3. r \in [1 .. Len(s) - 1 -> Thread]
  BY <1>1, <1>2
<1>4. r \in Seq(Thread) /\ Len(r) = Len(s) - 1
  BY <1>1, <1>3
<1>5. ASSUME NEW x, Has(s, x), x # s[i] PROVE Has(r, x)
  <2>1. PICK k \in 1 .. Len(s) : s[k] = x
    BY <1>5 DEF Has
  <2>2. k # i
    BY <1>5, <2>1
  <2>3. CASE k < i
    <3>1. k \in 1 .. Len(s) - 1 /\ r[k] = x
      BY <1>1, <2>1, <2>3
    <3> QED
      BY <1>4, <3>1 DEF Has
  <2>4. CASE k > i
    <3>1. k - 1 \in 1 .. Len(s) - 1 /\ ~ (k - 1 < i) /\ (k - 1) + 1 = k
      BY <1>1, <2>1, <2>4
    <3>2. r[k - 1] = x
      BY <2>1, <3>1
    <3> QED
      BY <1>4, <3>1, <3>2 DEF Has
  <2> QED
    BY <2>2, <2>3, <2>4
<1> QED
  BY <1>4, <1>5

-----------------------------------------------------------------------------
(* The main program's calls keep what they rest on.                       *)

(* A call that is done: what is left to show of it. *)
LEMMA CallDone ==
  ASSUME PlacesInv, CallsHold, Call[1] # "return", UNCHANGED setup, Done,
         threads' \in Seq(Thread),
         \A c \in Lcore : lstate[c] \in {"GREEN", "NATIVE"} /\ (Call[1] = "unregister" => Call[2] # c)
                            => lstate'[c] \in {"GREEN", "NATIVE"},
         Call[1] = "register" => lstate'[Call[2]] = "GREEN",
         \A x : Has(threads, x) => Has(threads', x) \/ (Call[1] = "join" /\ Call[2] = x),
         Call[1] = "launch" => Has(threads', Call[2])
  PROVE  CallsHold'
<1>1. /\ mip \in Nat \ {0} /\ mip \in DOMAIN setup.main /\ Call = setup.main[mip]
      /\ mip' = mip + 1 /\ mpc' = "call"
  BY CallIs DEF PlacesInv, MainHolds, Done
<1>2. RegisteredAreGreen'
  <2>1. ASSUME NEW c \in Lcore, RegisteredAt(setup, mip + 1, c) PROVE lstate'[c] \in {"GREEN", "NATIVE"}
    <3>1. /\ RegisteredAt(setup, mip, c) \/ (Call[1] = "register" /\ Call[2] = c)
          /\ Call[1] = "unregister" => Call[2] # c
      BY <1>1, <2>1, RegisteredNext
    <3> QED
      BY <3>1 DEF CallsHold, RegisteredAreGreen
  <2>2. \A c : RegisteredAt(setup, mip, c)' <=> RegisteredAt(setup, mip + 1, c)
    BY <1>1 DEF RegisteredAt
  <2> QED
    BY <2>1, <2>2 DEF RegisteredAreGreen
<1>3. ASSUME NEW x, Gone(x) \/ (Call[1] = "join" /\ Call[2] = x) PROVE Gone(x)'
  <2>1. CASE Gone(x)
    <3>1. PICK j \in 1 .. mip - 1 : setup.main[j][1] = "join" /\ setup.main[j][2] = x
      BY <2>1 DEF Gone
    <3>2. j \in 1 .. mip' - 1
      BY <1>1
    <3> QED
      BY <3>1, <3>2 DEF Gone
  <2>2. CASE Call[1] = "join" /\ Call[2] = x
    <3>1. mip \in 1 .. mip' - 1 /\ setup'.main[mip] = Call
      BY <1>1
    <3> QED
      BY <2>2, <3>1 DEF Gone
  <2> QED
    BY <1>3, <2>1, <2>2
<1>4. LaunchedAreKept'
  <2>1. ASSUME NEW i \in DOMAIN setup.main, i < mip + 1, setup.main[i][1] = "launch"
        PROVE  Has(threads', setup.main[i][2]) \/ Gone(setup.main[i][2])'
    <3>0. i \in Nat
      <4>1. WellUsed(setup)
        BY CallIs DEF PlacesInv
      <4> QED
        BY <4>1 DEF WellUsed
    <3>1. CASE i < mip
      <4>1. Has(threads, setup.main[i][2]) \/ Gone(setup.main[i][2])
        BY <2>1, <3>1 DEF CallsHold, LaunchedAreKept
      <4> QED
        BY <4>1, <1>3
    <3>2. CASE i = mip
      BY <1>1, <2>1, <3>2
    <3> QED
      BY <1>1, <2>1, <3>0, <3>1, <3>2
  <2> QED
    BY <1>1, <2>1 DEF LaunchedAreKept, Has
<1> QED
  BY <1>1, <1>2, <1>4 DEF CallsHold

LEMMA MainKeepsCalls ==
  ASSUME PlacesInv, CallsHold, MainStep, UNCHANGED setup
  PROVE  CallsHold'
<1>1. lstate = [c \in Lcore |-> lstate[c]] /\ threads \in Seq(Thread)
  BY DEF PlacesInv, MainHolds, CallsHold
<1>2. CASE LaunchRefused \/ JoinMisses \/ UnregisterRefused
  <2>1. UNCHANGED <<mip, mpc, lstate, threads>>
    BY <1>2 DEF LaunchRefused, JoinMisses, UnregisterRefused, Throw
  <2> QED
    BY <2>1 DEF CallsHold, RegisteredAreGreen, LaunchedAreKept, Call, Has, Gone
<1>3. CASE Register \/ Unregister
  <2>1. UNCHANGED <<mip, lstate, threads>> /\ (mpc' = "unregistered" => Call[1] = "unregister")
    BY <1>3 DEF Register, Unregister, Here, Main
  <2> QED
    BY <2>1 DEF CallsHold, RegisteredAreGreen, LaunchedAreKept, Call, Has, Gone
<1>4. CASE Registered
  <2>1. /\ Call[1] = "register" /\ lstate' = [lstate EXCEPT ![Call[2]] = "GREEN"]
        /\ Done /\ UNCHANGED threads
    BY <1>4 DEF Registered, MainAt, PlacesInv, MainHolds
  <2>2. Call[2] \in Lcore
    BY <2>1, CallIs DEF PlacesInv, WellUsed
  <2>3. lstate'[Call[2]] = "GREEN" /\ \A c \in Lcore : c # Call[2] => lstate'[c] = lstate[c]
    BY <1>1, <2>1, <2>2
  <2> QED
    BY <1>1, <2>1, <2>3, CallDone
<1>5. CASE Launch
  <2>1. Call[1] = "launch" /\ Done /\ UNCHANGED lstate /\ threads' = Append(threads, Call[2])
    BY <1>5 DEF Launch, Main
  <2>2. Call[2] \in Thread
    BY <2>1, LaunchIs DEF PlacesInv
  <2> QED
    BY <1>1, <2>1, <2>2, HasAppended, CallDone
<1>6. CASE Join
  <2>1. Call[1] = "join" /\ Done /\ UNCHANGED lstate
    BY <1>6 DEF Join, Main
  <2>2. PICK i \in 1 .. Len(threads) :
          /\ threads[i] = Call[2]
          /\ threads' = [j \in 1 .. Len(threads) - 1 |-> threads[IF j < i THEN j ELSE j + 1]]
    BY <1>6 DEF Join
  <2>3. threads' \in Seq(Thread) /\ \A x : Has(threads, x) /\ x # Call[2] => Has(threads', x)
    BY <1>1, <2>2, HasOthers
  <2> QED
    BY <2>1, <2>3, CallDone
<1>7. CASE Unregistered
  <2>1. /\ Call[1] = "unregister" /\ lstate' = [lstate EXCEPT ![Call[2]] = "FINISHED"]
        /\ Done /\ UNCHANGED threads
    BY <1>7 DEF Unregistered, MainAt, CallsHold
  <2>2. \A c \in Lcore : c # Call[2] => lstate'[c] = lstate[c]
    BY <1>1, <2>1
  <2> QED
    BY <1>1, <2>1, <2>2, CallDone
<1> QED
  BY <1>2, <1>3, <1>4, <1>5, <1>6, <1>7 DEF MainStep

LEMMA CallsStep ==
  ASSUME PlacesInv, MarksHold, StartsHold, CallsHold, [TlsNext]_threadVars
  PROVE  CallsHold'
<1>1. UNCHANGED setup
  BY CountedKept DEF StartsHold
<1>2. ASSUME NEW c \in Lcore, Launcher(c) PROVE CallsHold'
  <2>1. lstate' = [lstate EXCEPT ![c] = "NATIVE"] /\ UNCHANGED <<mip, mpc, threads>>
    BY <1>2 DEF Launcher
  <2>2. \A d \in Lcore : lstate'[d] = lstate[d] \/ lstate'[d] = "NATIVE"
    BY <2>1 DEF PlacesInv, MainHolds
  <2>3. RegisteredAreGreen'
    BY <1>1, <2>1, <2>2 DEF CallsHold, RegisteredAreGreen
  <2> QED
    BY <1>1, <2>1, <2>3 DEF CallsHold, LaunchedAreKept, Call, Has, Gone
<1>3. CASE UNCHANGED <<mip, mpc, lstate, threads>>
  BY <1>1, <1>3 DEF CallsHold, RegisteredAreGreen, LaunchedAreKept, Call, Has, Gone
<1> QED
  BY <1>1, <1>2, <1>3, CallsStay, MainKeepsCalls

LEMMA CallsInit ==
  ASSUME TlsInit
  PROVE  CallsHold
<1>1. mip = 1 /\ mpc = "call" /\ threads = <<>> /\ setup \in Setup
  BY DEF TlsInit, GreenInit, Init
<1>2. \A c : ~ RegisteredAt(setup, mip, c)
  BY <1>1 DEF RegisteredAt
<1>3. \A i \in DOMAIN setup.main : ~ (i < mip)
  BY <1>1, GreenAssumption DEF WellUsed
<1> QED
  BY <1>1, <1>2, <1>3 DEF CallsHold, RegisteredAreGreen, LaunchedAreKept

-----------------------------------------------------------------------------
(* Mishaps, and the theorem.                                              *)

(* The steps that can end in a mishap. *)
LEMMA MishapIs ==
  ASSUME [TlsNext]_threadVars, mishap' # mishap
  PROVE  \/ \E c \in Lcore, t \in Thread : Create(c, t) \/ Cancel(c, t) \/ Derail(c, t)
         \/ \E c \in Lcore : Restore(c)
         \/ Launch \/ LaunchRefused \/ JoinMisses \/ UnregisterRefused
<1>0. TlsNext
  BY DEF threadVars, allVars, vars
<1>1. ASSUME MainStep PROVE Launch \/ LaunchRefused \/ JoinMisses \/ UnregisterRefused
  BY <1>1 DEF MainStep, Register, Registered, Join, Unregister, Unregistered, lthreadVars, vars
<1>2. ASSUME NEW c \in Lcore, NEW t \in Thread, ThreadStep(c, t)
      PROVE  Create(c, t) \/ Cancel(c, t) \/ Derail(c, t)
  BY <1>2 DEF ThreadStep, Yield, Sleep, SetAffinity, Detach, CancelTasklet, ShutdownAll, Return,
              ExitCall, ExitFirst, ExitResumed, ExitSecond, ExitWakes, ExitCollected, ExitWaits, Leave,
              JoinCall, JoinFirst, JoinSecond, JoinWaits, JoinCollects, LockCall, LockCas, LockCount,
              LockOwner, TrylockCall, TrylockCas, TrylockBusy, UnlockCall, UnlockCheck, UnlockRemove,
              UnlockWakes, UnlockReleases, CondWait, CondSignal, CondSignals, CondBroadcast,
              CondBroadcasts, CondYields, Reschedule, Remove, Wake
<1>3. ASSUME NEW c \in Lcore, Schedule(c) PROVE Restore(c)
  BY <1>3 DEF Schedule, Start, Synced, Top, Stopped, PollReady, PollPReady, Poll, TimerExpires, SwitchedBack
<1>4. ASSUME NEW c \in Lcore, NEW t \in Thread, GreenThreadStep(c, t) PROVE FALSE
  BY <1>4 DEF GreenThreadStep, Sleeps, Yields, Spawned, DummyStarts, DummySleeps, DummyYields, DummyEnds,
              SleepStep, YieldStep, NoStep, Untouched
<1>5. ASSUME NEW c \in Lcore, NEW t \in Thread, KeyStep(c, t) PROVE FALSE
  BY <1>5 DEF KeyStep, KeyCreate, KeyDelete, SetSpecific, GetSpecific, KeyOp, NoStep, Untouched
<1>6. ASSUME NEW c \in Lcore, Launcher(c) \/ Link(c) PROVE FALSE
  BY <1>6 DEF Launcher, Link, lthreadVars, vars
<1> QED
  BY <1>0, <1>1, <1>2, <1>3, <1>4, <1>5, <1>6 DEF TlsNext, TlsStep, GreenStep, LcoreStep

-----------------------------------------------------------------------------
(* If num_schedulers says that all wait for each other, none goes on       *)
(* before all have started. *)
LEMMA AllHaveStarted ==
  ASSUME PlacesInv, StartsHold, NEW c \in Lcore, sc[c] \notin Waiting, setup.num >= Cardinality(Lcore)
  PROVE  Started = Lcore
<1>1. IsFiniteSet(Lcore) /\ Started \subseteq Lcore
  BY LthreadAssumption DEF Started
<1>2. /\ Cardinality(Lcore) \in Nat /\ Cardinality(Started) \in Nat /\ setup.num \in Nat
      /\ Cardinality(Started) <= Cardinality(Lcore)
  BY <1>1, FS_Subset, FS_CardinalityType, SetupNum
<1>3. setup.num <= Cardinality(Started)
  BY DEF StartsHold, Counted
<1>4. Cardinality(Started) = Cardinality(Lcore)
  BY <1>2, <1>3
<1> QED
  BY <1>1, <1>4, FS_Subset

(* A scheduler for which a thread creates is missing. *)
LEMMA CreateMishap ==
  ASSUME PlacesInv, StartsHold, NEW c \in Lcore, NEW t \in Thread, Create(c, t), mishap' # mishap
  PROVE  mishap' = "noSched" /\ setup.num < Cardinality(Lcore)
<1>1. At(c, t, "op") /\ Op(t)[1] = "create" /\ NewThread(c, Op(t)[2], Op(t)[3])
  BY DEF Create, Calls
<1>2. mishap' = "noSched" /\ sc[Op(t)[3]] = "off" /\ sc[c] \notin Waiting
  BY <1>1 DEF NewThread, Exists, At, Waiting
<1>3. Op(t)[3] \in Lcore
  <2>1. setup \in Setup /\ ip[t] \in Nat \ {0}
    BY DEF PlacesInv, MainHolds, Stands, ProgsHold
  <2> QED
    BY <1>1, <2>1, OpIs DEF WellNamed
<1>4. Op(t)[3] \notin Started
  BY <1>2 DEF Started, Beginning
<1>5. ~ (setup.num >= Cardinality(Lcore))
  BY <1>2, <1>3, <1>4, AllHaveStarted
<1>6. setup.num \in Nat /\ Cardinality(Lcore) \in Nat
  BY SetupNum, LthreadAssumption, FS_CardinalityType
<1> QED
  BY <1>2, <1>5, <1>6

(* Who cancels a thread has its pointer, so it has state bits. *)
LEMMA CancelledHasBits ==
  ASSUME PlacesInv, StartsHold, mishap = "none",
         NEW c \in Lcore, NEW t \in Thread, Running(c, t), Op(t)[1] = "cancel"
  PROVE  Op(t)[2] \in Thread /\ state[Op(t)[2]] # {} /\ Does(t, "cancel")
<1>1. setup \in Setup /\ ip[t] \in Nat \ {0}
  BY DEF PlacesInv, MainHolds, Stands, ProgsHold
<1>2. PICK n \in DOMAIN setup.prog[t] : n = ip[t] /\ Op(t) = setup.prog[t][n] /\ WellNamed(t, setup.prog[t][n])
  BY <1>1, OpIs
<1>3. Op(t)[2] \in Thread
  BY <1>2 DEF WellNamed
<1>4. Does(t, "cancel")
  BY <1>1, <1>2, IndexIs DEF Does
<1>5. CancelsKnown(setup) /\ TakenOnce(setup)
  BY <1>1, LthreadAssumption
<1>6. CASE \E j \in 1 .. n - 1 : setup.prog[t][j][1] = "create" /\ setup.prog[t][j][2] = Op(t)[2]
  <2>1. PICK j \in 1 .. n - 1 : setup.prog[t][j][1] = "create" /\ setup.prog[t][j][2] = Op(t)[2]
    BY <1>6
  <2>2. j \in DOMAIN setup.prog[t] /\ j < ip[t]
    BY <1>1, <1>2, LthreadAssumption
  <2> QED
    BY <1>3, <1>4, <2>1, <2>2 DEF StartsHold, CreatedHaveBits
<1>7. CASE \E d \in Lcore : \E j \in DOMAIN setup.root[d] :
             /\ setup.root[d][j] = Op(t)[2]
             /\ setup.num >= Cardinality(Lcore) \/ \E k \in DOMAIN setup.root[d] : setup.root[d][k] = t
  <2>1. PICK d \in Lcore : \E j \in DOMAIN setup.root[d] :
             /\ setup.root[d][j] = Op(t)[2]
             /\ setup.num >= Cardinality(Lcore) \/ \E k \in DOMAIN setup.root[d] : setup.root[d][k] = t
    BY <1>7
  <2>2. CASE setup.num >= Cardinality(Lcore)
    <3>1. sc[c] \notin Waiting
      BY DEF Running, Waiting
    <3>2. Started = Lcore
      BY <2>2, <3>1, AllHaveStarted
    <3> QED
      BY <1>3, <1>4, <2>1, <3>2 DEF StartsHold, RootsHaveBits
  <2>3. CASE \E k \in DOMAIN setup.root[d] : setup.root[d][k] = t
    <3>1. PICK k \in DOMAIN setup.root[d] : setup.root[d][k] = t
      BY <2>3
    <3>2. Born(t)
      <4>1. sched[t] # -1
        BY RunningIs
      <4> QED
        BY <4>1 DEF PlacesInv, Stands, Placed, SchedsHold, ProgsHold
    <3>3. ~ \E u \in Thread : \E i \in DOMAIN setup.prog[u] : i < ip[u] /\ Taken(setup.prog[u][i]) = t
      BY <1>5, <3>1 DEF TakenOnce
    <3>4. ~ \E i \in DOMAIN setup.main : i < mip /\ setup.main[i][1] = "launch" /\ setup.main[i][2] = t
      BY <1>1, <3>1, GreenAssumption DEF WellUsed
    <3>5. PICK e \in Lcore : Exists(e) /\ sc[e] # "made" /\ \E i \in DOMAIN setup.root[e] : setup.root[e][i] = t
      BY <3>2, <3>3, <3>4 DEF Born
    <3>6. e = d
      BY <1>5, <3>1, <3>5 DEF TakenOnce
    <3>7. d \in Started
      BY <3>5, <3>6 DEF Started, Beginning, Exists
    <3> QED
      BY <1>3, <1>4, <2>1, <3>7 DEF StartsHold, RootsHaveBits
  <2> QED
    BY <2>1, <2>2, <2>3
<1> QED
  BY <1>2, <1>5, <1>6, <1>7 DEF CancelsKnown

LEMMA CancelMishap ==
  ASSUME PlacesInv, StartsHold, mishap = "none",
         NEW c \in Lcore, NEW t \in Thread, Cancel(c, t), mishap' # mishap
  PROVE  /\ mishap' = "unborn" /\ UNCHANGED <<setup, state>>
         /\ Does(t, "cancel") /\ \E u \in Thread : state[u] = {"INIT"}
<1>1. Running(c, t) /\ Op(t)[1] = "cancel" /\ UNCHANGED setup
  BY DEF Cancel, Calls, At, Running, Same
<1>2. PICK u \in Thread : u = Op(t)[2] /\ state[u] # {} /\ Does(t, "cancel")
  BY <1>1, CancelledHasBits
<1>3. sched[u] # -1 => Exists(sched[u])
  BY DEF PlacesInv, Stands, Placed, SchedsHold
<1>4. sched[u] = -1 /\ mishap' = "unborn" /\ UNCHANGED state
  BY <1>2, <1>3 DEF Cancel, NewThread
<1>5. state[u] = {"INIT"}
  BY <1>2, <1>4 DEF PlacesInv, Stands, Placed, StatesHold
<1> QED
  BY <1>1, <1>2, <1>4, <1>5

-----------------------------------------------------------------------------
(* What the timer callback wrote has come from a sleep. *)
LEMMA SleptDoes ==
  ASSUME setup \in Setup, NEW t \in Thread, NEW j \in DOMAIN setup.prog[t], setup.prog[t][j][1] \in SleepOps
  PROVE  \E x \in Thread : \E f \in SleepOps : Does(x, f)
<1>1. j \in 1 .. Len(setup.prog[t])
  BY IndexIs
<1>2. Does(t, setup.prog[t][j][1])
  BY <1>1 DEF Does
<1> QED
  BY <1>2

LEMMA RestoreMishap ==
  ASSUME PlacesInv, MarksHold, NEW c \in Lcore, Restore(c), mishap' # mishap
  PROVE  mishap' = "freed" /\ UNCHANGED setup /\ \E x \in Thread : \E f \in SleepOps : Does(x, f)
<1>1. mishap' = "freed" /\ UNCHANGED setup /\ sc[c] = "timer"
  BY DEF Restore
<1>2. cb[c][1] \in Thread /\ setup \in Setup
  BY <1>1 DEF PlacesInv, MainHolds, Stands, Placed, CallbacksHold
<1>3. HasSlept(cb[c][1])
  BY <1>1 DEF MarksHold, CallbackMarks
<1> QED
  BY <1>1, <1>2, <1>3, SleptDoes DEF HasSlept

LEMMA DerailMishap ==
  ASSUME PlacesInv, MarksHold, NEW c \in Lcore, NEW t \in Thread, Derail(c, t)
  PROVE  mishap' = "derailed" /\ UNCHANGED setup /\ \E x \in Thread : \E f \in SleepOps : Does(x, f)
<1>1. At(c, t, "left") /\ mishap' = "derailed" /\ UNCHANGED setup
  BY DEF Derail
<1>2. ~ Awake
  BY <1>1 DEF MarksHold, ThreadMarks, At
<1>3. setup \in Setup
  BY DEF PlacesInv, MainHolds
<1> QED
  BY <1>1, <1>2, <1>3, SleptDoes DEF Awake

-----------------------------------------------------------------------------
(* The main program. *)
LEMMA RegisteredIs ==
  ASSUME PlacesInv, CallsHold, Call[1] \in {"launch", "unregister"}, NEW c,
         c = IF Call[1] = "launch" THEN Call[3] ELSE Call[2]
  PROVE  c \in Lcore \ {Master} /\ lstate[c] \in {"GREEN", "NATIVE"}
<1>1. WellUsed(setup) /\ mip \in DOMAIN setup.main /\ Call = setup.main[mip] /\ DOMAIN setup.main = 1 .. Len(setup.main)
      /\ Len(setup.main) \in Nat
  BY CallIs DEF PlacesInv, WellUsed
<1>2. RegisteredAt(setup, mip, c)
  BY <1>1 DEF WellUsed
<1>3. PICK j \in 1 .. mip - 1 : setup.main[j][1] = "register" /\ setup.main[j][2] = c
  BY <1>2 DEF RegisteredAt
<1>4. j \in DOMAIN setup.main
  BY <1>1
<1>5. c \in Lcore \ {Master}
  BY <1>1, <1>3, <1>4 DEF WellUsed
<1> QED
  BY <1>2, <1>5 DEF CallsHold, RegisteredAreGreen

LEMMA LaunchMishap ==
  ASSUME PlacesInv, CallsHold, Launch, mishap' # mishap
  PROVE  mishap' = "noSched" /\ UNCHANGED setup /\ setup.num < Cardinality(Lcore)
<1>1. mishap' = "noSched" /\ UNCHANGED setup /\ Call[1] = "launch"
  BY DEF Launch, NewThread, Main, Unscheduled
<1>2. PICK c \in Lcore \ {Master} : c = Call[3]
  BY <1>1, RegisteredIs
<1>3. setup.num = 1 /\ Master \in Lcore /\ IsFiniteSet(Lcore)
  BY <1>1, CallIs, LthreadAssumption DEF PlacesInv, WellUsed
<1>4. IsFiniteSet({c}) /\ Cardinality({c}) = 1
  BY FS_Singleton
<1>5. Cardinality({c} \cup {Master}) = 2
  BY <1>2, <1>4, FS_AddElement
<1>6. Cardinality({c} \cup {Master}) <= Cardinality(Lcore) /\ Cardinality(Lcore) \in Nat
  BY <1>2, <1>3, FS_Subset, FS_CardinalityType
<1> QED
  BY <1>1, <1>3, <1>5, <1>6

(* The lcore's own NATIVE came after the GREEN of its registration, or the *)
(* thread was joined before. *)
LEMMA MainThrows ==
  ASSUME PlacesInv, CallsHold, LaunchRefused \/ JoinMisses \/ UnregisterRefused
  PROVE  /\ mishap' = "exception" /\ UNCHANGED <<setup, lstate>>
         /\ JoinsTwice \/ \E c \in Lcore : lstate[c] = "NATIVE"
<1>1. mishap' = "exception" /\ UNCHANGED <<setup, lstate>>
  BY DEF LaunchRefused, JoinMisses, UnregisterRefused, Throw, Unscheduled
<1>2. CASE LaunchRefused \/ UnregisterRefused
  <2>1. PICK c : /\ c = IF Call[1] = "launch" THEN Call[3] ELSE Call[2]
                 /\ Call[1] \in {"launch", "unregister"} /\ lstate[c] # "GREEN"
    BY <1>2 DEF LaunchRefused, UnregisterRefused, Main
  <2>2. c \in Lcore \ {Master} /\ lstate[c] \in {"GREEN", "NATIVE"}
    BY <2>1, RegisteredIs
  <2> QED
    BY <1>1, <2>1, <2>2
<1>3. CASE JoinMisses
  <2>1. Call[1] = "join" /\ ~ Has(threads, Call[2])
    BY <1>3 DEF JoinMisses, Main, Has
  <2>2. /\ WellUsed(setup) /\ mip \in DOMAIN setup.main /\ Call = setup.main[mip]
        /\ DOMAIN setup.main = 1 .. Len(setup.main) /\ Len(setup.main) \in Nat
    BY <2>1, CallIs DEF PlacesInv, WellUsed
  <2>3. PICK i \in 1 .. mip - 1 : setup.main[i][1] = "launch" /\ setup.main[i][2] = Call[2]
    BY <2>1, <2>2 DEF WellUsed
  <2>4. i \in DOMAIN setup.main /\ i < mip
    BY <2>2
  <2>5. Gone(Call[2])
    BY <2>1, <2>3, <2>4 DEF CallsHold, LaunchedAreKept
  <2>6. PICK j \in 1 .. mip - 1 : setup.main[j][1] = "join" /\ setup.main[j][2] = Call[2]
    BY <2>5 DEF Gone
  <2>7. j \in 1 .. Len(setup.main) /\ j < mip
    BY <2>2
  <2>8. JoinsTwice
    BY <2>1, <2>2, <2>6, <2>7 DEF JoinsTwice
  <2> QED
    BY <1>1, <2>8
<1> QED
  BY <1>2, <1>3

-----------------------------------------------------------------------------
(* Every mishap, when it comes, has its cause, and nothing comes after it. *)
LEMMA MishapsStep ==
  ASSUME PlacesInv, MarksHold, StartsHold, CallsHold, GreenMishapsHaveCauses, [TlsNext]_threadVars
  PROVE  GreenMishapsHaveCauses'
<1>1. CASE UNCHANGED threadVars
  BY <1>1 DEF threadVars, allVars, greenVars, vars, GreenMishapsHaveCauses, MishapsHaveCauses, Does, JoinsTwice
<1>2. CASE mishap = "none" /\ mishap' = mishap
  BY <1>2 DEF GreenMishapsHaveCauses, MishapsHaveCauses
<1>3. CASE mishap = "none" /\ mishap' # mishap
  <2>1. ASSUME NEW c \in Lcore, NEW t \in Thread, Create(c, t) PROVE GreenMishapsHaveCauses'
    <3>1. mishap' = "noSched" /\ setup.num < Cardinality(Lcore) /\ UNCHANGED setup
      BY <1>3, <2>1, CreateMishap DEF Create, Same
    <3> QED
      BY <3>1 DEF GreenMishapsHaveCauses, MishapsHaveCauses
  <2>2. ASSUME NEW c \in Lcore, NEW t \in Thread, Cancel(c, t) PROVE GreenMishapsHaveCauses'
    <3>1. /\ mishap' = "unborn" /\ UNCHANGED <<setup, state>>
          /\ Does(t, "cancel") /\ \E u \in Thread : state[u] = {"INIT"}
      BY <1>3, <2>2, CancelMishap
    <3> QED
      BY <3>1 DEF GreenMishapsHaveCauses, MishapsHaveCauses, Does
  <2>3. ASSUME NEW c \in Lcore, NEW t \in Thread, Restore(c) \/ Derail(c, t)
        PROVE  GreenMishapsHaveCauses'
    <3>1. /\ mishap' \in {"freed", "derailed"} /\ UNCHANGED setup
          /\ \E x \in Thread : \E f \in SleepOps : Does(x, f)
      BY <1>3, <2>3, RestoreMishap, DerailMishap
    <3> QED
      BY <3>1 DEF GreenMishapsHaveCauses, MishapsHaveCauses, Does
  <2>4. ASSUME NEW c \in Lcore, Restore(c) PROVE GreenMishapsHaveCauses'
    <3>1. cb[c][1] \in Thread
      BY <2>4 DEF Restore, PlacesInv, Stands, Placed, CallbacksHold
    <3> QED
      BY <2>3, <2>4, <3>1
  <2>5. CASE Launch
    <3>1. mishap' = "noSched" /\ UNCHANGED setup /\ setup.num < Cardinality(Lcore)
      BY <1>3, <2>5, LaunchMishap
    <3> QED
      BY <3>1 DEF GreenMishapsHaveCauses, MishapsHaveCauses
  <2>6. CASE LaunchRefused \/ JoinMisses \/ UnregisterRefused
    <3>1. /\ mishap' = "exception" /\ UNCHANGED <<setup, lstate>>
          /\ JoinsTwice \/ \E c \in Lcore : lstate[c] = "NATIVE"
      BY <2>6, MainThrows
    <3> QED
      BY <3>1 DEF GreenMishapsHaveCauses, MishapsHaveCauses, JoinsTwice
  <2> QED
    BY <1>3, <2>1, <2>2, <2>3, <2>4, <2>5, <2>6, MishapIs
<1> QED
  BY <1>1, <1>2, <1>3, MishapsLast

(* ssn_green_thread.cc and lthread.c, lthread_sched.c: a program is ended  *)
(* by an exception, by a create for a scheduler that does not exist, by a  *)
(* cancel that finds no lcore, or by what the timer callback put back,     *)
(* only when it has joined twice or the lcore's own state came late, when  *)
(* not all schedulers were waited for, when it cancels a thread that has   *)
(* not run, or when some thread sleeps. *)
THEOREM MishapsAlwaysHaveCauses == TlsSpec => []GreenMishapsHaveCauses
<1> DEFINE I == PlacesInv /\ MarksHold /\ StartsHold /\ CallsHold /\ GreenMishapsHaveCauses
<1>1. TlsInit => I
  <2>1. TlsInit => mishap = "none"
    BY DEF TlsInit, GreenInit, Init
  <2>2. mishap = "none" => GreenMishapsHaveCauses
    BY DEF GreenMishapsHaveCauses, MishapsHaveCauses
  <2> QED
    BY <2>1, <2>2, PlacesInit, MarksInit, StartsInit, CallsInit
<1>2. I /\ [TlsNext]_threadVars => I'
  BY PlacesStep, MarksStep, StartsStep, CallsStep, MishapsStep
<1>3. I => GreenMishapsHaveCauses
  OBVIOUS
<1> QED
  BY <1>1, <1>2, <1>3, PTL DEF TlsSpec

-----------------------------------------------------------------------------
(* Keys and values: the invariant of lthread_tls.                         *)

(* What has been executed: the creation of the key of a name. *)
Made(n) ==
  \E u \in Thread : \E j \in DOMAIN setup.prog[u] :
    j < ip[u] /\ setup.prog[u][j][1] = "key_create" /\ setup.prog[u][j][2] = n

(* Keys are in the pool or a name's, never twice. *)
KeysHold ==
  /\ pool \in Seq(Key) /\ Distinct(pool)
  /\ key \in [Name -> Key \cup {Null}] /\ destructor \in [Key -> BOOLEAN]
  /\ \A n \in Name : ~ Has(pool, key[n])
  /\ \A n, m \in Name : key[n] = key[m] => n = m \/ key[n] = Null

(* Who asks gets a key while there is one, and nobody sets one before.     *)
(* From the first key on all schedulers run, so the table of destructors   *)
(* is cleared no more. *)
MadeHold ==
  /\ \A n \in Name : IF key[n] = Null THEN Made(n) => pool = <<>>
                     ELSE Made(n) /\ Started = Lcore /\ destructor[key[n]]
  /\ \A t \in Thread, n \in Name : Sets(t, n) # {} => Made(n)

(* A value is that of a name's key, and it is counted. *)
ValuesHold ==
  /\ data = [t \in Thread |-> data[t]] /\ inuse \in [Thread -> Int]
  /\ \A t \in Thread :
       /\ data[t] = [k \in Key |-> data[t][k]]
       /\ Cardinality(Used(t)) <= inuse[t]
       /\ \A k \in Used(t) : \E n \in Name : key[n] = k
  /\ \A t \in Thread, n \in Name :
       key[n] # Null /\ "FREED" \notin state[t] => data[t][key[n]] = LastSet(t, n)

(* The destructor of a key is given, by who is freed, what he has set last.*)
Given(t, k) == {d.value : d \in {e \in destroyed : e.by = t /\ e.key = k}}
DestroyedHold ==
  /\ \A e \in destroyed : /\ e.by \in Thread /\ "FREED" \in state[e.by]
                            /\ e.key # Null /\ \E n \in Name : key[n] = e.key
  /\ \A t \in Thread, n \in Name :
       key[n] # Null /\ "FREED" \in state[t] => Given(t, key[n]) = {LastSet(t, n)} \ {Null}

(* When that is: see ValuesAreDestroyed. *)
Told == mishap = "none" /\ InStep /\ KeysStay /\ KeysKnown
KeyInv == Told => KeysHold /\ MadeHold /\ ValuesHold /\ DestroyedHold

-----------------------------------------------------------------------------
(* Who is freed stays so. *)
LEMMA ResumeKeepsFreed ==
  ASSUME PlacesInv, NEW c, NEW t, NEW S, NEW n, "INIT" \notin S, Resume(c, t, state[t] \cup S, n),
         NEW x \in Thread, "FREED" \in state[x]
  PROVE  "FREED" \in state'[x]
<1>1. "INIT" \notin state[x]
  BY DEF PlacesInv, Stands, Placed, StatesHold
<1>2. \/ state' = [state EXCEPT ![t] = {"FREED"}]
      \/ state' = [state EXCEPT ![t] = {"READY"}] /\ "INIT" \in state[t] \cup S
      \/ state' = [state EXCEPT ![t] = state[t] \cup S]
  BY DEF Resume
<1> QED
  BY <1>1, <1>2, Domains

LEMMA FreedRemains ==
  ASSUME PlacesInv, MarksHold, [TlsNext]_threadVars, NEW x \in Thread, "FREED" \in state[x]
  PROVE  "FREED" \in state'[x]
<1>1. ASSUME NEW c \in Lcore, NEW t \in Thread, Acts(c, t) PROVE "FREED" \in state'[x]
  BY <1>1 DEF Acts, StateStep
<1>2. ASSUME NEW c \in Lcore, Schedule(c) PROVE "FREED" \in state'[x]
  <2>1. CASE Start(c)
    BY <2>1, StartGrows
  <2>2. CASE Synced(c) \/ Top(c) \/ Stopped(c) \/ SwitchedBack(c)
    BY <2>2 DEF Synced, Top, Stopped, SwitchedBack
  <2>3. ASSUME NEW q, NEW here, NEW there, Poll(c, q, here, there) PROVE "FREED" \in state'[x]
    <3>1. CASE Pollable(q)
      <4>1. Resume(c, Head(queue[q]), state[Head(queue[q])], nb[c])
        BY <2>3, <3>1 DEF Poll
      <4>2. Resume(c, Head(queue[q]), state[Head(queue[q])] \cup {}, nb[c])
        <5>1. state[Head(queue[q])] \cup {} = state[Head(queue[q])]
          OBVIOUS
        <5> QED
          BY <4>1, <5>1
      <4>3. "INIT" \notin {}
        OBVIOUS
      <4> QED
        BY <4>2, <4>3, ResumeKeepsFreed
    <3>2. CASE ~ Pollable(q)
      BY <2>3, <3>2 DEF Poll
    <3> QED
      BY <3>1, <3>2
  <2>4. ASSUME NEW t \in Thread, TimerExpires(c, t) PROVE "FREED" \in state'[x]
    BY <2>4, ResumeKeepsFreed DEF TimerExpires
  <2>5. CASE Restore(c)
    BY <2>5, Domains DEF Restore
  <2> QED
    BY <1>2, <2>1, <2>2, <2>3, <2>4, <2>5 DEF Schedule, PollReady, PollPReady
<1>3. CASE Launch
  <2>1. UNCHANGED state \/ state' = [state EXCEPT ![Call[2]] = {"INIT"}]
    BY <1>3 DEF Launch, NewThread
  <2>2. state[Call[2]] = {}
    BY <1>3, LaunchedHasNoBits DEF Launch, Main
  <2> QED
    BY <2>1, <2>2, Domains
<1>4. CASE Apart
  BY <1>4 DEF Apart
<1> QED
  BY <1>1, <1>2, <1>3, <1>4, StepIs

-----------------------------------------------------------------------------
(* Who uses a key has it from somebody who has executed its creation. *)
LEMMA UsersKnow ==
  ASSUME PlacesInv, KeysKnown, NEW c \in Lcore, NEW t \in Thread, Running(c, t),
         Op(t)[1] \in {"key_delete", "set", "get"}
  PROVE  Op(t)[2] \in Name /\ Made(Op(t)[2])
<1>1. setup \in Setup /\ ip \in [Thread -> Nat \ {0}]
  BY DEF PlacesInv, MainHolds, Stands, ProgsHold
<1>2. PICK i \in DOMAIN setup.prog[t] : i = ip[t] /\ Op(t) = setup.prog[t][i]
  BY <1>1, OpIs
<1>3. Op(t)[2] \in Name
  BY <1>1, <1>2, TlsAssumption
<1>4. TakenOnce(setup)
  BY <1>1, LthreadAssumption
<1>5. setup.prog[t][i][1] \in {"key_delete", "set", "get"}
  BY <1>2
<1>6. PICK u \in Thread : \E j \in DOMAIN setup.prog[u] : KeyFrom(t, i, u, j)
  BY <1>5 DEF KeysKnown
<1>7. PICK j \in DOMAIN setup.prog[u] : KeyFrom(t, i, u, j)
  BY <1>6
<1>8. setup.prog[u][j][1] = "key_create" /\ setup.prog[u][j][2] = Op(t)[2]
  BY <1>2, <1>7 DEF KeyFrom
<1>9. CASE u = t /\ j < i
  BY <1>8, <1>2, <1>3, <1>9 DEF Made
<1>10. CASE \E k \in DOMAIN setup.prog[u] : j < k /\ Taken(setup.prog[u][k]) = t
  <2>1. PICK k \in DOMAIN setup.prog[u] : j < k /\ Taken(setup.prog[u][k]) = t
    BY <1>10
  <2>2. Born(t)
    <3>1. sched[t] # -1
      BY RunningIs
    <3> QED
      BY <3>1 DEF PlacesInv, Stands, Placed, SchedsHold, ProgsHold
  <2>3. ~ \E d \in Lcore : Exists(d) /\ sc[d] # "made" /\ \E m \in DOMAIN setup.root[d] : setup.root[d][m] = t
    BY <1>4, <2>1 DEF TakenOnce
  <2>4. ~ \E m \in DOMAIN setup.main : m < mip /\ setup.main[m][1] = "launch" /\ setup.main[m][2] = t
    BY <1>1, <2>1, GreenAssumption DEF WellUsed
  <2>5. PICK w \in Thread : \E m \in DOMAIN setup.prog[w] : m < ip[w] /\ Taken(setup.prog[w][m]) = t
    BY <2>2, <2>3, <2>4 DEF Born
  <2>6. PICK m \in DOMAIN setup.prog[w] : m < ip[w] /\ Taken(setup.prog[w][m]) = t
    BY <2>5
  <2>7. w = u /\ m = k
    BY <1>4, <2>1, <2>6, Numbers DEF TakenOnce
  <2>8. j \in Nat /\ k \in Nat /\ ip[u] \in Nat
    BY <1>1, <2>1, IndexIs
  <2>9. j < ip[u]
    BY <2>1, <2>6, <2>7, <2>8
  <2> QED
    BY <1>8, <1>3, <2>9 DEF Made
<1> QED
  BY <1>7, <1>9, <1>10 DEF KeyFrom

-----------------------------------------------------------------------------
(* Steps that execute no operation on keys.                               *)

(* No thread executes an operation of the name o in this step. *)
Held(o) ==
  \A u \in Thread : \A j \in DOMAIN setup.prog[u] :
    setup.prog[u][j][1] = o => (j < ip'[u] <=> j < ip[u])
PastStays == Held("key_create") /\ Held("set")

(* These operations are executed by no step but their own. *)
KeyMaking == {"set", "key_create"}

LEMMA OpsAreOther ==
  ASSUME NEW c \in Lcore, NEW t \in Thread, ThreadStep(c, t) \/ GreenThreadStep(c, t),
         Op(t)[1] \in AtOnce => pc[t] = "op"
  PROVE  Op(t)[1] \notin KeyMaking
<1> USE DEF KeyMaking, AtOnce, Calls, At
<1>1. CASE Yield(c, t) \/ Sleep(c, t) \/ SetAffinity(c, t) \/ Detach(c, t)
  BY <1>1 DEF Yield, Sleep, SetAffinity, Detach
<1>2. CASE Create(c, t) \/ Cancel(c, t) \/ CancelTasklet(c, t) \/ ShutdownAll(c, t)
  BY <1>2 DEF Create, Cancel, CancelTasklet, ShutdownAll
<1>3. CASE Return(c, t) \/ ExitCall(c, t) \/ ExitFirst(c, t) \/ ExitResumed(c, t)
           \/ ExitSecond(c, t) \/ ExitWakes(c, t)
  BY <1>3 DEF Return, ExitCall, ExitFirst, ExitResumed, ExitSecond, ExitWakes
<1>4. CASE ExitCollected(c, t) \/ ExitWaits(c, t) \/ Leave(c, t) \/ Derail(c, t)
  BY <1>4 DEF ExitCollected, ExitWaits, Leave, Derail
<1>5. CASE JoinCall(c, t) \/ JoinFirst(c, t) \/ JoinSecond(c, t) \/ JoinWaits(c, t)
           \/ JoinCollects(c, t)
  BY <1>5 DEF JoinCall, JoinFirst, JoinSecond, JoinWaits, JoinCollects
<1>6. CASE LockCall(c, t) \/ LockCas(c, t) \/ LockCount(c, t) \/ LockOwner(c, t)
           \/ TrylockCall(c, t) \/ TrylockCas(c, t) \/ TrylockBusy(c, t)
  BY <1>6 DEF LockCall, LockCas, LockCount, LockOwner, TrylockCall, TrylockCas, TrylockBusy
<1>7. CASE UnlockCall(c, t) \/ UnlockCheck(c, t) \/ UnlockRemove(c, t) \/ UnlockWakes(c, t)
           \/ UnlockReleases(c, t)
  BY <1>7 DEF UnlockCall, UnlockCheck, UnlockRemove, UnlockWakes, UnlockReleases
<1>8. CASE CondWait(c, t) \/ CondSignal(c, t) \/ CondSignals(c, t)
           \/ CondBroadcast(c, t) \/ CondBroadcasts(c, t) \/ CondYields(c, t)
  BY <1>8 DEF CondWait, CondSignal, CondSignals, CondBroadcast, CondBroadcasts, CondYields
<1>9. CASE GreenThreadStep(c, t)
  BY <1>9 DEF GreenThreadStep, Sleeps, Yields, Spawned, DummyStarts, DummySleeps, DummyYields, DummyEnds
<1> QED
  BY <1>1, <1>2, <1>3, <1>4, <1>5, <1>6, <1>7, <1>8, <1>9 DEF ThreadStep

(* One thread goes on by an operation of another name. *)
LEMMA HeldByOther ==
  ASSUME PlacesInv, NEW t \in Thread, NEW o, Op(t)[1] # o,
         UNCHANGED ip \/ ip' = [ip EXCEPT ![t] = @ + 1]
  PROVE  Held(o)
<1>1. ip \in [Thread -> Nat \ {0}] /\ setup \in Setup
  BY DEF PlacesInv, MainHolds, Stands, ProgsHold
<1>2. ASSUME NEW u \in Thread, NEW j \in DOMAIN setup.prog[u], setup.prog[u][j][1] = o
      PROVE  j < ip'[u] <=> j < ip[u]
  <2>1. j \in Nat /\ j <= Len(setup.prog[u]) /\ Len(setup.prog[u]) \in Nat /\ ip[u] \in Nat
    BY <1>1, IndexIs
  <2>2. CASE ip'[u] = ip[u]
    BY <2>2
  <2>3. CASE ip'[u] # ip[u]
    <3>1. u = t /\ ip'[u] = ip[u] + 1
      BY <1>1, <2>3
    <3>2. j # ip[u]
      BY <1>2, <2>1, <3>1 DEF Op
    <3> QED
      BY <2>1, <3>1, <3>2
  <2> QED
    BY <2>2, <2>3
<1> QED
  BY <1>2 DEF Held

LEMMA OthersAreQuiet ==
  ASSUME PlacesInv, MarksHold, MainStep \/ (\E c \in Lcore : GreenStep(c)) \/ UNCHANGED threadVars
  PROVE  PastStays
<1>1. ASSUME UNCHANGED ip PROVE PastStays
  BY <1>1 DEF PastStays, Held
<1>2. CASE MainStep
  <2>1. UNCHANGED ip
    BY <1>2 DEF MainStep, Register, Registered, LaunchRefused, Launch, Join, JoinMisses, Unregister,
                UnregisterRefused, Unregistered, lthreadVars, vars, Unscheduled
  <2> QED
    BY <1>1, <2>1
<1>3. CASE UNCHANGED threadVars
  BY <1>1, <1>3 DEF threadVars, allVars, vars
<1>4. ASSUME NEW c \in Lcore, GreenStep(c) PROVE PastStays
  <2>1. CASE Launcher(c) \/ Link(c)
    BY <1>1, <2>1 DEF Launcher, Link, lthreadVars, vars
  <2>2. CASE Schedule(c)
    BY <1>1, <2>2 DEF Schedule, Start, Synced, Top, Stopped, PollReady, PollPReady, Poll, TimerExpires,
                      SwitchedBack, Restore
  <2>3. ASSUME NEW t \in Thread, ThreadStep(c, t) \/ GreenThreadStep(c, t) PROVE PastStays
    <3>1. Op(t)[1] \in AtOnce => pc[t] = "op"
      BY DEF MarksHold, ThreadMarks
    <3>2. Op(t)[1] \notin KeyMaking
      BY <2>3, <3>1, OpsAreOther
    <3>3. CASE Derail(c, t)
      BY <1>1, <3>3 DEF Derail
    <3>4. CASE ~ Derail(c, t)
      <4>1. Acts(c, t)
        BY <2>3, <3>4, ThreadActs, GreenActs DEF MarksHold
      <4>2. UNCHANGED ip \/ ip' = [ip EXCEPT ![t] = @ + 1]
        BY <4>1 DEF Acts, PcStep, PcTo
      <4>3. Op(t)[1] # "key_create" /\ Op(t)[1] # "set"
        BY <3>2 DEF KeyMaking
      <4> QED
        BY <4>2, <4>3, HeldByOther DEF PastStays
    <3> QED
      BY <3>3, <3>4
  <2> QED
    BY <1>4, <2>1, <2>2, <2>3 DEF GreenStep, LcoreStep
<1> QED
  BY <1>2, <1>3, <1>4

(* What they say of the past stays. *)
LEMMA MadeStays ==
  ASSUME UNCHANGED setup, Held("key_create"), NEW n
  PROVE  Made(n)' <=> Made(n)
BY DEF Made, Held

LEMMA SetsStay ==
  ASSUME PlacesInv, UNCHANGED setup, Held("set"), NEW t \in Thread, NEW n
  PROVE  Sets(t, n)' = Sets(t, n) /\ LastSet(t, n)' = LastSet(t, n)
<1>1. DOMAIN setup.prog[t] = 1 .. Len(setup.prog[t])
  BY LthreadAssumption DEF PlacesInv, MainHolds
<1>2. Sets(t, n)' = Sets(t, n)
  BY <1>1 DEF Sets, Held
<1> QED
  BY <1>2 DEF LastSet

-----------------------------------------------------------------------------
(* Steps that free threads and hand over their values.                    *)

LEMMA KeysAre == IsFiniteSet(Key) /\ Key \subseteq Nat \ {0} /\ Null \notin Key /\ Cardinality(Key) \in Nat
BY TlsAssumption, FS_CardinalityType DEF Null

LEMMA UsedIsFinite ==
  ASSUME NEW t
  PROVE  IsFiniteSet(Used(t)) /\ Cardinality(Used(t)) \in Nat
<1>1. Used(t) \subseteq Key
  BY DEF Used
<1> QED
  BY <1>1, KeysAre, FS_Subset, FS_CardinalityType

(* If the count of keys in use is not too small all values are given away. *)
LEMMA AllUsedGo ==
  ASSUME ValuesHold, NEW t \in Thread
  PROVE  Destroyed(t) = Used(t)
<1>1. IsFiniteSet(Used(t)) /\ Cardinality(Used(t)) \in Nat /\ Used(t) \subseteq Nat
  BY UsedIsFinite, KeysAre DEF Used
<1>2. Cardinality(Used(t)) <= inuse[t] /\ inuse[t] \in Int
  BY DEF ValuesHold
<1>3. ASSUME NEW k \in Used(t) PROVE Cardinality({j \in Used(t) : j < k}) < inuse[t]
  <2> DEFINE B == {j \in Used(t) : j < k}
  <2>1. B \subseteq Used(t) \ {k}
    BY <1>1
  <2>2. IsFiniteSet(Used(t) \ {k}) /\ Cardinality(Used(t) \ {k}) = Cardinality(Used(t)) - 1
    BY <1>1, FS_RemoveElement
  <2>3. Cardinality(B) <= Cardinality(Used(t)) - 1 /\ Cardinality(B) \in Nat
    BY <2>1, <2>2, FS_Subset, FS_CardinalityType
  <2> HIDE DEF B
  <2>4. Cardinality(B) < inuse[t]
    BY <1>1, <1>2, <2>3
  <2> QED
    BY <2>4 DEF B
<1> QED
  BY <1>3 DEF Destroyed

-----------------------------------------------------------------------------
(* The steps that free threads. *)
Freed == {t \in Thread : "FREED" \in state'[t] /\ "FREED" \notin state[t]}
Handed(t) == {[by |-> t, key |-> k, value |-> data[t][k]] : k \in {j \in Destroyed(t) : destructor[j]}}

LEMMA KeptIs ==
  ASSUME TlsKept
  PROVE  /\ UNCHANGED <<pool, key>>
         /\ destructor' = IF NewScheduler THEN [k \in Key |-> FALSE] ELSE destructor
         /\ data' = [t \in Thread |-> IF t \in Freed THEN [k \in Key |-> IF k \in Destroyed(t) THEN Null ELSE data[t][k]]
                                      ELSE data[t]]
         /\ inuse' = [t \in Thread |-> IF t \in Freed THEN inuse[t] - Cardinality(Destroyed(t)) ELSE inuse[t]]
         /\ destroyed' = destroyed \cup UNION {Handed(t) : t \in Freed}
BY DEF TlsKept, Freed, Handed

LEMMA FreeingKeepsKeys ==
  ASSUME PlacesInv, MarksHold, KeysHold, MadeHold, TlsKept, PastStays, UNCHANGED setup, [TlsNext]_threadVars
  PROVE  /\ KeysHold' /\ MadeHold'
         /\ \A n \in Name : key[n] # Null => destructor'[key[n]] /\ destructor[key[n]]
<1>1. UNCHANGED <<pool, key>> /\ destructor' = IF NewScheduler THEN [k \in Key |-> FALSE] ELSE destructor
  BY KeptIs
<1>2. ASSUME Started = Lcore PROVE destructor' = destructor /\ Started' = Lcore
  <2>1. \A c \in Lcore : sc[c] # "off"
    BY <1>2 DEF Started, Beginning
  <2>2. ~ NewScheduler
    BY <2>1 DEF NewScheduler
  <2>3. Started' = Started
    BY <2>1, StartsGoOn DEF Start
  <2> QED
    BY <1>1, <1>2, <2>2, <2>3
<1>3. KeysHold'
  <2>1. destructor' \in [Key -> BOOLEAN]
    BY <1>1 DEF KeysHold
  <2> QED
    BY <1>1, <2>1 DEF KeysHold, Distinct, Has
<1>4. ASSUME NEW n \in Name
      PROVE  /\ (IF key[n] = Null THEN Made(n) => pool = <<>>
                 ELSE Made(n) /\ Started = Lcore /\ destructor[key[n]])'
             /\ key[n] # Null => destructor'[key[n]] /\ destructor[key[n]]
  <2>1. Made(n)' <=> Made(n)
    BY MadeStays DEF PastStays
  <2> QED
    BY <1>1, <1>2, <2>1 DEF MadeHold
<1>5. ASSUME NEW t \in Thread, NEW n \in Name PROVE Sets(t, n)' # {} => Made(n)'
  BY MadeStays, SetsStay DEF PastStays, MadeHold
<1> QED
  BY <1>3, <1>4, <1>5 DEF MadeHold

LEMMA FreeingKeepsValues ==
  ASSUME PlacesInv, MarksHold, ValuesHold, TlsKept, PastStays, UNCHANGED setup, [TlsNext]_threadVars
  PROVE  ValuesHold'
<1>1. UNCHANGED key
  BY KeptIs
<1>2. ASSUME NEW t \in Thread
      PROVE  /\ inuse'[t] \in Int /\ data'[t] = [k \in Key |-> data'[t][k]]
             /\ t \notin Freed => data'[t] = data[t]
             /\ Cardinality(Used(t)') <= inuse'[t]
             /\ Used(t)' \subseteq Used(t)
  <2>1. Destroyed(t) = Used(t) /\ Cardinality(Used(t)) \in Nat /\ inuse[t] \in Int
        /\ Cardinality(Used(t)) <= inuse[t] /\ data[t] = [k \in Key |-> data[t][k]]
    BY AllUsedGo, UsedIsFinite DEF ValuesHold
  <2>2. CASE t \in Freed
    <3>1. /\ data'[t] = [k \in Key |-> IF k \in Used(t) THEN Null ELSE data[t][k]]
          /\ inuse'[t] = inuse[t] - Cardinality(Used(t))
      BY <2>1, <2>2, KeptIs
    <3>2. Used(t)' = {}
      BY <3>1 DEF Used
    <3>3. Cardinality(Used(t)') = 0
      BY <3>2, FS_EmptySet
    <3> QED
      BY <2>1, <2>2, <3>1, <3>2, <3>3
  <2>3. CASE t \notin Freed
    <3>1. data'[t] = data[t] /\ inuse'[t] = inuse[t]
      BY <2>3, KeptIs
    <3>2. Used(t)' = Used(t)
      BY <3>1 DEF Used
    <3> QED
      BY <2>1, <3>1, <3>2
  <2> QED
    BY <2>2, <2>3
<1>3. data' = [t \in Thread |-> data'[t]] /\ inuse' \in [Thread -> Int]
  BY <1>2, KeptIs
<1>4. ASSUME NEW t \in Thread, NEW n \in Name, key[n] # Null, "FREED" \notin state'[t]
      PROVE  data'[t][key[n]] = LastSet(t, n)'
  <2>1. "FREED" \notin state[t] /\ t \notin Freed
    BY <1>4, FreedRemains DEF Freed
  <2>2. data'[t] = data[t] /\ LastSet(t, n)' = LastSet(t, n)
    BY <1>2, <2>1, SetsStay DEF PastStays
  <2> QED
    BY <1>4, <2>1, <2>2 DEF ValuesHold
<1>5. ASSUME NEW t \in Thread, NEW k \in Used(t)' PROVE \E n \in Name : key'[n] = k
  BY <1>1, <1>2, <1>5 DEF ValuesHold
<1> QED
  BY <1>1, <1>2, <1>3, <1>4, <1>5 DEF ValuesHold

LEMMA FreeingHandsOver ==
  ASSUME PlacesInv, MarksHold, KeysHold, ValuesHold, DestroyedHold, TlsKept, PastStays, UNCHANGED setup,
         [TlsNext]_threadVars,
         \A n \in Name : key[n] # Null => destructor[key[n]]
  PROVE  DestroyedHold'
<1>1. UNCHANGED key /\ destroyed' = destroyed \cup UNION {Handed(t) : t \in Freed}
  BY KeptIs
<1>2. ASSUME NEW e \in destroyed'
      PROVE  \/ e \in destroyed
             \/ e.by \in Freed /\ e.key \in Used(e.by) /\ e.value = data[e.by][e.key]
  <2>1. CASE e \notin destroyed
    <3>1. PICK t \in Freed : e \in Handed(t)
      BY <1>1, <2>1
    <3>2. PICK k \in Destroyed(t) : e = [by |-> t, key |-> k, value |-> data[t][k]]
      BY <3>1 DEF Handed
    <3> QED
      BY <3>2 DEF Destroyed
  <2> QED
    BY <2>1
<1>3. ASSUME NEW e \in destroyed'
      PROVE  e.by \in Thread /\ "FREED" \in state'[e.by] /\ e.key # Null /\ \E n \in Name : key'[n] = e.key
  <2>1. CASE e \in destroyed
    BY <1>1, <2>1, FreedRemains DEF DestroyedHold
  <2>2. CASE e.by \in Freed /\ e.key \in Used(e.by)
    <3>1. e.by \in Thread /\ "FREED" \in state'[e.by] /\ e.key # Null
      BY <2>2, KeysAre DEF Freed, Used
    <3> QED
      BY <1>1, <2>2, <3>1 DEF ValuesHold
  <2> QED
    BY <1>2, <2>1, <2>2
<1>4. ASSUME NEW t \in Thread, NEW n \in Name, key[n] # Null, "FREED" \in state'[t]
      PROVE  Given(t, key[n])' = {LastSet(t, n)} \ {Null}
  <2>0. LastSet(t, n)' = LastSet(t, n)
    BY SetsStay DEF PastStays
  <2>1. CASE "FREED" \in state[t]
    <3>1. t \notin Freed
      BY <2>1 DEF Freed
    <3>2. \A e \in destroyed' : e.by = t => e \in destroyed
      BY <1>2, <3>1
    <3>3. Given(t, key[n])' = Given(t, key[n])
      BY <1>1, <3>2 DEF Given
    <3> QED
      BY <1>4, <2>1, <3>3 DEF DestroyedHold
  <2>2. CASE "FREED" \notin state[t]
    <3>0. PICK k : k = key[n]
      OBVIOUS
    <3>1. t \in Freed /\ k \in Key
      BY <1>4, <2>2, <3>0 DEF Freed, KeysHold
    <3>2. \A e \in destroyed : e.by # t
      BY <2>2 DEF DestroyedHold
    <3>3. data[t][k] = LastSet(t, n)
      BY <1>4, <2>2, <3>0 DEF ValuesHold
    <3>4. \A e \in destroyed' : e.by = t /\ e.key = k => e.value = LastSet(t, n) /\ k \in Used(t)
      BY <1>2, <3>2, <3>3
    <3>5. k \in Used(t) <=> LastSet(t, n) # Null
      BY <3>1, <3>3 DEF Used
    <3>6. ASSUME LastSet(t, n) # Null PROVE \E e \in destroyed' : e.by = t /\ e.key = k /\ e.value = LastSet(t, n)
      <4>1. k \in Destroyed(t) /\ destructor[k]
        BY <1>4, <3>0, <3>5, <3>6, AllUsedGo
      <4> DEFINE e == [by |-> t, key |-> k, value |-> data[t][k]]
      <4>2. e \in Handed(t)
        BY <4>1 DEF Handed
      <4>3. e \in destroyed'
        BY <1>1, <3>1, <4>2
      <4> QED
        BY <3>3, <4>3
    <3>7. {d.value : d \in {e \in destroyed' : e.by = t /\ e.key = k}} = {LastSet(t, n)} \ {Null}
      BY <3>4, <3>5, <3>6
    <3> QED
      BY <1>1, <3>0, <3>7 DEF Given
  <2> QED
    BY <2>1, <2>2
<1> QED
  <2>1. ASSUME NEW t \in Thread, NEW n \in Name, key'[n] # Null, "FREED" \in state'[t]
        PROVE  Given(t, key[n])' = ({LastSet(t, n)} \ {Null})'
    <3>1. LastSet(t, n)' = LastSet(t, n)
      BY SetsStay DEF PastStays
    <3> QED
      BY <1>1, <1>4, <2>1, <3>1
  <2> QED
    BY <1>3, <2>1 DEF DestroyedHold

-----------------------------------------------------------------------------
(* A key is created.                                                      *)

(* An operation on keys is executed, and nothing else. *)
LEMMA OpDone ==
  ASSUME PlacesInv, NEW c \in Lcore, NEW t \in Thread, NEW f, KeyOp(c, t, f), f # "return"
  PROVE  /\ Running(c, t) /\ Op(t)[1] = f /\ UNCHANGED <<setup, state, sc>> /\ setup \in Setup
         /\ ip' = [ip EXCEPT ![t] = @ + 1] /\ ip[t] \in DOMAIN setup.prog[t]
         /\ Op(t) = setup.prog[t][ip[t]] /\ "FREED" \notin state[t] /\ sc[c] \notin Waiting
         /\ \A u \in Thread : \A j \in DOMAIN setup.prog[u] :
              j < ip'[u] <=> j < ip[u] \/ (u = t /\ j = ip[t])
<1>1. /\ Running(c, t) /\ Op(t)[1] = f /\ UNCHANGED <<setup, state, sc>> /\ sc[c] = "run"
      /\ ip' = [ip EXCEPT ![t] = @ + 1]
  BY DEF KeyOp, Calls, At, Running, NoStep, Stay, Same, Advance
<1>2. setup \in Setup /\ ip \in [Thread -> Nat \ {0}]
  BY DEF PlacesInv, MainHolds, Stands, ProgsHold
<1>3. ip[t] \in DOMAIN setup.prog[t] /\ Op(t) = setup.prog[t][ip[t]]
  BY <1>1, <1>2, OpIs
<1>4. "FREED" \notin state[t]
  BY <1>1, OnIs DEF PlacesInv, Stands, Running
<1>5. ASSUME NEW u \in Thread, NEW j \in DOMAIN setup.prog[u]
      PROVE  j < ip'[u] <=> j < ip[u] \/ (u = t /\ j = ip[t])
  <2>1. j \in Nat /\ j <= Len(setup.prog[u]) /\ Len(setup.prog[u]) \in Nat /\ ip[u] \in Nat
    BY <1>2, IndexIs
  <2> QED
    BY <1>1, <1>2, <2>1
<1> QED
  BY <1>1, <1>2, <1>3, <1>4, <1>5 DEF Waiting

-----------------------------------------------------------------------------
LEMMA CreatedKeyIs ==
  ASSUME PlacesInv, StartsHold, InStep, KeysStay, MadeHold, NEW c \in Lcore, NEW t \in Thread,
         KeyOp(c, t, "key_create"), NEW o, o = Op(t)[2]
  PROVE  /\ o \in Name /\ Started = Lcore
         /\ key[o] = Null
         /\ \A u \in Thread : Sets(u, o) = {}
         /\ Made(o)' /\ \A n : n # o => (Made(n)' <=> Made(n))
         /\ Held("set")
<1>1. /\ Op(t)[1] = "key_create" /\ UNCHANGED setup /\ setup \in Setup
      /\ ip[t] \in DOMAIN setup.prog[t] /\ Op(t) = setup.prog[t][ip[t]] /\ sc[c] \notin Waiting
      /\ ip' = [ip EXCEPT ![t] = @ + 1]
      /\ \A u \in Thread : \A j \in DOMAIN setup.prog[u] :
           j < ip'[u] <=> j < ip[u] \/ (u = t /\ j = ip[t])
  BY OpDone
<1>2. o \in Name
  BY <1>1, TlsAssumption
<1>3. Started = Lcore
  <2>1. setup.num >= Cardinality(Lcore)
    BY SetupNum DEF InStep
  <2> QED
    BY <1>1, <2>1, AllHaveStarted
<1>4. ~ Made(o)
  <2>1. ASSUME NEW u \in Thread, NEW j \in DOMAIN setup.prog[u], j < ip[u],
               setup.prog[u][j][1] = "key_create", setup.prog[u][j][2] = o
        PROVE  FALSE
    <3>1. DOMAIN setup.prog[u] = 1 .. Len(setup.prog[u]) /\ DOMAIN setup.prog[t] = 1 .. Len(setup.prog[t])
      BY <1>1, LthreadAssumption
    <3>2. u = t /\ j = ip[t]
      BY <1>1, <2>1, <3>1 DEF KeysStay
    <3> QED
      BY <1>1, <2>1, <3>2, IndexIs
  <2> QED
    BY <2>1 DEF Made
<1>5. Made(o)'
  BY <1>1 DEF Made
<1>6. ASSUME NEW n, n # o PROVE Made(n)' <=> Made(n)
  BY <1>1, <1>6 DEF Made
<1>7. Held("set")
  BY <1>1, HeldByOther
<1> QED
  BY <1>2, <1>3, <1>4, <1>5, <1>6, <1>7 DEF MadeHold

LEMMA KeyCreateKeeps ==
  ASSUME PlacesInv, StartsHold, InStep, KeysStay, KeysHold, MadeHold, ValuesHold, DestroyedHold,
         NEW c \in Lcore, NEW t \in Thread, KeyCreate(c, t)
  PROVE  KeysHold' /\ MadeHold' /\ ValuesHold' /\ DestroyedHold'
<1>0. PICK n0 : n0 = Op(t)[2]
  OBVIOUS
<1>1. KeyOp(c, t, "key_create") /\ UNCHANGED <<data, inuse, destroyed>>
  BY DEF KeyCreate
<1>2. /\ n0 \in Name /\ Started = Lcore /\ key[n0] = Null
      /\ \A u \in Thread : Sets(u, n0) = {}
      /\ Made(n0)' /\ \A n : n # n0 => (Made(n)' <=> Made(n))
      /\ Held("set")
  BY <1>0, <1>1, CreatedKeyIs
<1>3. UNCHANGED <<setup, state, sc>>
  BY <1>1, OpDone
<1>4. Started' = Started
  BY <1>3 DEF Started
<1>5. \A u \in Thread : Used(u)' = Used(u)
  BY <1>1 DEF Used
<1>6. \A u \in Thread, n \in Name : Sets(u, n)' = Sets(u, n) /\ LastSet(u, n)' = LastSet(u, n)
  BY <1>2, <1>3, SetsStay
<1>7. CASE pool = <<>>
  <2>1. UNCHANGED <<pool, destructor, key>>
    BY <1>7 DEF KeyCreate
  <2>2. KeysHold'
    BY <2>1 DEF KeysHold, Distinct, Has
  <2>3. MadeHold'
    <3>1. ASSUME NEW n \in Name
          PROVE  (IF key[n] = Null THEN Made(n) => pool = <<>> ELSE Made(n) /\ Started = Lcore /\ destructor[key[n]])'
      BY <1>2, <1>4, <1>7, <2>1 DEF MadeHold
    <3>2. ASSUME NEW u \in Thread, NEW n \in Name PROVE Sets(u, n)' # {} => Made(n)'
      BY <1>2, <1>6 DEF MadeHold
    <3> QED
      BY <3>1, <3>2 DEF MadeHold
  <2>4. ValuesHold'
    BY <1>1, <1>3, <1>5, <1>6, <2>1 DEF ValuesHold
  <2>5. DestroyedHold'
    <3>1. ASSUME NEW u \in Thread, NEW n \in Name
          PROVE  Given(u, key[n])' = Given(u, key[n])
      BY <1>1, <2>1 DEF Given
    <3> QED
      BY <1>1, <1>3, <1>6, <2>1, <3>1 DEF DestroyedHold
  <2> QED
    BY <2>2, <2>3, <2>4, <2>5
<1>8. CASE pool # <<>>
  <2>0. PICK k : k = Head(pool)
    OBVIOUS
  <2>1. /\ pool' = Tail(pool) /\ destructor' = [destructor EXCEPT ![k] = TRUE]
        /\ key' = [key EXCEPT ![n0] = k]
    BY <1>0, <1>8, <2>0 DEF KeyCreate
  <2>2. /\ k \in Key /\ Has(pool, k) /\ Tail(pool) \in Seq(Key) /\ Distinct(Tail(pool))
        /\ \A x \in Key : Has(Tail(pool), x) <=> Has(pool, x) /\ x # k
    BY <1>8, <2>0, TailIs DEF KeysHold
  <2>3. k # Null /\ \A n \in Name : key[n] # k
    BY <2>2, KeysAre DEF KeysHold
  <2>4. /\ key' \in [Name -> Key \cup {Null}] /\ destructor' \in [Key -> BOOLEAN] /\ destructor'[k]
        /\ key'[n0] = k /\ \A n \in Name : n # n0 => key'[n] = key[n]
        /\ \A x \in Key : destructor[x] => destructor'[x]
    BY <1>2, <2>1, <2>2 DEF KeysHold
  <2>5. KeysHold'
    <3>1. ASSUME NEW n \in Name PROVE ~ Has(Tail(pool), key'[n])
      <4>1. CASE n = n0
        BY <2>2, <2>4, <4>1
      <4>2. CASE n # n0
        <5>1. key'[n] = key[n] /\ ~ Has(pool, key[n])
          BY <2>4, <4>2 DEF KeysHold
        <5>2. Null \notin Key /\ \A i \in 1 .. Len(Tail(pool)) : Tail(pool)[i] \in Key
          BY <2>2, KeysAre
        <5>3. CASE key[n] = Null
          BY <5>1, <5>2, <5>3 DEF Has
        <5>4. CASE key[n] # Null
          BY <2>2, <5>1, <5>4 DEF KeysHold
        <5> QED
          BY <5>3, <5>4
      <4> QED
        BY <4>1, <4>2
    <3>2. ASSUME NEW n \in Name, NEW m \in Name, key'[n] = key'[m] PROVE n = m \/ key'[n] = Null
      BY <2>3, <2>4, <3>2 DEF KeysHold
    <3>3. \A n \in Name : ~ Has(pool, key[n])'
      BY <2>1, <3>1 DEF Has
    <3>4. pool' \in Seq(Key) /\ Distinct(pool)'
      BY <2>1, <2>2 DEF Distinct
    <3> QED
      BY <2>4, <3>2, <3>3, <3>4 DEF KeysHold
  <2>6. MadeHold'
    <3>1. ASSUME NEW n \in Name
          PROVE  (IF key[n] = Null THEN Made(n) => pool = <<>> ELSE Made(n) /\ Started = Lcore /\ destructor[key[n]])'
      <4>1. CASE n = n0
        BY <1>2, <1>4, <2>3, <2>4, <4>1
      <4>2. CASE n # n0
        <5>1. key'[n] = key[n] /\ (Made(n)' <=> Made(n)) /\ key[n] \in Key \cup {Null}
          BY <1>2, <2>4, <4>2 DEF KeysHold
        <5> QED
          BY <1>8, <1>4, <2>4, <5>1 DEF MadeHold
      <4> QED
        BY <4>1, <4>2
    <3>2. ASSUME NEW u \in Thread, NEW n \in Name PROVE Sets(u, n)' # {} => Made(n)'
      BY <1>2, <1>6 DEF MadeHold
    <3> QED
      BY <3>1, <3>2 DEF MadeHold
  <2>7. ValuesHold'
    <3>1. ASSUME NEW u \in Thread, NEW x \in Used(u) PROVE \E n \in Name : key'[n] = x
      <4>1. PICK n \in Name : key[n] = x
        BY <3>1 DEF ValuesHold
      <4>2. x # Null
        BY <3>1, KeysAre DEF Used
      <4> QED
        BY <1>2, <2>4, <4>1, <4>2
    <3>2. ASSUME NEW u \in Thread, NEW n \in Name, key'[n] # Null, "FREED" \notin state[u]
          PROVE  data[u][key'[n]] = LastSet(u, n)
      <4>1. CASE n = n0
        <5>1. LastSet(u, n) = Null
          BY <1>2, <4>1 DEF LastSet
        <5>2. k \notin Used(u)
          BY <2>3 DEF ValuesHold
        <5>3. data[u][k] = Null
          BY <2>2, <5>2 DEF Used
        <5> QED
          BY <2>4, <4>1, <5>1, <5>3
      <4>2. CASE n # n0
        BY <2>4, <3>2, <4>2 DEF ValuesHold
      <4> QED
        BY <4>1, <4>2
    <3> QED
      BY <1>1, <1>3, <1>5, <1>6, <3>1, <3>2 DEF ValuesHold
  <2>8. DestroyedHold'
    <3>1. ASSUME NEW e \in destroyed PROVE e.by \in Thread /\ "FREED" \in state[e.by] /\ e.key # k /\ \E n \in Name : key'[n] = e.key
      <4>1. PICK n \in Name : key[n] = e.key
        BY <3>1 DEF DestroyedHold
      <4>2. e.key # k
        BY <2>3, <4>1
      <4> QED
        BY <3>1, <1>2, <2>4, <4>1, <4>2 DEF DestroyedHold
    <3>2. ASSUME NEW u \in Thread, NEW n \in Name, key'[n] # Null, "FREED" \in state[u]
          PROVE  Given(u, key[n])' = {LastSet(u, n)} \ {Null}
      <4>1. CASE n = n0
        <5>1. LastSet(u, n) = Null
          BY <1>2, <4>1 DEF LastSet
        <5>2. \A e \in destroyed : e.key # k
          BY <3>1
        <5>3. key'[n] = k
          BY <2>4, <4>1
        <5>4. Given(u, key[n])' = {}
          BY <1>1, <5>2, <5>3 DEF Given
        <5> QED
          BY <5>1, <5>4
      <4>2. CASE n # n0
        <5>1. key'[n] = key[n]
          BY <2>4, <4>2
        <5>2. Given(u, key[n])' = Given(u, key[n])
          BY <1>1, <5>1 DEF Given
        <5> QED
          BY <3>2, <5>1, <5>2 DEF DestroyedHold
      <4> QED
        BY <4>1, <4>2
    <3> QED
      BY <1>1, <1>3, <1>6, <3>1, <3>2 DEF DestroyedHold
  <2> QED
    BY <2>5, <2>6, <2>7, <2>8
<1> QED
  BY <1>7, <1>8

-----------------------------------------------------------------------------
(* A value is set, or looked at.                                          *)

(* What a thread has set last under a name, after it sets a value there. *)
LEMMA SetIs ==
  ASSUME PlacesInv, KeysKnown, NEW c \in Lcore, NEW t \in Thread, KeyOp(c, t, "set"), NEW o, o = Op(t)[2]
  PROVE  /\ o \in Name /\ Made(o)
         /\ LastSet(t, o)' = Op(t)[3]
         /\ \A u \in Thread, n \in Name : u # t \/ n # o =>
              Sets(u, n)' = Sets(u, n) /\ LastSet(u, n)' = LastSet(u, n)
         /\ Held("key_create")
<1>0. PICK i : i = ip[t]
  OBVIOUS
<1>1. /\ Op(t)[1] = "set" /\ UNCHANGED setup /\ setup \in Setup /\ Running(c, t)
      /\ i \in DOMAIN setup.prog[t] /\ Op(t) = setup.prog[t][i]
      /\ ip' = [ip EXCEPT ![t] = @ + 1]
      /\ \A u \in Thread : \A j \in DOMAIN setup.prog[u] :
           j < ip'[u] <=> j < ip[u] \/ (u = t /\ j = i)
  BY <1>0, OpDone
<1>2. o \in Name /\ Made(o)
  BY <1>1, UsersKnow
<1>3. \A u \in Thread : DOMAIN setup.prog[u] = 1 .. Len(setup.prog[u])
  BY <1>1, LthreadAssumption
<1>4. Sets(t, o)' = Sets(t, o) \cup {i}
  BY <1>1, <1>3 DEF Sets
<1>5. i \in Nat /\ \A j \in Sets(t, o) : j \in Nat /\ j < i
  BY <1>0, <1>1, <1>3, IndexIs DEF Sets
<1>6. LastSet(t, o)' = Op(t)[3]
  <2>1. Sets(t, o)' # {} /\ i \in Sets(t, o)'
    BY <1>4
  <2>2. \A j \in Sets(t, o)' : j <= i
    BY <1>4, <1>5
  <2>3. PICK m : m = (CHOOSE k \in Sets(t, o)' : \A j \in Sets(t, o)' : j <= k)
    OBVIOUS
  <2>4. m \in Sets(t, o)' /\ \A j \in Sets(t, o)' : j <= m
    BY <2>1, <2>2, <2>3
  <2>5. m = i
    BY <1>4, <1>5, <2>1, <2>2, <2>4
  <2>6. LastSet(t, o)' = setup.prog[t][m][3]
    BY <1>1, <2>1, <2>3 DEF LastSet
  <2> QED
    BY <1>1, <2>5, <2>6
<1>7. ASSUME NEW u \in Thread, NEW n \in Name, u # t \/ n # o
      PROVE  Sets(u, n)' = Sets(u, n) /\ LastSet(u, n)' = LastSet(u, n)
  <2>1. Sets(u, n)' = Sets(u, n)
    BY <1>1, <1>3, <1>7 DEF Sets
  <2> QED
    BY <1>1, <2>1 DEF LastSet
<1>8. Held("key_create")
  BY <1>1, HeldByOther
<1> QED
  BY <1>2, <1>6, <1>7, <1>8

Puts(t, k, v) ==
  /\ data' = [data EXCEPT ![t][k] = v]
  /\ inuse' = IF v # Null /\ data[t][k] = Null THEN [inuse EXCEPT ![t] = @ + 1] ELSE inuse

(* The count of keys in use stays large enough: it grows with the first    *)
(* value of a key and never goes down. *)
LEMMA SetCounts ==
  ASSUME ValuesHold, NEW t \in Thread, NEW k \in Key, NEW v, Puts(t, k, v)
  PROVE  /\ data' = [u \in Thread |-> data'[u]] /\ inuse' \in [Thread -> Int]
         /\ data'[t][k] = v
         /\ \A x \in Key : x # k => data'[t][x] = data[t][x]
         /\ \A u \in Thread : u # t => data'[u] = data[u]
         /\ \A u \in Thread : data'[u] = [x \in Key |-> data'[u][x]]
         /\ \A u \in Thread : Used(u)' \subseteq Used(u) \cup {k}
         /\ \A u \in Thread : Cardinality(Used(u)') <= inuse'[u]
<1>1. /\ data = [u \in Thread |-> data[u]] /\ inuse \in [Thread -> Int]
      /\ \A u \in Thread : data[u] = [x \in Key |-> data[u][x]] /\ Cardinality(Used(u)) <= inuse[u]
  BY DEF ValuesHold
<1>2. /\ data' = [u \in Thread |-> data'[u]] /\ inuse' \in [Thread -> Int]
      /\ data'[t] = [data[t] EXCEPT ![k] = v]
      /\ \A u \in Thread : u # t => data'[u] = data[u] /\ inuse'[u] = inuse[u]
      /\ inuse'[t] = IF v # Null /\ data[t][k] = Null THEN inuse[t] + 1 ELSE inuse[t]
  <2>1. data' = [data EXCEPT ![t] = [data[t] EXCEPT ![k] = v]]
    BY DEF Puts
  <2>2. /\ data' = [u \in Thread |-> data'[u]] /\ data'[t] = [data[t] EXCEPT ![k] = v]
        /\ \A u \in Thread : u # t => data'[u] = data[u]
    BY <1>1, <2>1
  <2>3. /\ inuse' \in [Thread -> Int]
        /\ \A u \in Thread : u # t => inuse'[u] = inuse[u]
        /\ inuse'[t] = IF v # Null /\ data[t][k] = Null THEN inuse[t] + 1 ELSE inuse[t]
    BY <1>1 DEF Puts
  <2> QED
    BY <2>2, <2>3
<1>3. data'[t][k] = v /\ \A x \in Key : x # k => data'[t][x] = data[t][x]
  BY <1>1, <1>2
<1>4. \A u \in Thread : data'[u] = [x \in Key |-> data'[u][x]]
  BY <1>1, <1>2
<1>5. \A u \in Thread : u # t => Used(u)' = Used(u)
  BY <1>2 DEF Used
<1>6. Used(t)' = IF v = Null THEN Used(t) \ {k} ELSE Used(t) \cup {k}
  BY <1>3 DEF Used
<1>7. IsFiniteSet(Used(t)) /\ Cardinality(Used(t)) \in Nat
  BY UsedIsFinite
<1>8. Cardinality(Used(t)') <= inuse'[t]
  <2>1. CASE v = Null
    <3>1. Used(t)' \subseteq Used(t)
      BY <1>6, <2>1
    <3>2. Cardinality(Used(t)') <= Cardinality(Used(t)) /\ Cardinality(Used(t)') \in Nat
      BY <1>7, <3>1, FS_Subset, FS_CardinalityType
    <3> QED
      BY <1>1, <1>2, <1>7, <2>1, <3>2
  <2>2. CASE v # Null /\ data[t][k] = Null
    <3>1. Used(t)' = Used(t) \cup {k} /\ k \notin Used(t)
      BY <1>6, <2>2 DEF Used
    <3>2. Cardinality(Used(t)') = Cardinality(Used(t)) + 1
      BY <1>7, <3>1, FS_AddElement
    <3> QED
      BY <1>1, <1>2, <1>7, <2>2, <3>2
  <2>3. CASE v # Null /\ data[t][k] # Null
    <3>1. Used(t)' = Used(t)
      BY <1>6, <2>3 DEF Used
    <3> QED
      BY <1>1, <1>2, <2>3, <3>1
  <2> QED
    BY <2>1, <2>2, <2>3
<1>9. \A u \in Thread : Cardinality(Used(u)') <= inuse'[u]
  BY <1>1, <1>2, <1>5, <1>8
<1>10. \A u \in Thread : Used(u)' \subseteq Used(u) \cup {k}
  BY <1>5, <1>6
<1> QED
  BY <1>2, <1>3, <1>4, <1>9, <1>10

LEMMA SetKeeps ==
  ASSUME PlacesInv, KeysKnown, KeysHold, MadeHold, ValuesHold, DestroyedHold,
         NEW c \in Lcore, NEW t \in Thread, SetSpecific(c, t)
  PROVE  KeysHold' /\ MadeHold' /\ ValuesHold' /\ DestroyedHold'
<1>1. PICK o : o = Op(t)[2]
  OBVIOUS
<1>2. PICK v : v = Op(t)[3]
  OBVIOUS
<1>3. KeyOp(c, t, "set") /\ UNCHANGED <<pool, destructor, key, destroyed>>
  BY DEF SetSpecific
<1>4. /\ o \in Name /\ Made(o) /\ LastSet(t, o)' = v
      /\ \A u \in Thread, n \in Name : u # t \/ n # o =>
           Sets(u, n)' = Sets(u, n) /\ LastSet(u, n)' = LastSet(u, n)
      /\ Held("key_create")
  BY <1>1, <1>2, <1>3, SetIs
<1>5. UNCHANGED <<setup, state, sc>> /\ "FREED" \notin state[t]
  BY <1>3, OpDone
<1>6. \A n : Made(n)' <=> Made(n)
  BY <1>4, <1>5, MadeStays
<1>7. KeysHold'
  BY <1>3 DEF KeysHold, Distinct, Has
<1>8. MadeHold'
  <2>1. ASSUME NEW n \in Name
        PROVE  (IF key[n] = Null THEN Made(n) => pool = <<>> ELSE Made(n) /\ Started = Lcore /\ destructor[key[n]])'
    <3>1. Started' = Started
      BY <1>5 DEF Started
    <3> QED
      BY <1>3, <1>6, <3>1 DEF MadeHold
  <2>2. ASSUME NEW u \in Thread, NEW n \in Name PROVE Sets(u, n)' # {} => Made(n)'
    BY <1>4, <1>6 DEF MadeHold
  <2> QED
    BY <2>1, <2>2 DEF MadeHold
<1>9. ValuesHold'
  <2>1. CASE key[o] = Null
    <3>1. UNCHANGED <<data, inuse>>
      BY <1>1, <2>1 DEF SetSpecific, KeyOf
    <3>2. \A u \in Thread : Used(u)' = Used(u)
      BY <3>1 DEF Used
    <3>3. ASSUME NEW u \in Thread, NEW n \in Name, key[n] # Null, "FREED" \notin state[u]
          PROVE  data[u][key[n]] = LastSet(u, n)'
      BY <1>4, <2>1, <3>3 DEF ValuesHold
    <3> QED
      BY <1>3, <1>5, <3>1, <3>2, <3>3 DEF ValuesHold
  <2>2. CASE key[o] # Null
    <3>1. PICK k : k = key[o]
      OBVIOUS
    <3>2. k \in Key
      BY <1>4, <2>2, <3>1 DEF KeysHold
    <3>3. Puts(t, k, v)
      BY <1>1, <1>2, <2>2, <3>1 DEF SetSpecific, KeyOf, Puts
    <3>4. /\ data' = [u \in Thread |-> data'[u]] /\ inuse' \in [Thread -> Int] /\ data'[t][k] = v
          /\ \A x \in Key : x # k => data'[t][x] = data[t][x]
          /\ \A u \in Thread : u # t => data'[u] = data[u]
          /\ \A u \in Thread : data'[u] = [x \in Key |-> data'[u][x]]
          /\ \A u \in Thread : Used(u)' \subseteq Used(u) \cup {k}
          /\ \A u \in Thread : Cardinality(Used(u)') <= inuse'[u]
      BY <3>2, <3>3, SetCounts
    <3>5. ASSUME NEW u \in Thread, NEW n \in Name, key[n] # Null, "FREED" \notin state[u]
          PROVE  data'[u][key[n]] = LastSet(u, n)'
      <4>1. CASE u = t /\ n = o
        BY <1>4, <3>1, <3>4, <4>1
      <4>2. CASE u = t /\ n # o
        <5>1. key[n] \in Key /\ key[n] # k
          BY <1>4, <2>2, <3>1, <3>5, <4>2 DEF KeysHold
        <5>2. data'[t][key[n]] = data[t][key[n]]
          BY <3>4, <5>1
        <5> QED
          BY <1>4, <3>5, <4>2, <5>2 DEF ValuesHold
      <4>3. CASE u # t
        BY <1>4, <3>4, <3>5, <4>3 DEF ValuesHold
      <4> QED
        BY <4>1, <4>2, <4>3
    <3>6. ASSUME NEW u \in Thread, NEW x \in Used(u)' PROVE \E n \in Name : key[n] = x
      BY <1>4, <3>1, <3>4, <3>6 DEF ValuesHold
    <3> QED
      BY <1>3, <1>5, <3>4, <3>5, <3>6 DEF ValuesHold
  <2> QED
    BY <2>1, <2>2
<1>10. DestroyedHold'
  <2>1. ASSUME NEW u \in Thread, NEW n \in Name, key[n] # Null, "FREED" \in state[u]
        PROVE  Given(u, key[n])' = {LastSet(u, n)'} \ {Null}
    <3>1. u # t
      BY <1>5, <2>1
    <3>2. LastSet(u, n)' = LastSet(u, n)
      BY <1>4, <3>1
    <3>3. Given(u, key[n])' = Given(u, key[n])
      BY <1>3 DEF Given
    <3> QED
      BY <2>1, <3>2, <3>3 DEF DestroyedHold
  <2> QED
    BY <1>3, <1>5, <2>1 DEF DestroyedHold
<1> QED
  BY <1>7, <1>8, <1>9, <1>10

(* Steps that only go on. *)
LEMMA LookingKeeps ==
  ASSUME PlacesInv, KeysHold, MadeHold, ValuesHold, DestroyedHold, PastStays,
         UNCHANGED <<setup, state, sc, pool, destructor, key, data, inuse, destroyed>>
  PROVE  KeysHold' /\ MadeHold' /\ ValuesHold' /\ DestroyedHold'
<1>1. /\ \A n : Made(n)' <=> Made(n)
      /\ \A u \in Thread, n \in Name : Sets(u, n)' = Sets(u, n) /\ LastSet(u, n)' = LastSet(u, n)
  BY MadeStays, SetsStay DEF PastStays
<1>2. KeysHold'
  BY DEF KeysHold, Distinct, Has
<1>3. MadeHold'
  <2>1. ASSUME NEW n \in Name
        PROVE  (IF key[n] = Null THEN Made(n) => pool = <<>> ELSE Made(n) /\ Started = Lcore /\ destructor[key[n]])'
    <3>1. Started' = Started
      BY DEF Started
    <3> QED
      BY <1>1, <3>1 DEF MadeHold
  <2>2. ASSUME NEW u \in Thread, NEW n \in Name PROVE Sets(u, n)' # {} => Made(n)'
    BY <1>1 DEF MadeHold
  <2> QED
    BY <2>1, <2>2 DEF MadeHold
<1>4. ValuesHold'
  <2>1. \A u \in Thread : Used(u)' = Used(u)
    BY DEF Used
  <2> QED
    BY <1>1, <2>1 DEF ValuesHold
<1>5. DestroyedHold'
  <2>1. \A u \in Thread, n \in Name : Given(u, key[n])' = Given(u, key[n])
    BY DEF Given
  <2> QED
    BY <1>1, <2>1 DEF DestroyedHold
<1> QED
  BY <1>2, <1>3, <1>4, <1>5

-----------------------------------------------------------------------------
(* All steps, and the theorem of the last values.                         *)

LEMMA ToldBefore ==
  ASSUME UNCHANGED setup, [TlsNext]_threadVars, Told'
  PROVE  Told
<1>1. mishap = "none"
  BY MishapsLast DEF threadVars, allVars, vars, Told
<1>2. InStep /\ KeysStay /\ KeysKnown
  BY DEF Told, InStep, KeysStay, KeysKnown, KeyFrom
<1> QED
  BY <1>1, <1>2 DEF Told

LEMMA KeyStepKeeps ==
  ASSUME PlacesInv, StartsHold, Told, KeysHold, MadeHold, ValuesHold, DestroyedHold,
         NEW c \in Lcore, NEW t \in Thread, KeyStep(c, t)
  PROVE  KeysHold' /\ MadeHold' /\ ValuesHold' /\ DestroyedHold'
<1>1. CASE KeyCreate(c, t)
  BY <1>1, KeyCreateKeeps DEF Told
<1>2. CASE KeyDelete(c, t)
  <2>1. /\ Op(t)[1] = "key_delete" /\ setup \in Setup
        /\ ip[t] \in DOMAIN setup.prog[t] /\ Op(t) = setup.prog[t][ip[t]]
    BY <1>2, OpDone DEF KeyDelete
  <2>2. DOMAIN setup.prog[t] = 1 .. Len(setup.prog[t])
    BY <2>1, LthreadAssumption
  <2> QED
    BY <2>1, <2>2 DEF Told, KeysStay
<1>3. CASE SetSpecific(c, t)
  BY <1>3, SetKeeps DEF Told
<1>4. CASE GetSpecific(c, t)
  <2>1. KeyOp(c, t, "get") /\ UNCHANGED <<pool, destructor, key, data, inuse, destroyed>>
    BY <1>4 DEF GetSpecific
  <2>2. Op(t)[1] = "get" /\ UNCHANGED <<setup, state, sc>> /\ ip' = [ip EXCEPT ![t] = @ + 1]
    BY <2>1, OpDone
  <2>3. PastStays
    BY <2>2, HeldByOther DEF PastStays
  <2> QED
    BY <2>1, <2>2, <2>3, LookingKeeps
<1> QED
  BY <1>1, <1>2, <1>3, <1>4 DEF KeyStep

LEMMA KeyInvStep ==
  ASSUME PlacesInv, MarksHold, StartsHold, KeyInv, [TlsNext]_threadVars
  PROVE  KeyInv'
<1>1. UNCHANGED setup
  BY CountedKept DEF StartsHold
<1>2. SUFFICES ASSUME Told, KeysHold, MadeHold, ValuesHold, DestroyedHold
               PROVE  KeysHold' /\ MadeHold' /\ ValuesHold' /\ DestroyedHold'
  BY <1>1, ToldBefore DEF KeyInv
<1>3. CASE TlsKept /\ (MainStep \/ \E c \in Lcore : GreenStep(c))
  <2>1. PastStays
    BY <1>3, OthersAreQuiet
  <2>2. KeysHold' /\ MadeHold' /\ \A n \in Name : key[n] # Null => destructor[key[n]]
    BY <1>1, <1>2, <1>3, <2>1, FreeingKeepsKeys
  <2>3. ValuesHold'
    BY <1>1, <1>2, <1>3, <2>1, FreeingKeepsValues
  <2>4. DestroyedHold'
    BY <1>1, <1>2, <1>3, <2>1, <2>2, FreeingHandsOver
  <2> QED
    BY <2>2, <2>3, <2>4
<1>4. ASSUME NEW c \in Lcore, NEW t \in Thread, KeyStep(c, t)
      PROVE  KeysHold' /\ MadeHold' /\ ValuesHold' /\ DestroyedHold'
  BY <1>2, <1>4, KeyStepKeeps
<1>5. CASE UNCHANGED threadVars
  <2>1. PastStays
    BY <1>5, OthersAreQuiet
  <2>2. UNCHANGED <<setup, state, sc, pool, destructor, key, data, inuse, destroyed>>
    BY <1>5 DEF threadVars, allVars, vars, schedVars, tlsVars
  <2> QED
    BY <1>2, <2>1, <2>2, LookingKeeps
<1> QED
  BY <1>3, <1>4, <1>5 DEF TlsNext, TlsStep

LEMMA KeyInvInit ==
  ASSUME TlsInit
  PROVE  KeyInv
<1>1. /\ pool = [i \in 1 .. Cardinality(Key) |-> i] /\ destructor = [k \in Key |-> FALSE]
      /\ key = [n \in Name |-> Null]
      /\ data = [t \in Thread |-> [k \in Key |-> Null]] /\ inuse = [t \in Thread |-> 0]
      /\ destroyed = {} /\ ip = [t \in Thread |-> 1] /\ setup \in Setup
  BY DEF TlsInit, GreenInit, Init
<1>2. Key = 1 .. Cardinality(Key) /\ Cardinality(Key) \in Nat /\ Null \notin Key
  BY TlsAssumption, KeysAre
<1>3. pool \in Seq(Key) /\ Len(pool) = Cardinality(Key) /\ \A i \in 1 .. Len(pool) : pool[i] = i
  BY <1>1, <1>2
<1>4. KeysHold
  <2>1. Distinct(pool) /\ ~ Has(pool, Null)
    BY <1>2, <1>3 DEF Distinct, Has
  <2> QED
    BY <1>1, <1>3, <2>1 DEF KeysHold
<1>5. \A t \in Thread : \A i \in DOMAIN setup.prog[t] : ~ (i < ip[t]) /\ DOMAIN setup.prog[t] = 1 .. Len(setup.prog[t])
  BY <1>1, IndexIs, LthreadAssumption
<1>6. /\ \A n : ~ Made(n)
      /\ \A t \in Thread, n \in Name : Sets(t, n) = {}
  <2>1. \A n : ~ Made(n)
    BY <1>5 DEF Made
  <2>2. ASSUME NEW t \in Thread, NEW n \in Name, NEW i \in Sets(t, n) PROVE FALSE
    <3>1. DOMAIN setup.prog[t] = 1 .. Len(setup.prog[t])
      BY <1>1, LthreadAssumption
    <3>2. i \in DOMAIN setup.prog[t] /\ i < ip[t]
      BY <2>2, <3>1 DEF Sets
    <3> QED
      BY <1>5, <3>2
  <2> QED
    BY <2>1, <2>2
<1>7. MadeHold
  BY <1>1, <1>6 DEF MadeHold
<1>8. ValuesHold
  <2>1. \A t \in Thread : Used(t) = {}
    BY <1>1 DEF Used
  <2>2. \A t \in Thread : Cardinality(Used(t)) = 0
    BY <2>1, FS_EmptySet
  <2> QED
    BY <1>1, <2>1, <2>2 DEF ValuesHold
<1>9. DestroyedHold
  BY <1>1 DEF DestroyedHold
<1> QED
  BY <1>4, <1>7, <1>8, <1>9 DEF KeyInv

(* lthread_tls.c: _lthread_tls_destroy gives the destructor of each key    *)
(* exactly the value that the thread has set last, when the thread is      *)
(* freed and not before; no value is lost because the count of keys in use *)
(* is never too small, and no destructor because all schedulers have       *)
(* cleared the table before the first key. *)
THEOREM LastValuesAreDestroyed == TlsSpec => []ValuesAreDestroyed
<1> DEFINE I == PlacesInv /\ MarksHold /\ StartsHold /\ KeyInv
<1>1. TlsInit => I
  BY PlacesInit, MarksInit, StartsInit, KeyInvInit
<1>2. I /\ [TlsNext]_threadVars => I'
  BY PlacesStep, MarksStep, StartsStep, KeyInvStep
<1>3. I => ValuesAreDestroyed
  <2>1. SUFFICES ASSUME Told, DestroyedHold, NEW t \in Thread, NEW n \in Name, key[n] # Null
                 PROVE  {d.value : d \in {e \in destroyed : e.by = t /\ e.key = key[n]}} =
                          IF "FREED" \in state[t] THEN {LastSet(t, n)} \ {Null} ELSE {}
    BY DEF KeyInv, Told, ValuesAreDestroyed
  <2>2. CASE "FREED" \in state[t]
    BY <2>1, <2>2 DEF DestroyedHold, Given
  <2>3. CASE "FREED" \notin state[t]
    <3>1. \A e \in destroyed : e.by # t
      BY <2>1, <2>3 DEF DestroyedHold
    <3> QED
      BY <2>3, <3>1
  <2> QED
    BY <2>2, <2>3
<1> QED
  BY <1>1, <1>2, <1>3, PTL DEF TlsSpec
=============================================================================
