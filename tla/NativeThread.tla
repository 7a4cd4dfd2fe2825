---------------------------- MODULE NativeThread ----------------------------
(***************************************************************************)
(* Native threads of libsusanow (ssn_native_thread.cc): one run-to-        *)
(* completion function per logical core (lcore), started and awaited       *)
(* through the DPDK EAL.                                                   *)
(*                                                                         *)
(* The module holds the state of the thread layer and its operations as    *)
(* parameterised actions; the modules that call it (VnfDeploy) extend it   *)
(* and conjoin the caller's own state.  The function a native thread runs  *)
(* is always ssn_vnf_block's spawner, so a function-argument pair is       *)
(* represented by the argument alone, an element of Job.                   *)
(***************************************************************************)
EXTENDS Integers, FiniteSets

CONSTANTS
  Lcore,     \* lcore ids a thread may be launched on (the master is not one)
  Timer,     \* the lcore that runs the timer poll thread for ever
  Job,       \* what a worker can be told to run
  NoJob,     \* snt[l] before the first launch
  Ctl,       \* control threads: they launch and join
  Nobody,    \* mutex_thread_join is free
  MaxTids    \* bound: entries of "tids" for one lcore

ASSUME ThreadAssumption ==
  /\ Lcore \subseteq Nat \ {0}
  /\ Timer \in Lcore
  /\ NoJob \notin Job
  /\ Nobody \notin Ctl
  /\ MaxTids \in Nat \ {0}

VARIABLES
  eal,      \* EAL state of each lcore
  lstate,   \* ssn_lcore_state of each lcore (ssn_cpu.cc)
  tids,     \* how many entries of the vector "tids" name each lcore
  snt,      \* the argument stored in snt[l]
  wpc,      \* where the thread on each lcore is
  job,      \* the argument it read from snt[l]
  joiner    \* holder of mutex_thread_join

threadVars == <<eal, lstate, tids, snt, wpc, job, joiner>>

EalState    == {"WAIT", "RUNNING", "FINISHED"}
LcoreState  == {"WAIT", "RUNNING_NATIVE", "RUNNING_TIMER", "FINISHED"}
WorkerPc    == {"off", "spawn", "entry", "head", "poll", "ret"}

Worker == Lcore \ {Timer}

ThreadTypeOK ==
  /\ eal    \in [Lcore -> EalState]
  /\ lstate \in [Lcore -> LcoreState]
  /\ tids   \in [Lcore -> Nat]
  /\ snt    \in [Lcore -> Job \cup {NoJob}]
  /\ wpc    \in [Lcore -> WorkerPc]
  /\ job    \in [Lcore -> Job \cup {NoJob}]
  /\ joiner \in Ctl \cup {Nobody}

(* The NFVi constructor has launched the timer thread on its own lcore. *)
ThreadInit ==
  /\ eal    = [l \in Lcore |-> IF l = Timer THEN "RUNNING" ELSE "WAIT"]
  /\ lstate = [l \in Lcore |-> IF l = Timer THEN "RUNNING_TIMER" ELSE "WAIT"]
  /\ tids   = [l \in Lcore |-> IF l = Timer THEN 1 ELSE 0]
  /\ snt    = [l \in Lcore |-> NoJob]
  /\ wpc    = [l \in Lcore |-> "off"]
  /\ job    = [l \in Lcore |-> NoJob]
  /\ joiner = Nobody

-----------------------------------------------------------------------------
(* ssn_native_thread_launch.  The tid is recorded and snt[l] is written    *)
(* before rte_eal_remote_launch is tried, in both outcomes.                *)

RecordLaunch(l, j) ==
  /\ tids' = [tids EXCEPT ![l] = @ + 1]
  /\ snt'  = [snt EXCEPT ![l] = j]

(* The EAL hands the launcher to an idle lcore: it is RUNNING when         *)
(* rte_eal_remote_launch returns.                                          *)
LaunchStarts(l, j) ==
  /\ eal[l] = "WAIT"
  /\ RecordLaunch(l, j)
  /\ eal' = [eal EXCEPT ![l] = "RUNNING"]
  /\ wpc' = [wpc EXCEPT ![l] = "spawn"]
  /\ UNCHANGED <<lstate, job, joiner>>

(* -EBUSY, which the dpdk:: wrapper turns into an exception.  The entry    *)
(* pushed for the refused launch stays, one more each time: MaxTids.       *)
LaunchRefused(l, j) ==
  /\ eal[l] # "WAIT"
  /\ tids[l] < MaxTids
  /\ RecordLaunch(l, j)
  /\ UNCHANGED <<eal, lstate, wpc, job, joiner>>

(* _fthread_launcher on the lcore: set the state, read snt[l], call. *)
ThreadCalls(l) ==
  /\ wpc[l] = "spawn"
  /\ lstate' = [lstate EXCEPT ![l] = "RUNNING_NATIVE"]
  /\ job' = [job EXCEPT ![l] = snt[l]]
  /\ wpc' = [wpc EXCEPT ![l] = "entry"]
  /\ UNCHANGED <<eal, tids, snt, joiner>>

MutThreadReturns(l) ==
  /\ wpc[l] = "ret"
  /\ eal' = [eal EXCEPT ![l] = "FINISHED"]
  /\ wpc' = [wpc EXCEPT ![l] = "off"]
  /\ job' = [job EXCEPT ![l] = NoJob]
  /\ UNCHANGED <<lstate, tids, snt, joiner>>

(* The function has returned; the EAL loop marks the lcore FINISHED. *)
ThreadReturns(l) ==
  /\ wpc[l] = "ret"
  /\ lstate' = [lstate EXCEPT ![l] = "FINISHED"]
  /\ eal' = [eal EXCEPT ![l] = "FINISHED"]
  /\ wpc' = [wpc EXCEPT ![l] = "off"]
  /\ job' = [job EXCEPT ![l] = NoJob]
  /\ UNCHANGED <<tids, snt, joiner>>

(* ssn_native_thread_join: the mutex is taken first and is held while      *)
(* rte_eal_wait_lcore spins.                                               *)
JoinLocks(c) ==
  /\ joiner = Nobody
  /\ joiner' = c
  /\ UNCHANGED <<eal, lstate, tids, snt, wpc, job>>

MutJoinWaits(c, l) ==
  /\ joiner = c
  /\ eal[l] # "RUNNING"
  /\ UNCHANGED threadVars

JoinWaits(c, l) ==
  /\ joiner = c
  /\ eal[l] # "RUNNING"
  /\ eal' = [eal EXCEPT ![l] = "WAIT"]
  /\ UNCHANGED <<lstate, tids, snt, wpc, job, joiner>>

JoinErases(c, l) ==
  /\ joiner = c
  /\ tids[l] > 0
  /\ tids' = [tids EXCEPT ![l] = @ - 1]
  /\ lstate' = [lstate EXCEPT ![l] = "WAIT"]
  /\ joiner' = Nobody
  /\ UNCHANGED <<eal, snt, wpc, job>>

(* No entry names the lcore: "invalid  thread-id" is thrown and unwinding  *)
(* releases the mutex.                                                     *)
JoinThrows(c, l) ==
  /\ joiner = c
  /\ tids[l] = 0
  /\ joiner' = Nobody
  /\ UNCHANGED <<eal, lstate, tids, snt, wpc, job>>

-----------------------------------------------------------------------------
(* An lcore that claims to run a native thread is RUNNING for the EAL. *)
NativeStateIsReal ==
  \A l \in Lcore : lstate[l] = "RUNNING_NATIVE" => eal[l] = "RUNNING"
=============================================================================
