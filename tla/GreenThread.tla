---------------------------- MODULE GreenThread -----------------------------
(***************************************************************************)
(* Green threads (ssn_green_thread.cc): the master lcore registers an      *)
(* lcore, on which a native thread then runs liblthread's scheduler with a *)
(* dummy thread that never ends, and launches and joins functions there by *)
(* lthread_create and a flag of its own.  Functions sleep and yield by     *)
(* ssn_cpu.cc, which asks for the state of the lcore.                      *)
(*                                                                         *)
(* A setup has one more field, main: the calls that the program makes on   *)
(* lcore 0, none in a setup that is about lthreads alone.  The threads     *)
(* vector holds the numbers of lthreads instead of ssn_green_threads, and  *)
(* is only used by the master lcore, so its mutex is left out.             *)
(***************************************************************************)
EXTENDS Lthread

Master == 0

RegisteredAt(s, i, c) ==
  \E j \in 1 .. i - 1 :
    /\ s.main[j][1] = "register" /\ s.main[j][2] = c
    /\ \A k \in j .. i - 1 : s.main[k][1] = "unregister" => s.main[k][2] # c

(* The master lcore registers others; threads are launched and lcores      *)
(* unregistered where they are registered, and threads that were launched  *)
(* are joined.  A struct is taken once, by nobody else.  The number of     *)
(* schedulers stays 1. *)
WellUsed(s) ==
  /\ s.num = 1 /\ Master \in Lcore
  /\ Len(s.main) \in Nat /\ DOMAIN s.main = 1 .. Len(s.main)
  /\ \A i \in DOMAIN s.main :
       /\ s.main[i][1] = "register" => s.main[i][2] \in Lcore \ {Master}
       /\ s.main[i][1] = "launch" => s.main[i][2] \in Thread /\ RegisteredAt(s, i, s.main[i][3])
       /\ s.main[i][1] = "unregister" => RegisteredAt(s, i, s.main[i][2])
       /\ s.main[i][1] = "join" =>
            \E j \in 1 .. i - 1 : s.main[j][1] = "launch" /\ s.main[j][2] = s.main[i][2]
  /\ \A i \in DOMAIN s.main : s.main[i][1] = "launch" =>
       /\ \A j \in DOMAIN s.main : s.main[j][1] = "launch" /\ s.main[j][2] = s.main[i][2] => i = j
       /\ \A c \in Lcore : \A j \in DOMAIN s.root[c] : s.root[c][j] # s.main[i][2]
       /\ \A t \in Thread : \A j \in DOMAIN s.prog[t] : Taken(s.prog[t][j]) # s.main[i][2]
       /\ \A j \in DOMAIN s.prog[s.main[i][2]] : s.prog[s.main[i][2]][j][1] # "_cancel"

ASSUME GreenAssumption == \A s \in Setup : s.main = <<>> \/ WellUsed(s)

VARIABLES
  mip, mpc,   \* the call main is in, and where it is in that
  lstate,     \* ssn_lcore_state of each lcore
  remote,     \* how far the native thread of each lcore is
  threads,    \* threads
  dead,       \* those whose function has returned
  dummy       \* _green_thread_dummy_running

greenVars == <<mip, mpc, lstate, remote, threads, dead, dummy>>
lthreadVars == vars
allVars == <<vars, greenVars>>

Green == setup.main # <<>>
Call == IF mip > Len(setup.main) THEN <<"return">> ELSE setup.main[mip]

GreenInit ==
  /\ Init
  /\ mip = 1 /\ mpc = "call"
  /\ lstate = [c \in Lcore |-> "WAIT"] /\ remote = [c \in Lcore |-> "WAIT"]
  /\ threads = <<>> /\ dead = {} /\ dummy = [c \in Lcore |-> FALSE]

-----------------------------------------------------------------------------
(* The program on the master lcore.                                        *)

Main(f) == mishap = "none" /\ link[Master] = Nowhere /\ mpc = "call" /\ Call[1] = f
MainAt(place) == mishap = "none" /\ link[Master] = Nowhere /\ mpc = place
Done == mip' = mip + 1 /\ mpc' = "call"
Here(place) == mpc' = place /\ UNCHANGED mip
Unscheduled == UNCHANGED <<setup, cur, next, cb, nb, flagVars, sched, pend, joinVars, timer, ip, pc,
                           susp, un, mutexVars>>

(* An exception that nobody catches. *)
Throw == mishap' = "exception" /\ UNCHANGED <<mip, mpc>>

(* ssn_green_thread_sched_register: the lcore is busy from here on. *)
Register ==
  /\ Main("register") /\ remote[Call[2]] = "WAIT"
  /\ remote' = [remote EXCEPT ![Call[2]] = "launched"]
  /\ Here("registered")
  /\ UNCHANGED <<lthreadVars, lstate, threads, dead, dummy>>

Registered ==
  /\ MainAt("registered")
  /\ lstate' = [lstate EXCEPT ![Call[2]] = "GREEN"]
  /\ Done
  /\ UNCHANGED <<lthreadVars, remote, threads, dead, dummy>>

(* ssn_thread_launch: on an lcore that is not a green thread's, a native   *)
(* launch, which throws when the lcore is busy.                            *)
LaunchRefused ==
  /\ Main("launch") /\ lstate[Call[3]] # "GREEN" /\ remote[Call[3]] # "WAIT"
  /\ Throw
  /\ UNCHANGED <<queue, link, sc, state, lstate, remote, threads, dead, dummy>> /\ Unscheduled

(* ssn_green_thread's constructor.  lthread_create makes a scheduler for   *)
(* the master lcore too, which never runs.                                 *)
Launch ==
  /\ Main("launch") /\ lstate[Call[3]] = "GREEN"
  /\ sc' = [sc EXCEPT ![Master] = "made"]
  /\ NewThread(Master, Call[2], Call[3])
  /\ threads' = Append(threads, Call[2])
  /\ Done
  /\ UNCHANGED <<lstate, remote, dead, dummy>> /\ Unscheduled

(* ssn_green_thread_join asks ssn_green_thread_joinable again and again,   *)
(* and erases the thread from the vector. *)
Join ==
  /\ Main("join") /\ Call[2] \in dead
  /\ \E i \in 1 .. Len(threads) :
       /\ threads[i] = Call[2]
       /\ threads' = [j \in 1 .. Len(threads) - 1 |-> threads[IF j < i THEN j ELSE j + 1]]
  /\ Done
  /\ UNCHANGED <<lthreadVars, lstate, remote, dead, dummy>>

(* A thread that was joined is not found. *)
JoinMisses ==
  /\ Main("join") /\ \A i \in 1 .. Len(threads) : threads[i] # Call[2]
  /\ Throw
  /\ UNCHANGED <<queue, link, sc, state, lstate, remote, threads, dead, dummy>> /\ Unscheduled

(* ssn_green_thread_sched_unregister.  Nothing reads the flag that         *)
(* lthread_scheduler_force_shutdown sets.                                  *)
Unregister ==
  /\ Main("unregister") /\ lstate[Call[2]] = "GREEN"
  /\ dummy' = [dummy EXCEPT ![Call[2]] = FALSE]
  /\ Here("unregistered")
  /\ UNCHANGED <<lthreadVars, lstate, remote, threads, dead>>

UnregisterRefused ==
  /\ Main("unregister") /\ lstate[Call[2]] # "GREEN"
  /\ Throw
  /\ UNCHANGED <<queue, link, sc, state, lstate, remote, threads, dead, dummy>> /\ Unscheduled

Unregistered ==
  /\ MainAt("unregistered")
  /\ lstate' = [lstate EXCEPT ![Call[2]] = "FINISHED"]
  /\ Done
  /\ UNCHANGED <<lthreadVars, remote, threads, dead, dummy>>

MainStep ==
  \/ Register \/ Registered \/ LaunchRefused \/ Launch \/ Join \/ JoinMisses
  \/ Unregister \/ UnregisterRefused \/ Unregistered

-----------------------------------------------------------------------------
(* The registered lcore.                                                   *)

(* _fthread_launcher, which then calls _green_thread_master. *)
Launcher(c) ==
  /\ mishap = "none" /\ remote[c] = "launched"
  /\ lstate' = [lstate EXCEPT ![c] = "NATIVE"]
  /\ remote' = [remote EXCEPT ![c] = "master"]
  /\ UNCHANGED <<lthreadVars, mip, mpc, threads, dead, dummy>>

(* ssn_sleep and ssn_yield of the thread t that then goes on at a place.   *)
(* Without lthread_sleep the lcore itself sleeps.                          *)
SsnSleep(c, t) ==
  IF lstate[c] = "GREEN"
  THEN /\ timer' = [timer EXCEPT ![t] = c]
       /\ state' = [state EXCEPT ![t] = @ \cup {"SLEEPING"}]
       /\ Suspend(c, t)
  ELSE Stay /\ UNCHANGED <<timer, state>>

SsnYield(c, t) ==
  IF lstate[c] = "GREEN" THEN ReadyInsert(c, c, t) /\ Switch(c)
  ELSE Stay /\ UNCHANGED <<queue, link>>

Untouched == UNCHANGED <<flagVars, sched, pend, joinVars, un, mutexVars, mishap>>
SleepStep(c, t) == SsnSleep(c, t) /\ Same /\ Untouched /\ UNCHANGED <<queue, link>>
YieldStep(c, t) == SsnYield(c, t) /\ Same /\ Untouched /\ UNCHANGED <<timer, state>>
NoStep == Stay /\ Same /\ Untouched /\ UNCHANGED <<queue, link, timer, state>>

Sleeps(c, t) == Calls(c, t, "ssn_sleep") /\ SleepStep(c, t) /\ Advance(t) /\ UNCHANGED greenVars
Yields(c, t) == Calls(c, t, "ssn_yield") /\ YieldStep(c, t) /\ Advance(t) /\ UNCHANGED greenVars

MutSpawned(c, t) ==
  /\ Calls(c, t, "dead") /\ NoStep /\ Advance(t)
  /\ UNCHANGED greenVars

(* _ssn_thread_spawner, after the function has returned *)
Spawned(c, t) ==
  /\ Calls(c, t, "dead") /\ NoStep /\ Advance(t)
  /\ dead' = dead \cup {t}
  /\ UNCHANGED <<mip, mpc, lstate, remote, threads, dummy>>

(* _green_thread_dummy *)
DummyStarts(c, t) ==
  /\ Calls(c, t, "dummy") /\ NoStep /\ Goto(t, "dummy")
  /\ dummy' = [dummy EXCEPT ![c] = TRUE]
  /\ UNCHANGED <<mip, mpc, lstate, remote, threads, dead>>
DummySleeps(c, t) ==
  At(c, t, "dummy") /\ dummy[c] /\ SleepStep(c, t) /\ Goto(t, "slept") /\ UNCHANGED greenVars
DummyYields(c, t) ==
  At(c, t, "slept") /\ YieldStep(c, t) /\ Goto(t, "dummy") /\ UNCHANGED greenVars
DummyEnds(c, t) ==
  At(c, t, "dummy") /\ ~dummy[c] /\ NoStep /\ Advance(t) /\ UNCHANGED greenVars

GreenThreadStep(c, t) ==
  \/ Sleeps(c, t) \/ Yields(c, t) \/ Spawned(c, t)
  \/ DummyStarts(c, t) \/ DummySleeps(c, t) \/ DummyYields(c, t) \/ DummyEnds(c, t)

(* The scheduler starts when _green_thread_master does. *)
MayStart(c) == Green /\ sc[c] = "off" /\ link[c] = Nowhere => remote[c] = "master"

GreenStep(c) ==
  \/ Launcher(c)
  \/ MayStart(c) /\ LcoreStep(c) /\ UNCHANGED greenVars
  \/ Idle(c) /\ \E t \in Thread : GreenThreadStep(c, t)

GreenNext == MainStep \/ \E c \in Lcore : GreenStep(c)

-----------------------------------------------------------------------------
(* Properties.                                                             *)

AtEnd(t) == ip[t] > Len(setup.prog[t])

(* A green thread that was launched can be joined, however its start, its  *)
(* sleeps and the dummy's fall together: its flag is set some day, or      *)
(* something was wrong with the launch, and not before it is at its end.   *)
GreenJoinsReturn ==
  /\ Call[1] = "join" ~> Call[1] # "join" \/ mishap # "none"
  /\ \A t \in Thread : [](t \in dead => AtEnd(t))

JoinsTwice ==
  \E i, j \in 1 .. Len(setup.main) :
    /\ i < j /\ setup.main[i][1] = "join"
    /\ setup.main[j][1] = "join" /\ setup.main[i][2] = setup.main[j][2]

(* With the mishaps of lthreads: a program that launches and unregisters   *)
(* where it has registered, and joins each thread once, is ended by an     *)
(* exception only when the lcore's own NATIVE came after the GREEN of its  *)
(* registration; a launch can also be too early for the scheduler.         *)
GreenMishapsHaveCauses ==
  /\ MishapsHaveCauses
  /\ mishap = "exception" => JoinsTwice \/ \E c \in Lcore : lstate[c] = "NATIVE"
=============================================================================
