---------------------------- MODULE ThreadLocal -----------------------------
(***************************************************************************)
(* lthread_tls.c: keys from one pool, a table of their destructors, and    *)
(* each lthread's values.  An lthread's values go to the destructors of    *)
(* their keys when its scheduler frees it.  Programs name their keys; more *)
(* operations of theirs are "key_create" and "key_delete" of a name, "set" *)
(* of a name and a value (Null is one) and "get" of a name.  Destructors   *)
(* do not use keys themselves, so one round of them is all.                *)
(***************************************************************************)
EXTENDS GreenThread

CONSTANTS Key, Name   \* 1 .. LTHREAD_MAX_KEYS - 1; what programs call keys

ASSUME TlsAssumption ==
  /\ IsFiniteSet(Key) /\ Key = 1 .. Cardinality(Key)
  /\ \A s \in Setup, t \in Thread : \A i \in DOMAIN s.prog[t] :
       s.prog[t][i][1] \in {"key_create", "key_delete", "set", "get"} => s.prog[t][i][2] \in Name

VARIABLES
  pool, destructor,   \* key_pool, key_table: whether a key has a destructor
  key,                \* the key of each name, Null before its creation
  data, inuse,        \* tls->data and tls->nb_keys_inuse of each thread
  destroyed,          \* what destructors were given: [by, key, value]
  seen                \* what each thread's last "get" returned

tlsVars == <<pool, destructor, key, data, inuse, destroyed, seen>>
threadVars == <<allVars, tlsVars>>

TlsInit ==
  /\ GreenInit
  /\ pool = [i \in 1 .. Cardinality(Key) |-> i] /\ destructor = [k \in Key |-> FALSE]
  /\ key = [n \in Name |-> Null]
  /\ data = [t \in Thread |-> [k \in Key |-> Null]] /\ inuse = [t \in Thread |-> 0]
  /\ destroyed = {} /\ seen = [t \in Thread |-> Null]

(* _lthread_tls_destroy goes through the keys until none is in use. *)
Used(t) == {k \in Key : data[t][k] # Null}
Destroyed(t) == {k \in Used(t) : Cardinality({j \in Used(t) : j < k}) < inuse[t]}

(* _lthread_key_pool_init, which every new scheduler calls, clears the     *)
(* table each time.                                                        *)
NewScheduler == \E c \in Lcore : sc[c] = "off" /\ sc'[c] # "off"

(* What the other steps of lthreads do to keys and values. *)
TlsKept ==
  LET freed == {t \in Thread : "FREED" \in state'[t] /\ "FREED" \notin state[t]}
  IN /\ destructor' = IF NewScheduler THEN [k \in Key |-> FALSE] ELSE destructor
     /\ data' = [t \in Thread |->
                   IF t \in freed THEN [k \in Key |-> IF k \in Destroyed(t) THEN Null ELSE data[t][k]]
                   ELSE data[t]]
     /\ inuse' = [t \in Thread |-> IF t \in freed THEN inuse[t] - Cardinality(Destroyed(t)) ELSE inuse[t]]
     /\ destroyed' = destroyed \cup
          UNION {{[by |-> t, key |-> k, value |-> data[t][k]] : k \in {j \in Destroyed(t) : destructor[j]}} : t \in freed}
     /\ UNCHANGED <<pool, key, seen>>

-----------------------------------------------------------------------------
KeyOp(c, t, f) == Calls(c, t, f) /\ NoStep /\ Advance(t) /\ UNCHANGED greenVars

KeyCreate(c, t) ==
  /\ KeyOp(c, t, "key_create")
  /\ IF pool = <<>> THEN UNCHANGED <<pool, destructor, key>>
     ELSE /\ pool' = Tail(pool)
          /\ destructor' = [destructor EXCEPT ![Head(pool)] = TRUE]
          /\ key' = [key EXCEPT ![Op(t)[2]] = Head(pool)]
  /\ UNCHANGED <<data, inuse, destroyed, seen>>

(* Programs use the key of a name they have created. *)
KeyOf(t) == key[Op(t)[2]]

KeyDelete(c, t) ==
  /\ KeyOp(c, t, "key_delete")
  /\ IF KeyOf(t) = Null THEN UNCHANGED <<pool, destructor, key>>
     ELSE /\ destructor' = [destructor EXCEPT ![KeyOf(t)] = FALSE]
          /\ pool' = Append(pool, KeyOf(t))
          /\ key' = [key EXCEPT ![Op(t)[2]] = Null]
  /\ UNCHANGED <<data, inuse, destroyed, seen>>

MutSetSpecific(c, t) ==
  /\ KeyOp(c, t, "set")
  /\ IF KeyOf(t) = Null THEN UNCHANGED <<data, inuse>>
     ELSE /\ data' = [data EXCEPT ![t][KeyOf(t)] = Op(t)[3]]
          /\ inuse' = IF Op(t)[3] = Null THEN [inuse EXCEPT ![t] = @ - 1]
                      ELSE IF data[t][KeyOf(t)] = Null THEN [inuse EXCEPT ![t] = @ + 1] ELSE inuse
  /\ UNCHANGED <<pool, destructor, key, destroyed, seen>>

(* lthread_setspecific: a key is in use from its first value on; Null does *)
(* not count it out, and the next value counts it in again.                *)
SetSpecific(c, t) ==
  /\ KeyOp(c, t, "set")
  /\ IF KeyOf(t) = Null THEN UNCHANGED <<data, inuse>>
     ELSE /\ data' = [data EXCEPT ![t][KeyOf(t)] = Op(t)[3]]
          /\ inuse' = IF Op(t)[3] # Null /\ data[t][KeyOf(t)] = Null THEN [inuse EXCEPT ![t] = @ + 1] ELSE inuse
  /\ UNCHANGED <<pool, destructor, key, destroyed, seen>>

GetSpecific(c, t) ==
  /\ KeyOp(c, t, "get")
  /\ seen' = [seen EXCEPT ![t] = IF KeyOf(t) = Null THEN Null ELSE data[t][KeyOf(t)]]
  /\ UNCHANGED <<pool, destructor, key, data, inuse, destroyed>>

KeyStep(c, t) == KeyCreate(c, t) \/ KeyDelete(c, t) \/ SetSpecific(c, t) \/ GetSpecific(c, t)

TlsStep(c) ==
  \/ GreenStep(c) /\ TlsKept
  \/ Idle(c) /\ \E t \in Thread : KeyStep(c, t)

TlsNext == (MainStep /\ TlsKept) \/ \E c \in Lcore : TlsStep(c)

(* As in GreenThread. *)
TlsSpec ==
  /\ TlsInit /\ [][TlsNext]_threadVars
  /\ WF_threadVars(MainStep /\ TlsKept)
  /\ \A c \in Lcore : WF_threadVars(TlsStep(c))
  /\ \A c \in Lcore, t \in Thread :
        SF_threadVars(Idle(c) /\ TimerExpires(c, t) /\ UNCHANGED greenVars /\ TlsKept)

-----------------------------------------------------------------------------
(* Properties.                                                             *)

(* What a thread's program has set under a name so far, last.              *)
Sets(t, n) == {i \in 1 .. Len(setup.prog[t]) : setup.prog[t][i][1] = "set" /\ setup.prog[t][i][2] = n /\ i < ip[t]}
LastSet(t, n) ==
  LET s == Sets(t, n) IN IF s = {} THEN Null ELSE setup.prog[t][CHOOSE i \in s : \A j \in s : j <= i][3]
(* A program uses the keys that it has created, or that who created the    *)
(* thread had created before: operation j of u makes the key that          *)
(* operation i of t uses. *)
KeyFrom(t, i, u, j) ==
  /\ setup.prog[u][j][1] = "key_create" /\ setup.prog[u][j][2] = setup.prog[t][i][2]
  /\ \/ u = t /\ j < i
     \/ \E k \in DOMAIN setup.prog[u] : j < k /\ Taken(setup.prog[u][k]) = t
KeysKnown ==
  \A t \in Thread : \A i \in DOMAIN setup.prog[t] : setup.prog[t][i][1] \in {"key_delete", "set", "get"} =>
    \E u \in Thread : \E j \in DOMAIN setup.prog[u] : KeyFrom(t, i, u, j)

KeysStay ==
  /\ \A t \in Thread : \A i \in 1 .. Len(setup.prog[t]) : setup.prog[t][i][1] # "key_delete"
  /\ \A t, u \in Thread : \A i \in 1 .. Len(setup.prog[t]), j \in 1 .. Len(setup.prog[u]) :
       /\ setup.prog[t][i][1] = "key_create" /\ setup.prog[u][j][1] = "key_create"
       /\ setup.prog[t][i][2] = setup.prog[u][j][2]
       => t = u /\ i = j
InStep == setup.num = Cardinality(Lcore)

(* A thread that is freed leaves to the destructor of each key exactly the *)
(* value it has set last: on whatever lcore it is freed, whoever made the  *)
(* key, and however often it was cleared and set.  Until then nothing of   *)
(* it is destroyed.  This is if keys are used by who can know them, no key *)
(* is deleted or made for the same name again, and all schedulers start    *)
(* together: one that starts later makes the destructors forgotten.        *)
ValuesAreDestroyed ==
  mishap = "none" /\ InStep /\ KeysStay /\ KeysKnown => \A t \in Thread, n \in Name :
    key[n] # Null =>
      {d.value : d \in {e \in destroyed : e.by = t /\ e.key = key[n]}} =
        IF "FREED" \in state[t] THEN {LastSet(t, n)} \ {Null} ELSE {}
=============================================================================
