---------------------------- MODULE VnfDeployInv ----------------------------
(***************************************************************************)
(* The inductive invariant behind the safety of VnfDeploy for a client     *)
(* that follows the documented procedure (Procedure) and lets threads      *)
(* start before its next request (Client = "settled").  Every block of a   *)
(* VNF nobody works on is down or started; the control thread that works   *)
(* on one takes its blocks from one state to the other in ascending order. *)
(***************************************************************************)
EXTENDS VnfDeploy

(* What block a control thread works on, where it works on one. *)
Places ==
  \A c \in Ctl :
    /\ cpc[c] \in {"mask", "launch", "stop", "join", "wait", "erase"} => Here(c) \in Block
    /\ cpc[c] \in {"wait", "erase"} => todo[c] # {}

(* What a worker runs, where it runs something. *)
Jobs ==
  \A l \in Lcore :
    /\ wpc[l] = "spawn" => snt[l] \in Block
    /\ wpc[l] \in {"entry", "head", "poll"} => job[l] \in Block

TypeInv == TypeOK /\ Places /\ Jobs

-----------------------------------------------------------------------------
(* Every block has lcores of its own, and keeps out of the others' when it *)
(* is about to get new ones.                                               *)
Disjoint ==
  /\ \A b \in Block : Vcores(b) \subseteq Worker
  /\ \A b, o \in Block : b # o => Vcores(b) \cap Vcores(o) = {}
  /\ cpc["rest"] = "mask" =>
       /\ cmask # {} /\ cmask \subseteq Worker
       /\ \A o \in Block \ {Here("rest")} : cmask \cap Vcores(o) = {}

(* A worker lcore that is not waiting belongs to the block it was launched *)
(* for, which remembers its tid, and so does the thread table.             *)
Owned(l) ==
  /\ eal[l] # "WAIT" =>
       /\ snt[l] \in Block /\ l \in Vcores(snt[l]) /\ l \in btids[snt[l]]
       /\ tids[l] > 0
  /\ wpc[l] = "off" <=> eal[l] # "RUNNING"
  /\ job[l] = IF wpc[l] \in {"off", "spawn"} THEN NoJob ELSE snt[l]

Numbered(l) ==
  wpc[l] \in {"head", "poll"} => vid[l] = VcoreId(job[l], l)

(* The states of a block. *)
Down(b) == ~running[b] /\ \A l \in Vcores(b) : eal[l] = "WAIT"

Live(l, b) ==
  /\ wpc[l] \in {"spawn", "entry", "head", "poll"}
  /\ wpc[l] \in {"head", "poll"} => running[b]

Launching(c, b) ==
  /\ Vcores(b) # {} /\ todo[c] \subseteq Vcores(b)
  /\ \A l \in todo[c] : eal[l] = "WAIT"
  /\ \A l \in Vcores(b) \ todo[c] : Live(l, b)

Started(b) == Vcores(b) # {} /\ \A l \in Vcores(b) : Live(l, b)

Polling(b) ==
  /\ running[b] /\ Vcores(b) # {}
  /\ \A l \in Vcores(b) : wpc[l] \in {"head", "poll"}

Stopping(c, b) ==
  /\ ~running[b] /\ todo[c] \subseteq Vcores(b) \cap btids[b]
  /\ \A l \in Vcores(b) \ todo[c] : eal[l] = "WAIT"
  /\ \A l \in todo[c] : wpc[l] \notin {"spawn", "entry"}

(* The blocks of the VNF a control thread works on. *)
Progress(c, b) ==
  /\ cpc[c] \in {"reset", "mask", "config"} => Down(b)
  /\ cpc[c] \in {"reset", "mask"} => told[cvnf[c]] # "up"
  /\ cpc[c] = "config" => Vcores(b) # {}
  /\ cpc[c] = "launch" =>
       /\ b[2] < cblk[c] => Started(b)
       /\ b[2] = cblk[c] => Launching(c, b)
       /\ b[2] > cblk[c] => Down(b) /\ Vcores(b) # {}
  /\ cpc[c] \in {"undeploy", "stop", "join", "wait", "erase"} =>
       /\ b[2] < cblk[c] => Down(b)
       /\ b[2] > cblk[c] => Polling(b)
  /\ cpc[c] \in {"undeploy", "stop"} /\ b[2] = cblk[c] => Polling(b)
  /\ cpc[c] \in {"join", "wait", "erase"} /\ b[2] = cblk[c] => Stopping(c, b)

(* The lcores still to join are not waiting, except the one that has been  *)
(* awaited and whose entry is about to be erased.                          *)
Joining(c) ==
  cpc[c] \in {"join", "wait", "erase"} =>
    \A l \in todo[c] :
      IF cpc[c] = "erase" /\ l = Min(todo[c])
      THEN eal[l] = "WAIT" /\ tids[l] > 0
      ELSE eal[l] # "WAIT"

(* The main thread waits until no request is taken any more. *)
OneAtATime ==
  /\ up  => cpc["main"] = "idle"
  /\ ~up => cpc["rest"] = "idle" /\ Settled
  /\ \A c \in Ctl : cop[c] = "none" <=> cpc[c] = "idle"
  /\ \A c \in Ctl : cpc[c] \in {"undeploy", "stop", "join", "wait", "erase"} => cop[c] = "undeploy"
  /\ cpc["main"] \notin {"reset", "mask", "config", "launch"}

AtWork(v) == \E c \in Ctl : cpc[c] # "idle" /\ cvnf[c] = v

(* A VNF nobody works on. *)
AtRest(v) ==
  ~AtWork(v) =>
    /\ \/ \A b \in BlocksOf(v) : Started(b)
       \/ \A b \in BlocksOf(v) : Down(b)
    /\ up => IF told[v] = "up" THEN \A b \in BlocksOf(v) : Started(b)
                               ELSE \A b \in BlocksOf(v) : Down(b)

Discipline ==
  /\ Disjoint
  /\ \A l \in Worker : Owned(l)
  /\ OneAtATime
  /\ \A c \in Ctl : cpc[c] # "idle" => \A b \in BlocksOf(cvnf[c]) : Progress(c, b)
  /\ \A c \in Ctl : Joining(c)
  /\ \A v \in Vnf : AtRest(v)
  /\ \A l \in Worker : Numbered(l)
  /\ ~crashed
=============================================================================
