# A TLA+ model of susanow

susanow is an NFV infrastructure in one process: a set of virtual network
functions (VNFs) that run to completion on logical cores of their own, on DPDK,
controlled over a REST API. This directory holds TLA+ modules of its control
plane, its data plane, its thread layers and the HTTP server it is reached
through, the instances TLC checks, and theorems checked by TLAPS. Paths below are
relative to the repository's `src` unless they begin with a module's name.

## 1. The system

### Threads

| thread | code | what it does |
| --- | --- | --- |
| main | `ssn_nfvi::run` (nfvi/ssn_nfvi.cc:97) | starts the REST thread, sleeps until `stop()`, then undeploys what runs and joins the REST thread |
| REST | `rest_api_thread` (nfvi/ssn_rest_api.cc) | builds the Crow application, accepts connections, waits for the worker |
| HTTP worker | `crow::Server` (lib/crow/include/crow/http_server.h) | one thread: reads, parses and answers; handlers run one at a time on it, an exception in one becomes a 500. "The REST thread" below, where it is handlers that matter |
| timer, lcore 1 | `ssn_timer_sched_poll_thread`, `_timercallback` (nfvi/ssn_nfvi.h:79) | once a second walks over VNFs and ports and updates statistics |
| worker lcores | `ssn_vnf_block::deploy_impl` of the VNF programs | poll, process, send, until the block's `running` is false |
| L-thread schedulers | `lthread_run` (lib/liblthread_dpdk/lthread_sched.c) | cooperative threads on one lcore each; used by the library's green threads, not by the NFVi's VNFs |
| client process | a program that attaches to a pipe (`ports/dpdk_pipe.h`) | the other end of a `rte_eth_pipe` device, in shared memory |

None of the NFVi's own objects is protected by a lock, except that launches
exclude each other and joins exclude each other (two mutexes in
`ssn_native_thread.cc`).

### Components

| component | state | operations | hard because | correct means |
| --- | --- | --- | --- | --- |
| native threads (`ssn_native_thread.cc`, `ssn_cpu.cc`) | EAL state and libsusanow state of each lcore, the table `tids`, the slot `snt[lcore]` | launch, run, join | the slot and the table are written before the launch is known to succeed; join holds its mutex while it waits | a running thread can be joined; reported states agree with the EAL's |
| deploying VNFs (`ssn_vnf.cc`, `ssn_vnf_block.h`, REST handlers) | `running`, `coremask`, `vcores`, `tids` of each block | reset, coremask, deploy, undeploy, shutdown | `running` is set by the worker and cleared by the controller; deploy can fail half-way; checks precede writes without a lock | no configuration under a running worker; every lcore is used once and given back; replies are true; requests are answered |
| VNF configuration (`ssn_vnf.cc`, `ssn_vnf_port.cc`, `*_block::set_coremask_impl`) | attachments, accesses requested from each port, access ids held by vcores | attach, detach, reset, coremask | ids and counters live in different objects and are reset by different operations | every access id is one the port has; queues are shared out without loss |
| multi-access ports and rings (`ssn_ma_port.cc`, `ssn_ma_ring.h`) | accessors and their queues, a round-robin index each, counters | configure, burst, statistics | burst does not check its index; configuring divides by the number of accessors; several lcores add to one counter | accessors' queues partition the queues; flows keep their order; figures are exact |
| virtual ports, patch panels (`ports/virt.h`, `virt.cc`) | two rings per panel, `tx`/`rx` pointers of the two ports | create, delete, burst | the pointers are null without a panel | a polled port has its rings |
| NFVi registry (`ssn_nfvi.cc`) | vectors of VNFs, ports and panels, the catalog | create, find, delete, run, stop, destroy | objects point to each other; the timer walks the vectors | no dangling pointer is followed |
| timer (`ssn_nfvi.h`, `ssn_timer.cc`) | position in the walk | once a second | runs beside every deletion | as above |
| shared tables of l3fwd and acl (`vnfs/l3fwd.h`, `acl.h`, `acl.cc`) | LPM tables and an ACL context, found by name | made by constructors | instances share them unknowingly | a table in use is neither rebuilt nor freed |
| VNF programs (`nfvi/vnfs/`) | a burst of packet buffers in hand | `deploy_impl` | each buffer has to be sent or freed exactly once | a buffer has one owner and comes back |
| port statistics (`ssn_port_stat.cc`) | counters and per-second differences | update | counters wrap and are read while they count | figures add up |
| `rte_eth_pipe` PMD | named ring pairs as an Ethernet device, counters at each end | create, attach, rx, tx, stats | two processes; attaching while the rings are made; death of one of them | packets are neither lost, doubled nor reordered |
| green threads (`ssn_green_thread.cc`) | scheduler lcores, a flag per thread | register, launch, join, unregister | flags and states written on both sides | a launched thread is joined |
| liblthread (`lib/liblthread_dpdk`) | queues of threads, node pools, timers, mutexes, conditions, keys | create, yield, sleep, join, cancel, move, lock, wait, ... | lock-free queues; a thread can be run elsewhere before its context is saved | a thread is in one place; joins and locks return |
| HTTP server (`crow/http_server.h`, `http_connection.h`) | connections, deadlines, what is being read and written; io_services | accept, read, reply, time out, close, stop | callbacks hold bare pointers to connections another callback deletes; stop at any time | replies answer requests in order; every connection is destroyed; the program ends |
| HTTP parser (`http_parser_merged.h`, `parser.h`) | parser state, flags, lengths, marks | execute on each piece read | pieces are cut anywhere, state carries over to the next request | what is delivered is what was sent, however it is cut |
| router, query strings, JSON (`routing.h`, `query_string.h`, `json.h`) | trie of rules; buffers parsed in place | validate, find, parse, load, dump | branches are tried and given up; pointers into buffers that are written and moved | the right rule; the values the client wrote |
| REST handlers (`ssn_rest_api.cc`, `ssn_json.cc`) | none of their own | 17 routes | fields are read one at a time and may throw | as above, and the properties of what they call |

`PROJECT.json` lists these and the remaining parts with their status, and every
hazard found in the code at its line, with the properties that are about it.

How they interact: the parser hands a request to the router, which calls a
handler; the handler reads JSON, changes registry, configuration or deployment
and answers JSON. Deployment launches native threads, which run VNF programs over
multi-access ports; panels and pipes connect ports. The timer reads what handlers
delete. A signal stops the server, then main undeploys and destroys.

## 2. Modules

    MaAccess                how queues are dealt to accessors
      MaAccessProofs        facts about it, for all numbers
      VnfConfig             attach, detach, panels, reset, coremask, deploy (serial handlers)
        VnfConfigProofs     its invariants and what follows from them
      DataPlane             VNF programs, bursts, rings, NICs, figures per second
        DataPlaneProofs     types, owners of packet buffers, figures, the order of flows
    VnfTables               tables l3fwd and acl share
      Nfvi                  + registry, timer, life of the program (INSTANCE VnfConfig)
        NfviProofs          attachments, and that misuse has one of its causes
    NativeThread            lcores, launch, join
      VnfDeploy             + deploy, undeploy, shutdown, worker loops
        VnfDeployInv        the inductive invariant
          VnfDeployProofs   types, native states; the invariant is inductive;
                            the safety properties
    Channel                 abstract: FIFO lines between actors
      Pipe                  the net_pipe driver and its two processes (implements Channel)
        PipeProofs          types, attaching, the refinement of Channel, counters
      LthreadQueue          queues, node pools, object caches (implements Channel)
    Lthread                 schedulers, joins, cancel, affinity, mutex, condition
      GreenThread           + green threads of libsusanow
        ThreadLocal         + keys and values
          LthreadProofs     mutual exclusion, places, counts, mishaps, values
    HttpConnection          connections of one io thread, deadlines
      HttpServer            + start, signals, end
        HttpProofs          connections, their callbacks and deadlines
    HttpParser              request parser, byte by byte
    Router                  trie of rules
      Rest                  + JSON, queries and the handlers' reads and answers
                            (INSTANCE Json, INSTANCE Query)
    MC*                     instances for TLC

### NativeThread and VnfDeploy: who runs on which lcore

`NativeThread` has the state of the thread layer and one parameterised action
per critical step: a launch (`LaunchStarts`, or `LaunchRefused` when the lcore is
busy: the entry in the thread table and the slot are written in both cases), the
launcher on the lcore (`ThreadCalls`, `ThreadReturns`), and a join in three steps
(`JoinLocks`, `JoinWaits`, then `JoinErases` or `JoinThrows`). The thread table is
a count per lcore, since its entries are equal but for the lcore.

`VnfDeploy` has a program counter per control thread, `cpc["rest"]` and
`cpc["main"]`, and one per worker lcore, `wpc`. A procedure is cut where another
thread's step makes a difference: between a handler's check of `is_running()` and
what it then writes (`ResetCheck`/`ResetWrite`, `MaskCheck`/`MaskWrite`,
`DeployCheck`/`ConfigAcc`), between launches (`LaunchVcore`), between the steps of
a join. The workers look their vcore up and set `running`
(`WorkerEnters`), test it (`WorkerLoops`) and burst (`WorkerPolls`). The
exceptions of the code are there: a deploy whose accessors do not divide the
queues (`ConfigAccThrows`), a refused launch and its roll-back
(`LaunchVcoreFails`), a join without an entry (`JoinVcoreThrows`), a worker that
does not find its vcore (`WorkerIsLost`, which terminates the process).

`coremask` is left uninitialised by the constructor; `Garbage` stands for any
nonzero value it may have.

*The client.* `Client` says how soon requests follow each other: `any` at once,
`polling` after a VNF reported deployed is also reported running, `settled` after
every thread launched has entered its loop. `Procedure` says whether it gives
every block lcores of its own before it deploys (docs/sphinx/user_guide/develop_vnf).
Properties that hold only for a disciplined client are checked with one, and
`undeploy_hangs` shows what happens otherwise.

### MaAccess, VnfConfig, VnfTables and Nfvi: who points to whom

`MaAccess` is the arithmetic that `ssn_ma_port.cc` and `ssn_ma_ring.h` both
contain: accessor `aid` of `nacc` gets the `aid`-th run of `nque / nacc` queues.

`VnfConfig` models the handlers as they run, serially: one action
each. `nacc` is what has been requested from a port (`n_rxacc`, `n_txacc`), `acc`
what its device or rings were configured for, `grant` the access ids stored in
the vcores. These three are changed by different operations (coremask, deploy,
reset), which is what the properties are about. Every handler asks `is_running()`, and
what it says is not what there is: `launched` are the blocks that have workers, `running`
those whose workers have set their flag (`WorkersStart`), and a deploy that fails half-way
(`DeployRollsBack`) stops only blocks with the flag and leaves any of the others polling.
In both windows detach, the deletion of a panel, reset and coremask are let through under
workers; `stripped` are VNFs that lost a port or rings that way. A client that keeps to the `procedure` also waits until
workers have started (`Settled`); any other does not.

Four things are simpler than in the code. The workers of one block start together, and a worker that finds
its vcores gone does so before the next request (`Reset`, which then ends the process). No client gives an lcore of one block to another
(`Free`): the code does not refuse it, and `VnfDeploy` has what comes of a refused launch. And a
handler is one step for the workers: that they do not see it half-way is `VnfDeploy`'s business (`NoConfigRace`).

`Nfvi` puts the registry around it: `vnfs`, `ports` and `ppps` are the vectors,
`freed` the objects deleted, and the timer callback reads the vectors and objects
with one step per dereference (`TimerPicks`, `TimerAsks`, `TimerUpdates`).
`phase` and `armed` follow the program from the launch of the timer lcore over
the registration of the catalog, serving, stopping and undeploying to the
destructor, which frees timer, VNFs, ports and panels in the code's order and waits for
nobody: `rte_timer_stop` fails while the callback runs, which `ssn_timer_sched::del` does not notice
(`DelTimer`). Clients are of any kind; no action has a guard that the code has not. When the callback, the deletion of a
panel or a worker follows a pointer that is null or freed, `misuse` says who did and the model ends. What the property
needs to name the cause is kept in history variables: of what VNFs
something was taken during the callback (`during`), whether a port was deleted before its panel (`orphaned`), whether two acls
were asked for (`beside`), which VNFs `run()` passed over since `is_running()` said no (`passed`), whether the destructor has
overtaken the callback (`overtaken`), and `VnfConfig`'s `stripped`. A null pointer met by reset, or by a worker, ends the process
(`crashed`) and is `VnfConfig`'s; it is not a `misuse`. Deletions search a vector for the object and erase it there, once (`Erased`).
`VnfTables` has the tables that DPDK finds by name: rebuilding
or freeing the ACL context under a running acl is a `misuse` too, and a second
l3fwd exits the process.

### DataPlane: what happens to packets

A service (`Setup`) is two VNFs in a row between two NICs, joined by a panel. A
worker takes a burst from its accessor's next queue, decides about each packet as
its program does, sends, frees what was refused; `held` is what it has in hand.
Each access to a ring's counter is a read and a write (`ssn_ma_ring.h:210` is not
atomic), between which other lcores or the timer's reset may come. `misuse` is set when a
buffer is used by who does not own it, after which nothing is claimed of owners.
`OneOwner` says who can do that, and when, of the very step: l3fwd with a packet
that is not IPv4, acl with the last or the rest of a burst of several. A packet is its flow: `que` is the
queue RSS chooses, `ip4`, `out` and `pass` what l3fwd and acl find in it.

### Channel, Pipe and LthreadQueue: lines

`Channel` is what both transports promise: an item is in the hands of one actor or
at one place of one line, put at the end, taken from the front. In `Pipe` a ring
is made and looked up one at a time by two processes, a burst on it is one step
(`rte_ring`, external) and its counting another, and the client may die between.
In `LthreadQueue` every access to shared memory is a step: an insertion exchanges
the head and later links (`lthread_queue.h:207`), nodes come from the pool of the inserting
scheduler and go back there from others, the pool's stub is inserted and skipped,
the fast allocation and the preallocation of an empty pool are there. `line` is a history variable that says
in which order heads were exchanged; it is the refinement's line. `mishap` is set
where a pool comes apart (below), after which `Beyond` says whether to go on.

### Lthread, GreenThread and ThreadLocal: cooperative threads

Each lcore runs its scheduler's loop (`Idle`) or one thread's operation, split
where it reads or writes what another lcore sees. The deferred write of a thread
that puts itself on another lcore's queue is there, as are the timer of sleepers,
remote wake-ups, the count of suspended threads, cancelling in each state. What
threads do is given by short programs (`Setup`). The modules' assumptions say what programs are
for: each thread is created by one operation and joined by one at most, who cancels a thread has had
its pointer, arguments are threads and lcores that exist, main launches on registered lcores. `GreenThread` adds the master
lcore that registers a scheduler lcore, launches, joins and unregisters, and
`ssn_cpu.cc`'s states; `ThreadLocal` the pool of keys, the table of destructors and the
values. `mishap` names the ways to run into undefined behaviour or an exception:
no scheduler yet, a thread cancelled before it was born, a freed sleeper, a failed lookup.

### HttpConnection, HttpServer and HttpParser: the way in

A completion handler of asio is one action; operations of one connection complete
in any order the kernel allows (`ReadCompletes`, `WriteCompletes`), and clients
send, wait, pipeline, or leave. `feed` is what of a piece is not parsed yet, since
a handler's reply is started while the rest of the piece waits. Deadlines are a
queue shared by all connections. `HttpServer` has main, the REST thread, the
worker and who catches a signal at each moment: nobody, asio's signal set, or
`signal_handler`, which calls three things one after another.

`HttpParser` has an action per arm of the switch over `parser->state`; a symbol is
a character or the rest of a word. The stream is fed twice, in one piece and cut
anywhere, and what `handle()` is called with is compared.

### Router, Json, Query and Rest: what a request means

`Router` inserts rules character by character into a trie, merges nodes
as `validate()` does, and searches it as `find()` does, with its order of branches. `Json` loads a text in place:
positions in one buffer, quotes overwritten, strings unescaped when first read, keys
sorted when first looked up; `Query` likewise for query strings, with the buffer's
address moving when the request is copied. Each has a reference definition beside it (the grammar,
the rules' patterns, the pairs of a query) that its results are compared with. `Rest` runs requests through
them: the handler reads its fields one at a time and answers what `ssn_json.cc` builds. A 500 comes from a
field (`ReadField`) or from what a handler calls (`HandlerThrows`): `get_coremask` of a block there is not, `deploy`, `undeploy`,
`del_ppp`, constructors. A coremask is narrowed (`Coremask`).
A query with more pairs than there is room for makes `qs_parse` follow a pointer behind its array (`Overrun`): the program ends,
or goes on with a null pointer among the pairs.

## 3. Runs

| run | asks | result |
| --- | --- | --- |
| `deploy_procedure` | one-block and two-block VNF, three worker lcores, every coremask of workers, a client that follows the procedure: `NoConfigRace`, `QueueExclusive`, `LcoreIsFree`, `RepliesAreTrue`, and the liveness `RequestAnswered`, `ShutdownReleases` | hold |
| `deploy_any_client` | two VNFs, one worker lcore, any requests: `NativeStateIsReal` | holds |
| `undeploy_hangs` | `RequestAnswered` for a client that waits for `is_running()` | violated |
| `config_procedure` | an l2fwd and an l2fwd_numa exchange a DPDK port and a virtual port: `AccessIdsAreSound`, `EveryQueueIsPolled`, `DeployedIsUsable` | hold |
| `nfvi` | registry, timer, workers, shared tables, start and end of the program, any client: `MisuseHasACause` | holds |
| `data_plane` | seven services of two VNFs: `OneOwner`, `FlowsInOrder`, `FiguresAreExact`, and the liveness `MbufsComeBack` | hold |
| `lthread` | fifteen setups of small programs on two lcores: `OnePlace`, `MutexExcludes`, `SuspendedAreCounted`, `GreenMishapsHaveCauses`, `ValuesAreDestroyed`, and the liveness `LocksAreGranted`, `JoinsReturn`, `GreenJoinsReturn` | hold |
| `http_server` | two connections, nine pairs of clients, signals: `CallbacksFindConnection`, `RepliesAnswer`, and the liveness `ConnectionsEnd`, `ServerStops` | hold |
| `http_parser` | 990 streams, whole and cut: `DeliversWhatWasAsked`, `PiecesDoNotMatter` | hold |
| `rest` | the NFVi's routes and 115 other sets of rules, 700 bodies, queries: `DispatchFollowsRules`, `DocumentsAreJson`, `FieldsAreTheBodys`, `AnswersSurvive`, `QueryIsFound` | hold |
| `channels` | a pipe, and the queues of two schedulers: `AttachedIsWhole`, `CountersAgree`, `NodesAreExclusive`, `MishapHasCause`, and the refinements `PipeIsChannel`, `QueueIsChannel` | hold |
| `node_given_twice` | `NodesAreExclusive` when a pool's owner goes on after it met a gap twice | violated |

What they show, and under which conditions:

* *Deployment* is safe and live for a client that gives blocks lcores of their
  own and waits until threads have started; it is not for a faster one.
* *Configuration*: with a reset before every round of coremasks the ids in the
  vcores, the counts of the ports and the configured accessors stay in step. With any client workers keep
  their ports and rings, unless these were taken in the two windows in which `is_running()` does not tell of the workers.
* *The NFVi*: the registry does not protect what it deletes, so freed and null pointers are followed; the property names
  the causes there are, for each who follows one, and there is no other.
  Any client leaves no dangling pointer between VNFs and ports.
* *Packets*: each buffer has one owner but for what l3fwd does with packets that are
  not IPv4 and acl with bursts of several. Flows keep their order if each worker
  has one transmit queue. The figures per second are exact where no two
  accesses to a counter overlap, and not where they do.
* *L-threads*: a thread is in one place; what goes wrong (`mishap`) has the cause
  named for it. Locks are granted among threads of one lcore only (below).
* *HTTP*: replies keep to their requests also for clients that pipeline, unless a
  write is begun over an unfinished one; connections of clients that wait for
  replies end; the program ends after a signal that finds the server complete.
* *Channels*: both implement `Channel`, whatever the client's death, a full
  ring, a gap or a pool that grows does, until a pool has come apart.

### Bounds

* *lcores.* Three workers let a block have two vcores while another has one, give
  three accessors, which divide no power of two, and leave a spare.
  One worker and two VNFs suffice for launches to be refused and joins to cross.
* *VNFs and blocks.* Two VNFs, one of them with two blocks: roll-back across
  blocks, and two VNFs that compete for an lcore or a port.
* *MaxTids* = 3 bounds the entries refused launches leave in the table for an lcore;
  one entry more than the threads that can run shows what stale entries do.
* *NQueue* is 8 in the deploy runs, as in `ssn_nfvi`; 2 in the configuration run, with up to
  *MaxAcc* = 3 accesses, so that numbers that divide (1, 2) and one that does not
  (3) occur. What holds for every number is proved in `MaAccessProofs`.
* *nfvi.* Two VNFs (two acl, two l3fwd, or one l2fwd beside a name the catalog does not have), two ports and a panel: enough for
  each of the vectors to shrink during a walk; one lcore, queue and access, as only attachments and workers matter. An object does not come back under its name, so
  every behaviour of deletions is finite.
* *data_plane.* Two buffers, two flows, bursts of 2, rings of 1 packet and NIC queues of 2
  descriptors: bursts that are refused in part, a packet that waits in each queue,
  two workers at one ring. At most three packets arrive (`max`), and the watched counter is one
  per setup. *Junk* is what a counter holds before it is first set.
* *lthread.* Programs of at most nine operations, four threads, two lcores,
  two keys where three names ask for one: each way to suspend meets each way to be
  woken from the same lcore and from another.
* *http_server.* Two connections share the deadline queue; of clients every kind
  alone or beside a silent one. Two signals, in the setup that is about them.
* *http_parser.* Numbers end at 127 (`ULLONG_MAX`) and headers at 60 bytes, so that both limits
  are met. Pieces of 1 and 3 symbols in any order give every cut. Garbled streams
  have any one symbol replaced. Plain streams have headers with and without a value in every place, and trailers.
* *rest.* Integers end at 99 and `%g` writes 2 digits, so that both roundings occur;
  the small sets of rules are asked urls of up to three characters over an alphabet that
  rules share, the NFVi's own paths of up to four segments. There is room for 3 pairs of a query (256 in the code) and
  queries have up to four; a coremask has 32 values (2^32), fewer than integers have.
* *channels.* Two packets, rings of one packet, counters modulo 3: every ring is
  full and every counter wraps. Two schedulers, pools that grow by 2, at most 12
  nodes; up to six insertions. Packets are symmetric.

### Fairness

* `VnfDeploy` (`FairSpec`): weak fairness of the REST thread's and
  the main thread's procedures and of every worker: each worker has a core of its own and
  is never descheduled, and the two control threads are ordinary threads of a
  preemptive system. A waiting join is disabled until its lcore has finished, so
  nothing is assumed about it beyond that.
* `DataPlane`: workers as above; a NIC transmits what it was given.
* `ThreadLocal` (`TlsSpec`): each lcore runs its scheduler; strong fairness of a
  timer's expiry, since the loop calls `rte_timer_manage` only when it is between threads and
  a timer that is due is found there. No fairness of locks or of who is polled first.
* `HttpServer` (`ServerSpec`): each thread takes its next step; an asynchronous
  read of what has arrived, and a write, complete; a second passes for the
  deadline queue.

Neither clients nor the operator are fair: requests, `stop()`, signals and packets need not come.

The cfgs turn the deadlock check off where the program really stops: after
shutdown, a crash or `rte_exit`, when a stream has been parsed, when schedulers have stopped, and after a `mishap`
or `misuse`, where behaviour is undefined and the model ends. It is on in `config_procedure`.

### Findings

Shown by a run:

1. *nfvi/vnfs/l2fwd.h:88* (and the other programs), run `undeploy_hangs`. The worker sets `running`
   itself. An undeploy that comes between the start of the first worker and the
   second clears the flag, the second worker sets it again, and the join
   never returns; with it the REST worker is lost. The same
   delay lets a second deploy through before the first one's workers have started.
2. *lib/liblthread_dpdk/lthread_pool.h:222*, run `node_given_twice`. The owner of a node pool inserts the
   stub when the tail is not the head, which is so in the gap of another scheduler's
   free. Inserted twice, the stub is given out as a node while it is in the pool.

Met while modelling; the models have them, and properties say where they stop to hold:

* *nfvi/ssn_rest_api.cc:18.* `(0x1<<i) & coremask != 0` compares first, so only
  lcore 0 is looked at and the coremask of a busy lcore is accepted.
* *nfvi/ssn_vnf.cc:226.* Between the reply to deploy and the start of the last worker, and after a deploy that failed
  half-way, `is_running()` is false while blocks are or will be polled; reset, coremask, detach and the deletion of
  a panel are then let through. `VnfConfig` and `Nfvi` have both windows, `VnfDeploy` too.
* *nfvi/ssn_nfvi.cc:227, lib/libsusanow/ssn_timer.cc:77.* The destructor frees the timer while its callback may be running.
* *nfvi/ssn_rest_api.cc:512.* `get_coremask(blockId)` throws for a block there is not: the answer is a 500, without a
  `result`. So are exceptions of deploy, undeploy, the deletion of panels and of constructors.
* *nfvi/ssn_rest_api.cc:519.* A coremask is read as a 64-bit integer and kept in 32 bits: 4294967297 acts as 1.
* *crow/parser.h:34.* A header with an empty value is dropped when another header follows, since
  what was collected is stored only when both name and value are there. `on_headers_complete` is not called for the trailer of a chunked body,
  so its last header is lost, too, while the others are added to the headers. `Kept` in `HttpParser` says what is left.
* *crow/query_string.h:61, 147.* A lookup decodes the name it is given as if it came from a url, and a value ends at an
  equals sign: `a%26`, `a%3D`, `a%23`, `a%2B` and `a%25` are names no lookup finds, and the value of `a=b=c` is `b`.
* *crow/query_string.h:122.* With more than 256 pairs the count becomes 257 and the 257th pair is read past the array.
* *nfvi/ssn_vnf.cc:99.* reset dereferences a missing port before it checks for one.
* *nfvi/ssn_rest_api.cc:512.* The check that accesses were reset looks at the
  block's coremask only; a port taken over from another VNF keeps its counters,
  and the queues of the low access ids are polled by nobody.
* *nfvi/ssn_nfvi.cc:372.* The search for a panel is bounded by the number of VNFs.
* *nfvi/vnfs/l3fwd.h:207, acl.cc:86.* Instances share tables by name: a second l3fwd exits the
  process, a second acl rebuilds the context of the first. No destructor of a VNF's class runs.
* *nfvi/vnfs/l3fwd.h:139, acl.h:156.* Buffers used after they were freed.
* *nfvi/ssn_nfvi.cc:117, crow/http_server.h:173.* A SIGINT before the server exists kills the program or
  dereferences null; one between the server's and its pool's making leaves the REST thread waiting; one that asio's signal set
  catches stops the server only, while main goes on.
* *lib/liblthread_dpdk/lthread_mutex.c:158.* Across lcores an unlock can miss the
  locker that is about to queue itself: it sleeps until somebody else unlocks.
* *lib/liblthread_dpdk/lthread_sched.c:606.* A shutdown that finds the dummy
  thread alive never stops the scheduler, so the native thread under green threads cannot be joined.
* *lib/liblthread_dpdk/lthread_tls.c:84.* A scheduler that starts late clears the
  table of keys: destructors are forgotten; a key used again shows old values.
* *lib/liblthread_dpdk/lthread.c:349.* Cancelling a thread that never ran uses a null scheduler.
* *crow/routing.h.* A redirect is found before any rule, so that a rule `/<path>/`
  redirects every url to itself with one more slash, for ever; a rule with an unknown `<tag>` makes the registration loop.
* *crow/json.h:1411.* Figures of more than six digits are rounded.

## 4. Proofs

The theorems hold for any finite number of VNFs, blocks, lcores, queues, packets,
devices and threads: for every value of the constants that the named assumption of a
module allows. The assumptions say what kind of thing a constant is and what the
code has established before the model begins; those that say more are named below.

**Dealing out queues** (`MaAccessProofs`). If the number of accessors divides the
number of queues, the accessors' runs consist of existing queues
(`RunsAreQueues`), are pairwise disjoint (`RunsAreDisjoint`) and cover all queues
(`RunsCover`). All three come from one nonlinear fact, that run `a` ends before run
`b` starts when `a < b` (`NextRunStarts`).

**Type correctness of deployment** (`VnfDeployProofs!TypeCorrect`), for every
client. `TypeOK` is not inductive: `MaskWrite` writes `coremask[Here("rest")]` and
a worker writes `running[job[l]]`, so one needs that a control thread in the
middle of a request is at a block (`Places`) and that a worker beyond its start
has a job (`Jobs`).

**Safety of deployment** (`VnfDeployProofs`), under `Disciplined`: the client
follows the procedure and waits until threads have started. The invariant is
`Discipline` in `VnfDeployInv`:

* lcores of blocks are disjoint workers (`Disjoint`), and a worker that is not
  waiting belongs to the block it was launched for (`Owned`);
* a block of a VNF nobody works on is `Down` (flag false, lcores waiting) or
  `Started` (each lcore on its way into the loop), all blocks of a VNF alike
  (`AtRest`);
* a control thread takes the blocks of its VNF from one state to the other in
  ascending order, so blocks before the current one are in the new state, those
  after it in the old one, and the current one is `Launching` or `Stopping`
  (`Progress`, `Joining`);
* only one control thread is at work (`OneAtATime`).

Each of the properties needs most of it: that no worker is inside
`deploy_impl` while a handler writes follows from "not running" only because a VNF
that is at rest is down or started and nothing in between. A step touches the blocks of
one VNF and leaves the rest as they are (`Keeps`); the proof has a lemma per
action. From it follow
`ConfigurationIsExclusive` (`NoConfigRace`), `LaunchFindsIdleLcore` (`LcoreIsFree`),
`QueuesAreExclusive` (`QueueExclusive`) and `RepliesHold` (`RepliesAreTrue`), which the
run `deploy_procedure` checks on an instance, and also `NothingTerminates` (no
worker is lost, so the process is not terminated) and `JoinsSucceed` (a join finds its thread).

**Configuration** (`VnfConfigProofs`). Two invariants. `Attached` holds for every
client: a port is in one slot of one VNF and names it (`Owners`), and a deployed
VNF has all it needs unless it is `stripped`. The two support each other: `detach` clears the owner, which
would leave another slot with the same port unowned; `del_ppp` spares the rings of
a VNF that runs only because its ports name it. From it follow `ConfigTypeCorrect`
and, but for its last conjunct, `DeployedStaysUsable`: that a client who keeps to the procedure strips nobody
needs `Kept`.

`Kept` needs `procedure`: a VNF is reset after a port of it was changed, every
coremask has a lcore, every block has one before deploy, and the client lets workers start before its
next request. Then every block is launched (`AllLaunched`), nobody is stripped (`NobodyStripped`), and `is_running()`
says at each request what there is (`SettledIsTrue`). It follows the
accesses through the three places that hold them. From reset to deploy the ids in the vcores of a VNF
are exactly `0 .. n-1` for the count `n` of its ports (`Books`); deploy
carries the count into the devices, which then have an accessor for each
(`Ready`). `CoremaskKeepsBooks` is the heart of it: a coremask continues the
numbering without a gap, since the lcores of a mask are ranked without one
(`RankCounts`) and the block held no access before. All else is frame: another
VNF's ports are other ports (`PortsDiffer`), so neither its counts nor its devices
change. From `Kept`, with `RunsAreDisjoint` and `RunsCover`, follow
`AidsStayInRange` and `SendersStayDistinct`, together `AccessIdsStaySound`
(`AccessIdsAreSound`), `QueuesStayPolled` (`EveryQueueIsPolled`) and `ConfigNeverCrashes`. Without a reset the count of a port outlives its detachment
and the ids of the next VNF start above 0.

**Native states** (`VnfDeployProofs!NativeStateStaysReal`), for every client. The state of an lcore
says that it runs a native thread only while the EAL runs one
(`NativeStateIsReal`). The invariant adds that the EAL runs every lcore that has a function and has
not returned from it: `ThreadCalls` sets the state in the middle of a run, a refused launch sets nothing.

**The registry** (`NfviProofs!MisuseAlwaysHasACause`: `MisuseHasACause`), for every client and every end of the program. The
invariant `NfviInv` has five parts.

* `RegistryInv`: the vectors have no object twice, VNFs and ports name each other, both registered, as
  `del_vnf` and `del_port` refuse what is attached, and a VNF with workers that lacks a port is stripped.
* `Timed`: the callback's bound is within the vector unless a VNF was deleted since it began, and the VNF it looks at is
  registered with its ports unless something was taken from it since, it was stripped before, or the destructor has come by;
  with the timer freed no callback begins.
* `PanelsInv`: the ports of a panel are registered unless one was deleted under it or the destructor frees them.
* `Tables`: users of the ACL context are registered acls, and an acl that has lost it means that two were asked for.
* `Ended`: a VNF that `run()` has gone over has no workers or was passed over, and one that is not in the vector any more was
  stripped of its ports before it was deleted.

The model ends at a misuse, so the cause has to be shown for the step that sets it, from the state before.
`NfviAssumption` says that virtual ports are ports, and that names of VNFs, of ports and of nothing
differ. That `Erased` removes just the object that was
found and keeps the order of the rest is a lemma (`ErasedIs`).

**Packets** (`DataPlaneProofs`), for any two VNFs of the programs, any numbers of
queues, flows, buffers and vcores. `DataPlaneAssumption` has, beyond types, what earlier
operations establish: a port is in one place of one VNF (`attach_port`, theorem
`ConfigTypeCorrect`), the accessors of a port divide its queues (`configure_acc`
refuses others), a panel joins two ports.

* `DataTypeCorrect`: every access is to a queue that exists, queues and bursts keep to
  their limits, a worker's turn stays among the queues of his accessor. A worker's place in his loop and what he holds
  belong together, so the invariant has a part per place (`Holding` later adds whose it is).
* `OwnersStayExclusive` (`OneOwner`): the invariant `Owned` says where each
  buffer is: free, at one position of one queue, or in one hand, and that a worker at each place of
  his loop holds what that place implies, distinct buffers none of which
  is also in a queue. It holds until a `misuse`. That two workers do not take the
  same packet needs no ownership of queues here, as a burst on a ring
  is one step; that a burst takes only from the front and adds only at the end does the rest. Trying to prove an earlier form, that no `misuse` has
  happened without a cause in the present state, showed it to be false: the cause of acl's is gone when it
  polls again, and no instance had an acl that receives several packets. One has now.
* `FiguresStayExact` (`FiguresAreExact`): unless accesses have overlapped, who is between
  the read of the watched counter and its write is alone, no reset is under way, and what he read is still
  what the counter holds (`FiguresInv`).

* `FlowsStayInOrder` (`FlowsInOrder`), where every worker has one transmit queue. A packet is in
  a queue or in a hand, and `Hop` says where packets of a flow go from there. An accessor
  polls queues of his own and sends to one, so a place has one successor for each flow (`OneHop`).
  What remains is "the older of two packets is further on": it is in the same place and before the younger
  (`Ahead`), or in a place the younger still comes to (`Leads`). The provers have no induction to
  define "comes to" by paths, so it is membership of all sets of places closed under hops
  (`Closed`). Services joined in a circle do let a flow pass its own tail, so nothing is said of order in a place
  that a flow comes back to (`Once`); a NIC's transmit queue leads nowhere and is no such place (`WireIsEnd`).
  What a burst did not send is freed before its worker goes on, so that thins a flow out and leaves
  its order (`RestInOrder`).

**Pipes** (`PipeProofs`), for any number of pipes, clients and rings.
`PipeTypeCorrect` has what the rest needs: rings are made in order, and a device's
slots fill in the same order with the rings they are named for, crosswise for the two
ends (`Filled`, `Filling`). From it follow `AttachedStaysWhole` (`AttachedIsWhole`) and the refinement `PipesAreChannels`
(`PipeIsChannel`): each step is a step of `Channel` or a stutter. A burst is a `Put` or `Get` of
`Channel` on the line that the ring's slot names, by the actor that the slot's side gives: `Put` and
`Get` are told apart by the rings' naming, which is injective. `CountersAlwaysAgree` (`CountersAgree`) is for pipes of
one client each, as single-producer rings require (`OneClientEach`). Its
invariant follows each packet through ring, hands and uncounted burst; the counters are
modulo `Wrap`, so it needs that remainders are unique
(`Remainder`) and that a figure is what must be added to the last total to come to this one,
modulo `Wrap`, which is what `ssn_port_stat_update`'s unsigned subtraction relies on (`FigureAdded`).

**Mutexes of L-threads** (`LthreadProofs!MutexAlwaysExcludes`), for any programs on any
lcores, with cancelling and moving threads. `MutexInv` says that the
owner is who was last told he has it, or who is giving it back and no longer counts as having it
(`Releasing`); most steps leave owner, holders and those places alone (`Elsewhere`), and a locker
takes the mutex only where he finds no owner.

**Places of L-threads** (`LthreadProofs!ThreadsAreInOnePlace`: `OnePlace`). The code keeps no record of where a
thread is: it is in a queue, on a lcore, in a timer, about to be appended by whoever woke it, or known only to
who will join it. `PlacesInv` says that there *is* an assignment of one place to each
thread, a kind `K` and where, `A`, with which everything agrees: each queue holds the threads whose place it is, once each, as do the
timers, `cur`, the deferred write and the hand of a waker; the
state bits and what the timer callback saved say of a thread what its place does. A step moves one thread or two, and
its lemma gives the new assignment. Beside it stand the joins (`JoinsHold`: by the join field, who
of the two is suspended and who has still to wake him), the
programs (`ProgsHold`: who was created or joined already) and main's calls (`MainHolds`).

**Counts of the suspended** (`TheSuspendedAreCounted`: `SuspendedAreCounted`). `MarksHold` relates state bits, places in the
programs and what the timer callback saved. On it rests `CountsHold`: a scheduler never counts more
than are suspended, and exactly those unless a sleeper is cancelled. So
a scheduler that stops has nobody left.

**Mishaps** (`MishapsAlwaysHaveCauses`: `GreenMishapsHaveCauses`). The model ends at a mishap, so what has to be shown is that the step
that sets one meets the cause named for it. `StartsHold` is about schedulers that have not started
(the two counts of `lthread_run`, the bits of threads that have not run), `CallsHold` about main: a lcore is in the
state its calls have left it in, and what was launched is found until it is joined.

**Values of keys** (`LastValuesAreDestroyed`: `ValuesAreDestroyed`), for any programs that use keys they or
their creators made before (`KeysKnown`), one for each name (`KeysStay`), and schedulers that start together. `KeyInv` says
that a key is in the pool or one name's, that from the first key on every scheduler runs, so that the table of destructors is
cleared no more (`MadeHold`), and that the count of keys in use is never below the number of values
(`ValuesHold`): it may be above, since a value cleared and set again counts twice, but then
`_lthread_tls_destroy` still reaches every key.

Trying to prove these four corrected the model and the properties: an earlier form of `SuspendedAreCounted` is refuted by a
sleeper that has detached itself; a join erases the thread it found from `threads`, so a second one throws; values are lost
to destructors also when a name's key is made twice, or used before who uses it can know it.

**Connections** (`HttpProofs!CallbacksStayFound`), for any number of connections, clients that send
anything in any pieces, and signals at any time (`CallbacksFindConnection`). A `Connection` deletes itself when its flags
`is_reading` and `is_writing` are down, so the invariant `HttpInv` says what the flags stand for: a read is
outstanding, posted or being fed, one of the three (`ReadSide`); so is one write, unless another was begun
meanwhile (`WriteSide`). That this does not happen to a client that waits for replies is the other half (`PacedOK`): one thing is
under way for him, a request sent, read or being fed, or a reply, and a request that was read is handled after the
write before it (`InTurn`), since completions are handled in their order. `KeysOK` says that a key is
the place of its deadline in the queue, past or present: `cancel` and `process` rely on it when
they subtract `step`. `HttpAssumption` has types, and that who waits for replies asks once in a segment at most.

*Only model-checked*, and why:

* The liveness properties, and ENABLED: not in the prover's reach.
* `DispatchFollowsRules`, `DocumentsAreJson`, `FieldsAreTheBodys`, `AnswersSurvive`, `QueryIsFound`,
  `NodesAreExclusive`, `MishapHasCause`, `QueueIsChannel`: their modules use recursive operators, and
  what those compute for every input is an induction over data.
* `DeliversWhatWasAsked`, `PiecesDoNotMatter`: statements about the whole of a stream, again inductions over it;
  `RepliesAnswer` likewise, about filtered and flattened sequences.

## 5. Not modelled

* *Socket affinity* (nfvi/ssn_vnf_block.h:127, 239). It is counted on attach, computed on reset and only
  reported; the counts are of attachments, so stale ones remain.
* `configure_hwqueue`: called once before a port is used, a constant here. Removing
  a pipe's device and `unregister_vnf`: called by nothing.
* *Several timers* (`ssn_timer`): the NFVi has one.
* *ssn_ring, logging, vty, configuration files*: no state the rest depends on.
* *Initialisation of the EAL, and DPDK itself* (rings, mempools, timers, LPM, ACL, drivers), asio: external, modelled as
  their callers use them.
* *The memory model.* A read or write of a word is one step, and steps of one thread
  are seen in order. A push on a vector while another thread walks it is one step, so a
  reallocation in the middle of a walk is not seen. Nor is the deletion of a panel while the callback reads
  the figures of its rings (`ports/virt.h:173`), which it tests for null and then uses.
* *Crow's* templates, websockets, middleware, TLS, mustache and examples; parsing of HTTP
  responses and `http_parser_parse_url`: not used by the NFVi. Comparisons and iterators of JSON values: used by no handler.
* *liblthread's* diagnostics and its context switch in assembler.
* *What l3fwd and acl look up*: the verdict about a packet is an attribute of its flow. The delay of
  l2fwd_delay is time only.
* *Sample programs, build files, systemd unit, documentation.*

## 6. Plan

Done: inventory, deployment, configuration, registry, packets, statistics,
pipes, L-threads and green threads, the HTTP server from accept to answer, the
first refinements. Left, in this order:

1. *VnfService*: what the REST API promises about a VNF (down, up, deploy
   refused when up) as a specification of its own, implemented by `VnfDeploy`
   under a refinement mapping for the disciplined client, with the step simulation proved.
2. *Socket affinity* and several timers.
3. *Proofs*: `NodesAreExclusive` and `QueueIsChannel`, with the recursion of `LthreadQueue` (how far links
   lead) replaced by a relation that says it.
4. Larger instances: three VNFs in a row, three schedulers.
