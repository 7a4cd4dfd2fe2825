----------------------------- MODULE HttpServer -----------------------------
(***************************************************************************)
(* crow::Server and who starts and stops it.  ssn_nfvi::run (main) starts  *)
(* the REST thread, waits, loops until its running flag is cleared and     *)
(* joins the REST thread.  That thread builds the server, which starts one *)
(* worker (the io thread of HttpConnection), accepts connections until     *)
(* its io_service is stopped, and then waits for the worker.  A signal     *)
(* goes to whoever was the last to ask for it: nobody, the signal_set of   *)
(* the server, or signal_handler, which main's loop installs every second. *)
(***************************************************************************)
EXTENDS HttpConnection

CONSTANTS Signals   \* how many signals a setup sends, at most

VARIABLES
  main, running,            \* ssn_nfvi::run and its flag
  server, worker,           \* where the REST thread and the worker are
  io_stopped, pool_stopped, \* io_service_ and the worker's have been stopped
  catcher, caught,          \* who gets a signal; what signal_set has got
  handler, signals          \* where signal_handler is; signals sent so far

programVars == <<main, running, server, worker, io_stopped, pool_stopped, catcher, caught, handler, signals>>
serverVars == <<vars, programVars>>

(* A setup with signals begins with the program, one without when the      *)
(* program has come up.                                                    *)
ServerInit ==
  /\ Init
  /\ io_stopped = FALSE /\ pool_stopped = FALSE /\ caught = FALSE
  /\ handler = "none" /\ signals = 0
  /\ IF Signals[setup] > 0
     THEN main = "starting" /\ running = FALSE /\ server = "routes" /\ worker = "none" /\ catcher = "default"
     ELSE main = "loop" /\ running = TRUE /\ server = "accepting" /\ worker = "running" /\ catcher = "main"

Alive == main \notin {"killed", "crashed", "ended"}

-----------------------------------------------------------------------------
(* ssn_nfvi::run *)

MainRuns ==
  /\ main = "starting" /\ main' = "loop" /\ running' = TRUE
  /\ UNCHANGED <<vars, server, worker, io_stopped, pool_stopped, catcher, caught, handler, signals>>

MainInstallsHandler ==
  /\ main = "loop" /\ running /\ catcher' = "main"
  /\ UNCHANGED <<vars, main, running, server, worker, io_stopped, pool_stopped, caught, handler, signals>>

(* It undeploys what runs (VnfDeploy) and joins the REST thread. *)
MainLeaves ==
  /\ \/ main = "loop" /\ ~running /\ main' = "joining"
     \/ main = "joining" /\ server = "ended" /\ main' = "ended"
  /\ UNCHANGED <<vars, running, server, worker, io_stopped, pool_stopped, catcher, caught, handler, signals>>

-----------------------------------------------------------------------------
(* The REST thread: rest_api_thread, App::run, Server::run.                *)

MakeServer ==
  /\ Alive /\ server = "routes" /\ server' = "made" /\ catcher' = "asio"
  /\ UNCHANGED <<vars, main, running, worker, io_stopped, pool_stopped, caught, handler, signals>>

MakePool ==
  /\ Alive /\ server = "made" /\ server' = "pool" /\ worker' = "started"
  /\ UNCHANGED <<vars, main, running, io_stopped, pool_stopped, catcher, caught, handler, signals>>

(* The worker has counted itself in init_count. *)
WorkerRuns ==
  /\ Alive /\ worker = "started" /\ worker' = "running"
  /\ UNCHANGED <<vars, main, running, server, io_stopped, pool_stopped, catcher, caught, handler, signals>>

ServerAccepts ==
  /\ Alive /\ server = "pool" /\ worker \notin {"none", "started"} /\ server' = "accepting"
  /\ UNCHANGED <<vars, main, running, worker, io_stopped, pool_stopped, catcher, caught, handler, signals>>

(* io_service_.run returns; leaving run, the futures wait for the worker.  *)
ServerLeaves ==
  /\ Alive
  /\ \/ server = "accepting" /\ io_stopped /\ server' = "draining"
     \/ server = "draining" /\ worker = "ended" /\ server' = "ended"
  /\ UNCHANGED <<vars, main, running, worker, io_stopped, pool_stopped, catcher, caught, handler, signals>>

(* The worker's io_service.run returns after the handler it is in. *)
WorkerEnds ==
  /\ Alive /\ worker = "running" /\ pool_stopped /\ feed = NoFeed /\ worker' = "ended"
  /\ UNCHANGED <<vars, main, running, server, io_stopped, pool_stopped, catcher, caught, handler, signals>>

(* Server::stop, run by the server's own thread for its signal_set. *)
SignalSetStops ==
  /\ Alive /\ server = "accepting" /\ ~io_stopped /\ caught
  /\ caught' = FALSE /\ io_stopped' = TRUE /\ pool_stopped' = TRUE
  /\ UNCHANGED <<vars, main, running, server, worker, catcher, handler, signals>>

-----------------------------------------------------------------------------
(* A signal arrives, and what signal_handler does, one call at a time.     *)

Signal ==
  /\ Alive /\ signals < Signals[setup] /\ handler = "none"
  /\ signals' = signals + 1
  /\ CASE catcher = "default" -> main' = "killed" /\ UNCHANGED <<caught, handler>>
       [] catcher = "asio" -> caught' = TRUE /\ UNCHANGED <<main, handler>>
       [] catcher = "main" -> handler' = "server" /\ UNCHANGED <<main, caught>>
  /\ UNCHANGED <<vars, running, server, worker, io_stopped, pool_stopped, catcher>>

(* App::stop before App::run has made the server is a null dereference. *)
HandlerStopsServer ==
  /\ Alive /\ handler = "server" /\ handler' = "pool"
  /\ IF server = "routes" THEN main' = "crashed" /\ UNCHANGED io_stopped
     ELSE io_stopped' = TRUE /\ UNCHANGED main
  /\ UNCHANGED <<vars, running, server, worker, pool_stopped, catcher, caught, signals>>

MutHandlerStopsPool ==
  /\ Alive /\ handler = "pool" /\ handler' = "flag"
  /\ UNCHANGED <<vars, main, running, server, worker, io_stopped, pool_stopped, catcher, caught, signals>>

(* It stops the io_services that are in the pool by then. *)
HandlerStopsPool ==
  /\ Alive /\ handler = "pool" /\ handler' = "flag"
  /\ pool_stopped' = (pool_stopped \/ server # "made")
  /\ UNCHANGED <<vars, main, running, server, worker, io_stopped, catcher, caught, signals>>

HandlerClearsFlag ==
  /\ Alive /\ handler = "flag" /\ handler' = "none" /\ running' = FALSE
  /\ UNCHANGED <<vars, main, server, worker, io_stopped, pool_stopped, catcher, caught, signals>>

-----------------------------------------------------------------------------
Works == Alive /\ worker = "running" /\ (pool_stopped => feed # NoFeed)

Io == Works /\ IoThread /\ UNCHANGED programVars
Deadline == Works /\ Process /\ UNCHANGED programVars
Reactor(c) ==
  Alive /\ worker = "running" /\ (ReadCompletes(c) \/ WriteCompletes(c)) /\ UNCHANGED programVars
Accepts(c) == Alive /\ server = "accepting" /\ ~io_stopped /\ Accept(c) /\ UNCHANGED programVars
Client(c) == (Send(c) \/ Leave(c)) /\ UNCHANGED programVars

Program ==
  \/ MainRuns \/ MainInstallsHandler \/ MainLeaves
  \/ MakeServer \/ MakePool \/ WorkerRuns \/ ServerAccepts \/ ServerLeaves \/ WorkerEnds \/ SignalSetStops
  \/ HandlerStopsServer \/ HandlerStopsPool \/ HandlerClearsFlag

ServerNext ==
  \/ Program \/ Signal \/ Io \/ Deadline
  \/ \E c \in Conn : Reactor(c) \/ Accepts(c) \/ Client(c)

(* Threads run, the worker's timer is armed again every second, and the    *)
(* kernel completes what it can: a client that has not gone away takes     *)
(* what is written.                                                        *)
ServerSpec ==
  /\ ServerInit /\ [][ServerNext]_serverVars
  /\ WF_serverVars(Io) /\ WF_serverVars(Deadline)
  /\ WF_serverVars(MainRuns) /\ WF_serverVars(MainInstallsHandler) /\ WF_serverVars(MainLeaves)
  /\ WF_serverVars(MakeServer) /\ WF_serverVars(MakePool) /\ WF_serverVars(WorkerRuns)
  /\ WF_serverVars(ServerAccepts) /\ WF_serverVars(ServerLeaves) /\ WF_serverVars(WorkerEnds)
  /\ WF_serverVars(SignalSetStops)
  /\ WF_serverVars(HandlerStopsServer) /\ WF_serverVars(HandlerStopsPool) /\ WF_serverVars(HandlerClearsFlag)
  /\ \A c \in Conn : WF_serverVars(Reactor(c) /\ ReadCompletes(c)) /\ WF_serverVars(Reactor(c) /\ WriteCompletes(c))

-----------------------------------------------------------------------------
(* Properties.                                                             *)

(* A connection whose client waits for its replies is destroyed in the     *)
(* end, whoever ends it: client, server or deadline; or the server is      *)
(* stopped and its worker leaves it.                                       *)
ConnectionsEnd ==
  \A c \in Conn :
    setup[c].paced /\ life[c] = "accepted"
      ~> life[c] = "deleted" \/ mishap # "none" \/ worker = "ended" \/ ~Alive

(* A signal that finds the server's pool made stops the server, ends its   *)
(* worker, whatever its connections are doing, and then the program, which *)
(* ends only after both.  (One that comes between App::run's making the    *)
(* server and its pool does not: the REST thread waits for the worker for  *)
(* ever.)                                                                  *)
ServerStops ==
  /\ (handler = "server" /\ server \notin {"routes", "made"}) ~> (main = "ended" \/ mishap # "none")
  /\ [](main = "ended" => server = "ended" /\ worker = "ended" /\ ~running)
=============================================================================
