------------------------------- MODULE Lifecycle -------------------------------
(***************************************************************************)
(* The life of the sensor-core process: main(), Application,               *)
(* ApiController, GrpcTransport, RequestHandler and Core with its          *)
(* GrpcClientManager, run by three kinds of threads.                       *)
(*                                                                         *)
(*   main     runs main.cpp from Application::initialize to the return of  *)
(*            main and the destructor chain behind it;                     *)
(*   svc      is ApiController::service_thread_, which sits in             *)
(*            grpc::Server::Wait through GrpcTransport::runLoop;           *)
(*   Workers  are gRPC's callback threads, each running one                *)
(*            GrpcCallbackHandler method at a time, synchronously.         *)
(*                                                                         *)
(* SIGINT and SIGTERM only set Application::shutdown_requested_.           *)
(*                                                                         *)
(* A step is one access to state that another thread may touch.  Which     *)
(* operation an RPC asks for and the values it carries are left out (they  *)
(* are the subject of Requests); what matters here is the service and the  *)
(* instance it is routed to.                                               *)
(***************************************************************************)
EXTENDS FiniteSets, Naturals

CONSTANTS
  Workers,     \* gRPC callback threads: each runs one handler at a time
  Ids,         \* the camera_id values requests carry
  Configured   \* service -> ids of the instances in InfrastructureConfig

Services == {"camera", "video"}

ASSUME IdsAssumption == Ids # {}
ASSUME ConfiguredAssumption == Configured \in [Services -> SUBSET Ids]

VARIABLES
  main,               \* program counter of the main thread
  caller,             \* the operation whose nested stop() calls main is running
  exit,               \* what main() returns
  shutdownRequested,  \* Application::shutdown_requested_ (atomic)
  ctlRunning,         \* ApiController::is_running_ (atomic)
  svc,                \* program counter of ApiController::service_thread_
  server,             \* GrpcTransport::server_, and the state of what it owns
  tRunning,           \* GrpcTransport::is_running_
  handlerRunning,     \* RequestHandler::running_ (atomic)
  coreRunning,        \* Core::is_running_ (a plain bool)
  mgr,                \* Core::client_manager_ (a plain unique_ptr)
  clients,            \* GrpcClientManager::camera_clients_ and video_clients_
  wpc,                \* program counter of each worker
  wreq,               \* service and instance the worker's RPC is routed to
  wres                \* the result the worker will pass to reactor->Finish

mainVars   == <<main, caller, exit>>
serverVars == <<server, tRunning>>
coreVars   == <<handlerRunning, coreRunning, mgr, clients>>
workVars   == <<wpc, wreq, wres>>
vars == <<mainVars, shutdownRequested, ctlRunning, svc, serverVars, coreVars,
          workVars>>

-------------------------------------------------------------------------------
Requests == [service : Services, id : Ids]
AnyRequest == CHOOSE r \in Requests : TRUE
NoClients == [s \in Services |-> {}]

MainPCs == {"initialize", "handlerStart", "transportStart", "spawn", "run",
            "controllerStop", "transportStop", "drain", "reset", "handlerStop",
            "coreStop", "clearCamera", "clearVideo", "release", "join",
            "destroyManager", "exited", "aborted"}
Callers == {"main", "startAsync", "stop", "~ApiController", "~GrpcTransport",
            "~RequestHandler", "~Core"}
SvcPCs == {"none", "spawned", "checked", "waiting", "failed", "lost", "done"}
ServerStates == {"null", "serving", "draining", "drained"}
WorkerPCs == {"idle", "handler", "core", "lookup", "call", "finish"}
Results == {"none", "handlerNotRunning", "coreNotInitialized", "undefined",
            "notConfigured", "unavailable", "ok", "rpcError"}

\* The process has ended: main returned and everything is destroyed, or an
\* access to freed memory or an exception in a destructor killed it.
Ended == main \in {"exited", "aborted"}

Init ==
  /\ main = "initialize" /\ caller = "main" /\ exit = "none"
  /\ shutdownRequested = FALSE
  /\ ctlRunning = FALSE
  /\ svc = "none"
  /\ server = "null" /\ tRunning = FALSE
  /\ handlerRunning = FALSE /\ coreRunning = FALSE
  /\ mgr = "null" /\ clients = NoClients
  /\ wpc = [w \in Workers |-> "idle"]
  /\ wreq = [w \in Workers |-> AnyRequest]
  /\ wres = [w \in Workers |-> "none"]

-------------------------------------------------------------------------------
(* Control flow of the main thread.                                        *)

\* main continues at pc, inside the top-level operation who.
Goto(pc, who) == main' = pc /\ caller' = who

\* Fault: a stop that failed is tried once more.
ReturnRetriesStop(result) ==
  \/ /\ caller \in {"startAsync", "stop"}
     /\ IF caller = "stop" /\ result = "failure"
        THEN Goto("controllerStop", "stop") /\ UNCHANGED exit
        ELSE /\ exit' = IF caller = "stop" THEN result ELSE "failure"
             /\ Goto("controllerStop", "~ApiController")
  \/ /\ caller = "~ApiController"
     /\ Goto("join", caller)
     /\ UNCHANGED exit
  \/ /\ caller = "~RequestHandler"
     /\ Goto("coreStop", "~Core")
     /\ UNCHANGED exit
  \/ /\ caller = "~Core"
     /\ Goto("destroyManager", caller)
     /\ UNCHANGED exit

\* The top-level operation in progress returns result, and main goes on with
\* what follows it: main() returns and destroys the Application, or the next
\* member of the ApiController is destroyed.
Return(result) ==
  \/ /\ caller \in {"startAsync", "stop"}
     /\ exit' = IF caller = "stop" THEN result ELSE "failure"
     /\ Goto("controllerStop", "~ApiController")
  \/ /\ caller = "~ApiController"
     /\ Goto("join", caller)
     /\ UNCHANGED exit
  \/ /\ caller = "~RequestHandler"
     /\ Goto("coreStop", "~Core")
     /\ UNCHANGED exit
  \/ /\ caller = "~Core"
     /\ Goto("destroyManager", caller)
     /\ UNCHANGED exit

\* GrpcTransport::stop returned.  ApiController::stop goes on to the request
\* handler; after ~GrpcTransport the request handler is destroyed.
AfterTransportStop ==
  /\ Goto("handlerStop",
          IF caller = "~GrpcTransport" THEN "~RequestHandler" ELSE caller)
  /\ UNCHANGED exit

-------------------------------------------------------------------------------
(* Start.                                                                  *)

\* Application::initialize: the configuration is read and the objects are
\* built, or an exception becomes EXIT_FAILURE with no controller to destroy.
Initialize ==
  /\ main = "initialize"
  /\ \/ Goto("handlerStart", "startAsync") /\ UNCHANGED exit
     \/ Goto("exited", caller) /\ exit' = "failure"
  /\ UNCHANGED <<shutdownRequested, ctlRunning, svc, serverVars, coreVars,
                 workVars>>

\* Fault: RequestHandler::start forgets running_ = true.
HandlerStartForgetsRunning ==
  /\ main = "handlerStart"
  /\ ~coreRunning
  /\ mgr' = "present" /\ clients' = Configured
  /\ coreRunning' = TRUE
  /\ Goto("transportStart", caller)
  /\ UNCHANGED <<exit, shutdownRequested, ctlRunning, svc, serverVars,
                 handlerRunning, workVars>>

\* ApiController::startAsync calls RequestHandler::start, which calls
\* Core::start: a new client manager opens one client per configured instance.
HandlerStart ==
  /\ main = "handlerStart"
  /\ ~coreRunning
  /\ mgr' = "present" /\ clients' = Configured
  /\ coreRunning' = TRUE
  /\ handlerRunning' = TRUE
  /\ Goto("transportStart", caller)
  /\ UNCHANGED <<exit, shutdownRequested, ctlRunning, svc, serverVars, workVars>>

\* A channel or a stub cannot be created: initialize() calls shutdown() and
\* rethrows, Core::start reports an error and keeps the manager.  It has no
\* clients left, or some if this shutdown() throws itself (which ones, Instances
\* says).
HandlerStartFails ==
  /\ main = "handlerStart"
  /\ ~coreRunning
  /\ mgr' = "present"
  /\ \E kept \in [Services -> SUBSET Ids] :
       /\ \A s \in Services : kept[s] \subseteq Configured[s]
       /\ clients' = kept
  /\ Return("failure")
  /\ UNCHANGED <<shutdownRequested, ctlRunning, svc, serverVars, coreRunning,
                 handlerRunning, workVars>>

\* GrpcTransport::start: from BuildAndStart on the server takes RPCs.
TransportStart ==
  /\ main = "transportStart"
  /\ server' = "serving" /\ tRunning' = TRUE
  /\ Goto("spawn", caller)
  /\ UNCHANGED <<exit, shutdownRequested, ctlRunning, svc, coreVars, workVars>>

\* The port cannot be opened: startAsync stops the request handler again.
TransportStartFails ==
  /\ main = "transportStart"
  /\ server' = "null"
  /\ Goto("handlerStop", caller)
  /\ UNCHANGED <<exit, shutdownRequested, ctlRunning, svc, tRunning, coreVars,
                 workVars>>

\* startAsync marks the controller as running and creates the service thread.
Spawn ==
  /\ main = "spawn"
  /\ ctlRunning' = TRUE
  /\ svc' = "spawned"
  /\ Goto("run", "main")
  /\ UNCHANGED <<exit, shutdownRequested, serverVars, coreVars, workVars>>

\* Fault: the polling loop forgets shutdown_requested_.
RunIgnoresSignal ==
  /\ main = "run"
  /\ ~ctlRunning
  /\ Goto("controllerStop", "stop")
  /\ UNCHANGED <<exit, shutdownRequested, ctlRunning, svc, serverVars, coreVars,
                 workVars>>

\* Application::run polls until the controller stopped or a signal came.
Run ==
  /\ main = "run"
  /\ ~ctlRunning \/ shutdownRequested
  /\ Goto("controllerStop", "stop")
  /\ UNCHANGED <<exit, shutdownRequested, ctlRunning, svc, serverVars, coreVars,
                 workVars>>

-------------------------------------------------------------------------------
(* Stop, from Application::stop and again from every destructor.           *)

\* Fault: the request handler is stopped without stopping the transport first.
ControllerStopSkipsTransport ==
  /\ main = "controllerStop"
  /\ \/ ~ctlRunning /\ Return("success")
     \/ ctlRunning /\ Goto("handlerStop", caller) /\ UNCHANGED exit
  /\ ctlRunning' = FALSE
  /\ UNCHANGED <<shutdownRequested, svc, serverVars, coreVars, workVars>>

\* ApiController::stop: nothing to do unless is_running_.
ControllerStop ==
  /\ main = "controllerStop"
  /\ \/ ~ctlRunning /\ Return("success")
     \/ ctlRunning /\ Goto("transportStop", caller) /\ UNCHANGED exit
  /\ ctlRunning' = FALSE
  /\ UNCHANGED <<shutdownRequested, svc, serverVars, coreVars, workVars>>

\* GrpcTransport::stop up to the call of Shutdown: no RPC is accepted any more.
TransportStop ==
  /\ main = "transportStop"
  /\ \/ ~tRunning /\ AfterTransportStop /\ UNCHANGED server
     \/ /\ tRunning
        /\ server' = "draining"
        /\ Goto("drain", caller)
        /\ UNCHANGED exit
  /\ UNCHANGED <<shutdownRequested, ctlRunning, svc, tRunning, coreVars,
                 workVars>>

\* Fault: Shutdown gives up on handlers that are still running.
DrainAtDeadline ==
  /\ main = "drain"
  /\ server' = "drained"
  /\ Goto("reset", caller)
  /\ UNCHANGED <<exit, shutdownRequested, ctlRunning, svc, tRunning, coreVars,
                 workVars>>

\* Server::Shutdown returns once every handler has finished its call.  The
\* 30 s deadline cancels the calls towards the clients and no more: a handler
\* that is still running is waited for all the same.
Drain ==
  /\ main = "drain"
  /\ \A w \in Workers : wpc[w] = "idle"
  /\ server' = "drained"
  /\ Goto("reset", caller)
  /\ UNCHANGED <<exit, shutdownRequested, ctlRunning, svc, tRunning, coreVars,
                 workVars>>

\* server_.reset() destroys the server at once.  A service thread that has
\* passed the null test of runLoop and not yet left Wait uses a dead object.
Reset ==
  /\ main = "reset"
  /\ server' = "null" /\ tRunning' = FALSE
  /\ svc' = IF svc \in {"checked", "waiting"} THEN "lost" ELSE svc
  /\ AfterTransportStop
  /\ UNCHANGED <<shutdownRequested, ctlRunning, coreVars, workVars>>

\* Fault: running_ stays true while Core is stopped.
HandlerStopKeepsRunning ==
  /\ main = "handlerStop"
  /\ \/ ~handlerRunning /\ Return("success")
     \/ handlerRunning /\ Goto("coreStop", caller) /\ UNCHANGED exit
  /\ UNCHANGED <<shutdownRequested, ctlRunning, svc, serverVars, coreVars,
                 workVars>>

\* RequestHandler::stop up to the call of Core::stop.
HandlerStop ==
  /\ main = "handlerStop"
  /\ \/ ~handlerRunning /\ Return("success")
     \/ handlerRunning /\ Goto("coreStop", caller) /\ UNCHANGED exit
  /\ handlerRunning' = FALSE
  /\ UNCHANGED <<shutdownRequested, ctlRunning, svc, serverVars, coreRunning,
                 mgr, clients, workVars>>

\* Core::stop up to the call of GrpcClientManager::shutdown.
CoreStop ==
  /\ main = "coreStop"
  /\ \/ ~coreRunning /\ Return("success")
     \/ coreRunning /\ Goto("clearCamera", caller) /\ UNCHANGED exit
  /\ UNCHANGED <<shutdownRequested, ctlRunning, svc, serverVars, coreVars,
                 workVars>>

\* shutdownService destroys the clients of one service.
ClearClients(pc, s, next) ==
  /\ main = pc
  /\ clients' = [clients EXCEPT ![s] = {}]
  /\ Goto(next, caller)
  /\ UNCHANGED <<exit, shutdownRequested, ctlRunning, svc, serverVars,
                 handlerRunning, coreRunning, mgr, workVars>>

ClearCamera == ClearClients("clearCamera", "camera", "clearVideo")
ClearVideo  == ClearClients("clearVideo", "video", "release")

\* Fault: the exception is logged and the stop reported as a success.
ShutdownThrowsSwallowed ==
  /\ main \in {"clearCamera", "clearVideo", "release"}
  /\ Return("success")
  /\ UNCHANGED <<shutdownRequested, ctlRunning, svc, serverVars, coreVars,
                 workVars>>

\* An exception inside shutdown(), at "release" while it goes through the last
\* channels: Core::stop reports an error and Core keeps running with the clients
\* that were not cleared.
ShutdownThrows ==
  /\ main \in {"clearCamera", "clearVideo", "release"}
  /\ Return("failure")
  /\ UNCHANGED <<shutdownRequested, ctlRunning, svc, serverVars, coreVars,
                 workVars>>

\* Fault: the manager is deleted and the pointer kept.
ReleaseDangling ==
  /\ main = "release"
  /\ mgr' = "dangling" /\ coreRunning' = FALSE
  /\ Return("success")
  /\ UNCHANGED <<shutdownRequested, ctlRunning, svc, serverVars,
                 handlerRunning, clients, workVars>>

\* client_manager_.reset(), is_running_ = false, and the stop succeeded.
Release ==
  /\ main = "release"
  /\ mgr' = "null" /\ coreRunning' = FALSE
  /\ Return("success")
  /\ UNCHANGED <<shutdownRequested, ctlRunning, svc, serverVars,
                 handlerRunning, clients, workVars>>

\* Fault: the service thread is detached, not joined.
JoinDetaches ==
  /\ main = "join"
  /\ Goto("transportStop", "~GrpcTransport")
  /\ UNCHANGED <<exit, shutdownRequested, ctlRunning, svc, serverVars, coreVars,
                 workVars>>

\* ~ApiController destroys service_thread_ first: a jthread joins.  The
\* transport is destroyed next.
Join ==
  /\ main = "join"
  /\ svc \in {"none", "done"}
  /\ Goto("transportStop", "~GrpcTransport")
  /\ UNCHANGED <<exit, shutdownRequested, ctlRunning, svc, serverVars, coreVars,
                 workVars>>

\* The members of Core go last: ~GrpcClientManager clears what is left.
DestroyManager ==
  /\ main = "destroyManager"
  /\ mgr' = "null" /\ clients' = NoClients
  /\ Goto("exited", caller)
  /\ UNCHANGED <<exit, shutdownRequested, ctlRunning, svc, serverVars,
                 handlerRunning, coreRunning, workVars>>

\* ~GrpcClientManager calls shutdown() too, from client_manager_.reset() and at
\* the end: an exception in a destructor terminates the process.
ManagerThrows ==
  /\ main \in {"release", "destroyManager"}
  /\ mgr = "present"
  /\ Goto("aborted", caller)
  /\ UNCHANGED <<exit, shutdownRequested, ctlRunning, svc, serverVars, coreVars,
                 workVars>>

MainStep ==
  \/ Initialize \/ HandlerStart \/ HandlerStartFails \/ TransportStart
  \/ TransportStartFails \/ Spawn \/ Run \/ ControllerStop \/ TransportStop
  \/ Drain \/ Reset \/ HandlerStop \/ CoreStop \/ ClearCamera \/ ClearVideo
  \/ ShutdownThrows \/ Release \/ Join \/ DestroyManager
  \/ ManagerThrows

-------------------------------------------------------------------------------
(* The service thread: GrpcTransport::runLoop and the lambda around it.    *)

\* runLoop fails when it finds server_ null.
SvcCheck ==
  /\ svc = "spawned"
  /\ svc' = IF server = "null" THEN "failed" ELSE "checked"
  /\ UNCHANGED <<mainVars, shutdownRequested, ctlRunning, serverVars, coreVars,
                 workVars>>

SvcEnterWait ==
  /\ svc = "checked"
  /\ svc' = "waiting"
  /\ UNCHANGED <<mainVars, shutdownRequested, ctlRunning, serverVars, coreVars,
                 workVars>>

\* Wait returns when Shutdown is over, and runLoop with it.
SvcReturn ==
  /\ svc = "waiting"
  /\ server = "drained"
  /\ svc' = "done"
  /\ UNCHANGED <<mainVars, shutdownRequested, ctlRunning, serverVars, coreVars,
                 workVars>>

\* The lambda reports a failed run loop by clearing is_running_.
SvcFail ==
  /\ svc = "failed"
  /\ svc' = "done"
  /\ ctlRunning' = FALSE
  /\ UNCHANGED <<mainVars, shutdownRequested, serverVars, coreVars, workVars>>

SvcStep == SvcCheck \/ SvcEnterWait \/ SvcReturn \/ SvcFail

\* A thread that used the destroyed server: it returns all the same, it takes
\* the process with it, or (no fairness) it hangs.
SvcUndefined ==
  /\ svc = "lost" /\ ~Ended
  /\ \/ svc' = "done" /\ UNCHANGED mainVars
     \/ Goto("aborted", caller) /\ UNCHANGED <<exit, svc>>
  /\ UNCHANGED <<shutdownRequested, ctlRunning, serverVars, coreVars, workVars>>

-------------------------------------------------------------------------------
(* An RPC on a worker: GrpcCallbackHandler, RequestHandler, Core, client.  *)

\* The server hands an RPC to an idle callback thread.
Dispatch(w) ==
  /\ server = "serving"
  /\ wpc[w] = "idle"
  /\ wpc' = [wpc EXCEPT ![w] = "handler"]
  /\ \E r \in Requests : wreq' = [wreq EXCEPT ![w] = r]
  /\ UNCHANGED <<mainVars, shutdownRequested, ctlRunning, svc, serverVars,
                 coreVars, wres>>

\* Fault: an error branch returns without reactor->Finish.
BranchForgetsFinish(w, ok, next, error) ==
  /\ wpc'  = [wpc EXCEPT ![w] = IF ok THEN next ELSE @]
  /\ wres' = [wres EXCEPT ![w] = IF ok THEN @ ELSE error]
  /\ UNCHANGED <<mainVars, shutdownRequested, ctlRunning, svc, serverVars,
                 coreVars, wreq>>

\* The worker takes the branch of a test: on to pc next, or to Finish with an
\* error.
Branch(w, ok, next, error) ==
  /\ wpc'  = [wpc EXCEPT ![w] = IF ok THEN next ELSE "finish"]
  /\ wres' = [wres EXCEPT ![w] = IF ok THEN @ ELSE error]
  /\ UNCHANGED <<mainVars, shutdownRequested, ctlRunning, svc, serverVars,
                 coreVars, wreq>>

\* RequestHandler's gate: isRunning().
HandlerGate(w) ==
  /\ wpc[w] = "handler"
  /\ Branch(w, handlerRunning, "core", "handlerNotRunning")

\* Core's gate: isRunning().
CoreGate(w) ==
  /\ wpc[w] = "core"
  /\ Branch(w, coreRunning, "lookup", "coreNotInitialized")

\* client_manager_->get...Client(camera_id): no client of that service is an
\* exception, no client of that instance a null pointer, and both end in an
\* error result.  A null client_manager_ is not tested for.
LookupError(r) ==
  IF mgr = "null" THEN "undefined"
  ELSE IF clients[r.service] = {} THEN "notConfigured"
  ELSE "unavailable"

Lookup(w) ==
  /\ wpc[w] = "lookup"
  /\ Branch(w, mgr = "present" /\ wreq[w].id \in clients[wreq[w].service],
            "call", LookupError(wreq[w]))

\* The blocking stub call ends with the status of the backend or the channel.
CallReturns(w) ==
  /\ wpc[w] = "call"
  /\ wpc' = [wpc EXCEPT ![w] = "finish"]
  /\ \E r \in {"ok", "rpcError"} : wres' = [wres EXCEPT ![w] = r]
  /\ UNCHANGED <<mainVars, shutdownRequested, ctlRunning, svc, serverVars,
                 coreVars, wreq>>

\* reactor->Finish(status), and the callback thread is free again.
Finish(w) ==
  /\ wpc[w] = "finish"
  /\ wpc'  = [wpc EXCEPT ![w] = "idle"]
  /\ wreq' = [wreq EXCEPT ![w] = AnyRequest]
  /\ wres' = [wres EXCEPT ![w] = "none"]
  /\ UNCHANGED <<mainVars, shutdownRequested, ctlRunning, svc, serverVars,
                 coreVars>>

LocalStep(w) == HandlerGate(w) \/ CoreGate(w) \/ Lookup(w) \/ Finish(w)

-------------------------------------------------------------------------------
\* SIGINT or SIGTERM: signalHandler calls Application::requestShutdown.
Signal ==
  /\ ~Ended
  /\ shutdownRequested' = TRUE
  /\ UNCHANGED <<mainVars, ctlRunning, svc, serverVars, coreVars, workVars>>

Terminated == Ended /\ UNCHANGED vars

Next ==
  \/ MainStep
  \/ SvcStep
  \/ SvcUndefined
  \/ \E w \in Workers : Dispatch(w) \/ LocalStep(w) \/ CallReturns(w)
  \/ Signal
  \/ Terminated

Spec == Init /\ [][Next]_vars

\* The scheduler runs every thread that can run.  Clients, signals and the
\* outcome of an access to freed memory are not forced.
ThreadFairness ==
  /\ WF_vars(MainStep)
  /\ WF_vars(SvcStep)
  /\ \A w \in Workers : WF_vars(LocalStep(w))

\* The backends answer, or their connection fails: no blocking stub call lasts
\* for ever.  The code sets no deadline on a call, so this is an assumption on
\* the services behind it.
BackendFairness == \A w \in Workers : WF_vars(CallReturns(w))

ThreadFairSpec == Spec /\ ThreadFairness
FairSpec == ThreadFairSpec /\ BackendFairness

-------------------------------------------------------------------------------
(* Properties.                                                             *)

TypeOK ==
  /\ main \in MainPCs /\ caller \in Callers
  /\ exit \in {"none", "success", "failure"}
  /\ shutdownRequested \in BOOLEAN /\ ctlRunning \in BOOLEAN
  /\ svc \in SvcPCs
  /\ server \in ServerStates /\ tRunning \in BOOLEAN
  /\ handlerRunning \in BOOLEAN /\ coreRunning \in BOOLEAN
  /\ mgr \in {"null", "present"}
  /\ clients \in [Services -> SUBSET Ids]
  /\ wpc \in [Workers -> WorkerPCs]
  /\ wreq \in [Workers -> Requests]
  /\ wres \in [Workers -> Results]

\* A handler inside a stub call works on a client that GrpcClientManager still
\* owns: the raw pointer Core obtained is not outlived by its client, although
\* stop() destroys the clients without asking who uses them.
NoDanglingClient ==
  \A w \in Workers :
    wpc[w] = "call" =>
      /\ mgr = "present"
      /\ wreq[w].id \in clients[wreq[w].service]

\* Core's is_running_ and client_manager_ are plain members that main writes in
\* start() and stop() and that handlers read: no RPC is in progress while main
\* is about to write them.
NoRaceOnCore ==
  main \in {"handlerStart", "clearCamera", "clearVideo", "release",
            "destroyManager"}
    => \A w \in Workers : wpc[w] = "idle"

\* An RPC the server accepted is never turned away because a layer below is
\* not started yet or is stopped already, and meets no null manager.
AcceptedIsServed ==
  \A w \in Workers :
    wres[w] \notin {"handlerNotRunning", "coreNotInitialized", "undefined"}

\* EXIT_SUCCESS is the answer to a signal, with every layer stopped: a failed
\* start, a failed stop and a run loop that ended early do not report success.
SuccessMeansStopped ==
  exit = "success" =>
    /\ shutdownRequested
    /\ server = "null" /\ ~tRunning
    /\ ~handlerRunning /\ ~coreRunning
    /\ mgr = "null" /\ clients = NoClients

\* Nothing outlives a main that comes to its end: there is no server, no client,
\* no handler in progress and no service thread then, whichever way the start or
\* the stop went.
CleanExit ==
  main = "exited" =>
    /\ server = "null" /\ mgr = "null" /\ clients = NoClients
    /\ svc \in {"none", "done"}
    /\ \A w \in Workers : wpc[w] = "idle"

\* main joins a service thread that ends by itself: the server it waits for is
\* gone by then, also after a start or a stop that failed.  Owners that start a
\* controller twice have no such promise (DestructorStopsTransport).
JoinMeetsNoWait ==
  main = "join" => server = "null" /\ svc \notin {"checked", "waiting"}

\* The order of main's operations, and of the places within one of them.
Operations == <<"startAsync", "main", "stop", "~ApiController", "~GrpcTransport",
                "~RequestHandler", "~Core">>
Route == <<"handlerStart", "transportStart", "spawn", "run", "controllerStop",
           "transportStop", "drain", "reset", "handlerStop", "coreStop",
           "clearCamera", "clearVideo", "release", "join", "destroyManager">>
Position(x, order) == CHOOSE i \in DOMAIN order : order[i] = x

\* Between initialize() and its end main never comes back to a place it left,
\* although the same stop() runs for Application::stop and for each destructor
\* behind it: with finitely many steps of its own, it ends unless one of its
\* waits does not.
MainGoesForward ==
  [][<<main, caller>>' # <<main, caller>> =>
       /\ ~Ended /\ main' # "initialize"
       /\ main # "initialize" /\ ~Ended' =>
            \/ Position(caller', Operations) > Position(caller, Operations)
            \/ /\ caller' = caller
               /\ Position(main', Route) > Position(main, Route)]_vars

\* Layers go down from the top: the request handler stops accepting only when
\* the server is gone, and Core lets its clients go only when the request
\* handler stopped.
TeardownOrder ==
  [][/\ (handlerRunning /\ ~handlerRunning') => server = "null"
     /\ clients' # clients => ~handlerRunning]_vars

\* The three layers together keep the promise of Service: a request is accepted
\* only when everything below the server stands, and nothing below is taken
\* down before the server answered the last one.
ready == handlerRunning /\ coreRunning /\ mgr = "present" /\ clients = Configured
phase == CASE server = "serving"  -> "open"
           [] server = "draining" -> "closing"
           [] OTHER               -> "closed"
open == {w \in Workers : wpc[w] # "idle"}

Promise == INSTANCE Service
ImplementsService == Promise!Spec

\* The process is an owner of Controller that starts it once: what is proved of
\* the class in any sequence of calls holds in the process.  Controller does not
\* have ManagerThrows: a process that ends so stays inside Core's stop, or has
\* destroyed its controller.
terminated == main = "aborted" /\ svc # "lost"
ctlOwner ==
  CASE terminated -> IF caller = "~Core" THEN "destroyed" ELSE "coreStop"
    [] main \in {"initialize", "handlerStart", "run", "controllerStop"} -> "idle"
    [] main \in {"coreStop", "clearCamera", "clearVideo", "release"} -> "coreStop"
    [] main = "destroyManager" -> "destroyed"
    [] main = "exited" -> IF caller = "main" THEN "idle" ELSE "destroyed"
    [] OTHER -> main
ctlCore ==
  IF ~coreRunning \/ (main = "aborted" /\ svc = "lost") THEN "stopped"
  ELSE IF handlerRunning \/ (ctlOwner = "coreStop" /\ caller # "~Core") THEN "running"
  ELSE "broken"

Class == INSTANCE Controller WITH
  Threads  <- {"svc"},
  NoThread <- "none",
  owner    <- ctlOwner,
  op       <- IF ctlOwner \in {"idle", "aborted"} THEN "none" ELSE caller,
  thread   <- [t \in {"svc"} |-> svc],
  current  <- IF svc = "none" THEN "none" ELSE "svc",
  old      <- "none",
  core     <- ctlCore,
  patient  <- FALSE
UsesController == Class!Spec

\* runLoop on a started server ends with success when stop() is called: it
\* neither finds the server gone already nor has it destroyed under its Wait.
RunLoopSucceeds == svc \notin {"failed", "lost"}

\* A requested shutdown, and a failed start, end the process.  Once the
\* service thread used a destroyed server nothing is promised.
ProcessEnds ==
  (shutdownRequested \/ exit # "none") ~> (Ended \/ svc = "lost")

\* Every accepted RPC is answered, in particular those in progress when the
\* shutdown begins.
EveryRequestFinishes ==
  \A w \in Workers : (wpc[w] # "idle") ~> (wpc[w] = "idle")

===============================================================================
