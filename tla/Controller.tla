------------------------------- MODULE Controller -------------------------------
(***************************************************************************)
(* ApiController as a class: an owner calls startAsync() and stop() in any *)
(* order, as often as it likes, and destroys the object in the end.        *)
(* GrpcTransport and RequestHandler with its Core are what it starts and   *)
(* stops.  Every start creates a new service thread and joins the thread   *)
(* of the start before it, which may not even have looked at server_ yet.  *)
(*                                                                         *)
(* One owner thread, as in the program.  Requests are left out: Lifecycle  *)
(* has them, and shows that the process is an owner of this class that     *)
(* starts once.                                                            *)
(***************************************************************************)
CONSTANTS
  Threads,    \* service threads: two exist while a start joins the last one
  NoThread    \* service_thread_ holds no thread

ASSUME ThreadsAssumption == NoThread \notin Threads

VARIABLES
  owner,           \* program counter of the owner
  op,              \* the call, or the destructor, the owner is in
  ctlRunning,      \* ApiController::is_running_ (atomic)
  thread,          \* program counter of each service thread
  current,         \* the thread service_thread_ holds
  old,             \* the thread a start is joining
  server,          \* GrpcTransport::server_, and the state of what it owns
  tRunning,        \* GrpcTransport::is_running_
  handlerRunning,  \* RequestHandler::running_
  core,            \* Core: stopped, running, or running after a failed stop
  patient          \* the owner stops only once the run loop is inside Wait

ownerVars  == <<owner, op>>
threadVars == <<thread, current, old>>
serverVars == <<server, tRunning>>
layerVars  == <<handlerRunning, core>>
vars == <<ownerVars, ctlRunning, threadVars, serverVars, layerVars, patient>>

-------------------------------------------------------------------------------
OwnerPCs == {"idle", "transportStart", "spawn", "joinOld", "transportStop",
             "drain", "reset", "handlerStop", "coreStop", "join", "destroyed",
             "aborted"}
Ops == {"none", "startAsync", "stop", "~ApiController",
        "~GrpcTransport", "~RequestHandler", "~Core"}
ThreadPCs == {"none", "spawned", "checked", "waiting", "failed", "lost", "done"}

\* The object, or the whole process, is gone.
Ended == owner \in {"destroyed", "aborted"}

Init ==
  /\ owner = "idle" /\ op = "none"
  /\ ctlRunning = FALSE
  /\ thread = [t \in Threads |-> "none"]
  /\ current = NoThread /\ old = NoThread
  /\ server = "null" /\ tRunning = FALSE
  /\ handlerRunning = FALSE /\ core = "stopped"
  /\ patient \in BOOLEAN

Goto(pc, who) == owner' = pc /\ op' = who

\* The call in progress returns, or the destructor goes on.
Return ==
  \/ op \in {"startAsync", "stop"} /\ Goto("idle", "none")
  \/ op = "~ApiController"  /\ Goto("join", op)
  \/ op = "~RequestHandler" /\ Goto("coreStop", "~Core")
  \/ op = "~Core"           /\ Goto("destroyed", op)

\* GrpcTransport::stop returned.
AfterTransportStop ==
  Goto("handlerStop", IF op = "~GrpcTransport" THEN "~RequestHandler" ELSE op)

\* What destroying the server does to threads that use it: one inside Wait has
\* lost it, one on the way from the null test to Wait may have read the pointer.
Destroyed(lost) ==
  /\ \A t \in lost : thread[t] \in {"checked", "waiting"}
  /\ \A t \in Threads : thread[t] = "waiting" => t \in lost
  /\ thread' = [t \in Threads |-> IF t \in lost THEN "lost" ELSE thread[t]]

-------------------------------------------------------------------------------
(* startAsync.                                                             *)

\* Fault: Core::start does not ask whether it runs already.
HandlerStartAgain ==
  /\ owner = "idle"
  /\ core' = "running" /\ handlerRunning' = TRUE
  /\ Goto("transportStart", "startAsync")
  /\ UNCHANGED <<ctlRunning, threadVars, serverVars, patient>>

\* RequestHandler::start.  With Core running already, or without a client, it
\* fails and so does startAsync, with nothing changed.
HandlerStart ==
  /\ owner = "idle"
  /\ core = "stopped"
  /\ core' = "running" /\ handlerRunning' = TRUE
  /\ Goto("transportStart", "startAsync")
  /\ UNCHANGED <<ctlRunning, threadVars, serverVars, patient>>

\* BuildAndStart opens the port, which no other server of ours may hold.
TransportStart ==
  /\ owner = "transportStart"
  /\ server = "null"
  /\ server' = "serving" /\ tRunning' = TRUE
  /\ Goto("spawn", op)
  /\ UNCHANGED <<ctlRunning, threadVars, layerVars, patient>>

\* BuildAndStart fails and its null pointer replaces server_, whatever that
\* was; the request handler is stopped again.
TransportStartFails ==
  /\ owner = "transportStart"
  /\ server' = "null"
  /\ \E lost \in SUBSET Threads : Destroyed(lost)
  /\ Goto("handlerStop", op)
  /\ UNCHANGED <<ctlRunning, current, old, tRunning, layerVars, patient>>

\* is_running_ is set and the new thread runs; assigning it to service_thread_
\* joins the thread that was there.
Spawn ==
  /\ owner = "spawn"
  /\ ctlRunning' = TRUE
  /\ \E t \in Threads \ {current} :
       /\ thread[t] \in {"none", "done"}
       /\ thread' = [thread EXCEPT ![t] = "spawned"]
       /\ current' = t
  /\ old' = current
  /\ IF current = NoThread THEN Goto("idle", "none") ELSE Goto("joinOld", op)
  /\ UNCHANGED <<serverVars, layerVars, patient>>

JoinOld ==
  /\ owner = "joinOld"
  /\ thread[old] = "done"
  /\ old' = NoThread
  /\ Goto("idle", "none")
  /\ UNCHANGED <<ctlRunning, thread, current, serverVars, layerVars, patient>>

-------------------------------------------------------------------------------
(* stop and the destructor, which calls it.                                *)

\* Fault: is_running_ is left set.
ControllerStopKeepsRunning ==
  /\ owner = "idle"
  /\ ctlRunning
  /\ patient => thread[current] = "waiting"
  /\ \E who \in {"stop", "~ApiController"} : Goto("transportStop", who)
  /\ UNCHANGED <<ctlRunning, threadVars, serverVars, layerVars, patient>>

\* ApiController::stop of a running controller.
ControllerStop ==
  /\ owner = "idle"
  /\ ctlRunning
  /\ patient => thread[current] = "waiting"
  /\ \E who \in {"stop", "~ApiController"} : Goto("transportStop", who)
  /\ ctlRunning' = FALSE
  /\ UNCHANGED <<threadVars, serverVars, layerVars, patient>>

\* ~ApiController of a controller that does not run: its stop() has nothing to
\* do.  (A stop() of such a controller is no step at all.)
DestroyStopped ==
  /\ owner = "idle"
  /\ ~ctlRunning
  /\ Goto("join", "~ApiController")
  /\ UNCHANGED <<ctlRunning, threadVars, serverVars, layerVars, patient>>

\* Fault: the server is not shut down.
TransportStopSkips ==
  /\ owner = "transportStop"
  /\ AfterTransportStop
  /\ UNCHANGED <<ctlRunning, threadVars, serverVars, layerVars, patient>>

\* GrpcTransport::stop up to the call of Shutdown.
TransportStop ==
  /\ owner = "transportStop"
  /\ \/ /\ tRunning /\ server # "null"
        /\ server' = "draining"
        /\ Goto("drain", op)
        /\ UNCHANGED tRunning
     \/ /\ ~(tRunning /\ server # "null")
        /\ tRunning' = FALSE
        /\ AfterTransportStop
        /\ UNCHANGED server
  /\ UNCHANGED <<ctlRunning, threadVars, layerVars, patient>>

\* Shutdown returned.
Drain ==
  /\ owner = "drain"
  /\ server' = "drained"
  /\ Goto("reset", op)
  /\ UNCHANGED <<ctlRunning, threadVars, tRunning, layerVars, patient>>

\* Fault: the server is deleted and the pointer kept.
ResetDangling ==
  /\ owner = "reset"
  /\ server' = "dangling" /\ tRunning' = FALSE
  /\ \E lost \in SUBSET Threads : Destroyed(lost)
  /\ AfterTransportStop
  /\ UNCHANGED <<ctlRunning, current, old, layerVars, patient>>

Reset ==
  /\ owner = "reset"
  /\ server' = "null" /\ tRunning' = FALSE
  /\ \E lost \in SUBSET Threads : Destroyed(lost)
  /\ AfterTransportStop
  /\ UNCHANGED <<ctlRunning, current, old, layerVars, patient>>

HandlerStop ==
  /\ owner = "handlerStop"
  /\ \/ ~handlerRunning /\ Return
     \/ handlerRunning /\ Goto("coreStop", op)
  /\ handlerRunning' = FALSE
  /\ UNCHANGED <<ctlRunning, threadVars, serverVars, core, patient>>

CoreStop ==
  /\ owner = "coreStop"
  /\ Return
  /\ core' = "stopped"
  /\ UNCHANGED <<ctlRunning, threadVars, serverVars, handlerRunning, patient>>

\* An exception: Core still runs, over the clients that are left.
CoreStopFails ==
  /\ owner = "coreStop"
  /\ core # "stopped"
  /\ Return
  /\ core' = "broken"
  /\ UNCHANGED <<ctlRunning, threadVars, serverVars, handlerRunning, patient>>

\* Fault: the service thread is detached, not joined.
JoinDetaches ==
  /\ owner = "join"
  /\ Goto("transportStop", "~GrpcTransport")
  /\ UNCHANGED <<ctlRunning, threadVars, serverVars, layerVars, patient>>

\* ~ApiController destroys service_thread_, which joins, then the transport.
Join ==
  /\ owner = "join"
  /\ current # NoThread => thread[current] = "done"
  /\ Goto("transportStop", "~GrpcTransport")
  /\ UNCHANGED <<ctlRunning, threadVars, serverVars, layerVars, patient>>

\* The steps of a call in progress.
CallStep ==
  \/ TransportStart \/ TransportStartFails \/ Spawn \/ JoinOld
  \/ TransportStop \/ Drain \/ Reset \/ HandlerStop \/ CoreStop \/ CoreStopFails
  \/ Join

OwnerCalls == HandlerStart \/ ControllerStop \/ DestroyStopped

-------------------------------------------------------------------------------
(* A service thread: GrpcTransport::runLoop and the lambda around it.      *)

ThreadMoves(t, pc) ==
  /\ thread' = [thread EXCEPT ![t] = pc]
  /\ UNCHANGED <<current, old, serverVars, layerVars, patient>>

SvcCheck(t) ==
  /\ thread[t] = "spawned"
  /\ ThreadMoves(t, IF server = "null" THEN "failed" ELSE "checked")
  /\ UNCHANGED <<ownerVars, ctlRunning>>

\* server_->Wait() reads server_ a second time, and may find none, or the one
\* of a later start.
SvcEnterWait(t) ==
  /\ thread[t] = "checked"
  /\ ThreadMoves(t, IF server = "null" THEN "lost" ELSE "waiting")
  /\ UNCHANGED <<ownerVars, ctlRunning>>

SvcReturn(t) ==
  /\ thread[t] = "waiting"
  /\ server = "drained"
  /\ ThreadMoves(t, "done")
  /\ UNCHANGED <<ownerVars, ctlRunning>>

\* Fault: a failed run loop is tried again.
SvcFailRetries(t) ==
  /\ thread[t] = "failed"
  /\ ThreadMoves(t, "spawned")
  /\ ctlRunning' = FALSE
  /\ UNCHANGED ownerVars

\* The lambda clears is_running_, whichever start it belongs to.
SvcFail(t) ==
  /\ thread[t] = "failed"
  /\ ThreadMoves(t, "done")
  /\ ctlRunning' = FALSE
  /\ UNCHANGED ownerVars

SvcStep(t) == SvcCheck(t) \/ SvcEnterWait(t) \/ SvcReturn(t) \/ SvcFail(t)

\* A thread that used a destroyed server: it returns all the same, it takes the
\* process with it, or (no fairness) it hangs.
SvcUndefined(t) ==
  /\ thread[t] = "lost" /\ ~Ended
  /\ \/ ThreadMoves(t, "done") /\ UNCHANGED <<ownerVars, ctlRunning>>
     \/ /\ Goto("aborted", "none")
        /\ core' = "stopped"
        /\ UNCHANGED <<ctlRunning, threadVars, serverVars, handlerRunning, patient>>

-------------------------------------------------------------------------------
\* The owner waits for a service thread that waits for a server nobody stops.
Blocked ==
  /\ server = "serving"
  /\ \/ owner = "joinOld" /\ thread[old] = "waiting"
     \/ owner = "join" /\ current # NoThread /\ thread[current] = "waiting"

\* The places where nothing goes on.
Halted == (Ended \/ Blocked) /\ UNCHANGED vars

Next ==
  \/ OwnerCalls \/ CallStep
  \/ \E t \in Threads : SvcStep(t) \/ SvcUndefined(t)
  \/ Halted

Spec == Init /\ [][Next]_vars

\* The owner goes on with a call it made and every service thread runs.  Drain
\* is among the steps: the handlers in progress end (Lifecycle looks into that).
Fairness ==
  /\ WF_vars(CallStep)
  /\ \A t \in Threads : WF_vars(SvcStep(t))

FairSpec == Spec /\ Fairness

-------------------------------------------------------------------------------
(* Properties.                                                             *)

TypeOK ==
  /\ owner \in OwnerPCs /\ op \in Ops
  /\ ctlRunning \in BOOLEAN
  /\ thread \in [Threads -> ThreadPCs]
  /\ current \in Threads \cup {NoThread} /\ old \in Threads \cup {NoThread}
  /\ server \in {"null", "serving", "draining", "drained"}
  /\ tRunning \in BOOLEAN
  /\ handlerRunning \in BOOLEAN /\ core \in {"stopped", "running", "broken"}
  /\ patient \in BOOLEAN

\* GrpcTransport::start is never called on a transport that has a server, which
\* it would destroy.  What prevents it is Core, three classes away: it refuses
\* to start while it runs, and it runs as long as there is a server.
NeverStartedTwice ==
  owner = "transportStart" => server = "null" /\ ~tRunning

\* Between two calls, a controller that says it runs has a server over a request
\* handler and a Core that were started completely, after however many starts
\* and stops and whichever of them failed.
RunningMeansServing ==
  (owner = "idle" /\ ctlRunning) =>
    /\ server = "serving" /\ tRunning
    /\ handlerRunning /\ core = "running"
    /\ current # NoThread

\* An owner that stops only after the run loop has entered Wait is never blocked
\* by a join, in any sequence of starts and stops.
PatientNeverBlocks == patient => ~Blocked

\* A destroyed controller leaves no server, no started layer that was not broken
\* before, and no service thread that still runs.
CleanDestroy ==
  owner = "destroyed" =>
    /\ server = "null" /\ ~tRunning /\ ~handlerRunning /\ core # "running"
    /\ \A t \in Threads : thread[t] \in {"none", "done"}

\* Every startAsync, stop and destructor returns, unless a join is blocked or a
\* service thread lost the server it waited for.
CallsReturn ==
  (owner # "idle") ~>
    \/ owner = "idle" \/ Ended
    \/ Blocked
    \/ \E t \in Threads : thread[t] = "lost"

\* When the destructor joins the service thread, its stop() has stopped the
\* server that thread waits for.
DestructorStopsTransport == owner = "join" => server # "serving"
===============================================================================
