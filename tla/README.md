# Verification of sensor-core

sensor-core is a gRPC server (`core.v1.CoreService`, fifteen RPCs) in front of
camera and video services. A request names a `camera_id`; the program looks up
the client of that instance and makes one blocking call to it. There is little
data in the program. What can go wrong in it is order: objects that are started
and stopped by one thread and used by others, calls that nobody waits for any
more, and configuration that decides where a request goes.

## The system

| Part | State | Operations |
|---|---|---|
| `main`, `Application` | `shutdown_requested_`, the configuration, the controller | `initialize`, `start`, `run` (polls every 500 ms), `stop`, destructor; `signalHandler` sets `shutdown_requested_` |
| `ApiController` | `is_running_`, `service_thread_`, and it owns the request handler and the transport | `startAsync`, `stop`, destructor (calls `stop`, then destroys the thread, the transport and the handler in this order) |
| `GrpcTransport` | `server_`, `is_running_` | `start`, `stop` (Shutdown, reset), `runLoop` (Wait), destructor |
| `GrpcCallbackHandler` | none | fifteen RPC methods, each synchronous on a callback thread |
| `RequestHandler` | `running_`, owns Core | `start`, `stop`, one operation per RPC, gated by `running_` |
| `Core` | `is_running_`, `client_manager_` | `start`, `stop`, one operation per RPC, gated by `is_running_` |
| `GrpcClientManager`, `InstanceRouter` | two maps of channels, two maps of clients | `initialize`, `shutdown`, lookup |
| `CameraServiceClient`, `VideoServiceClient` | a stub | one blocking call per operation |
| `ConfigManager` | the parsed file | load and validate, once |
| `ApiControllerFactory`, `NetworkUtils` | none | choose the address to listen at, build the controller |
| `LoggerRegistry`, `SpdLogAdapter` | the adapter of each scope and its level | configure, once at the first use and once from the file |
| `Result`, types, `CoreFactory` | none | helpers |

Threads: main; the service thread inside `grpc::Server::Wait`; gRPC's callback
threads, which run the handlers; and the signal handler. Calls go down the
layers, results come back up, and there is no queue and no callback between
layers. Shared state without a lock: `server_` (main and the service thread),
`client_manager_`, `is_running_` of Core and the client maps (main and the
handlers). `running_`, `ApiController::is_running_` and `shutdown_requested_` are
atomic.

What is hard to get right, and what makes each part correct:

* start and stop: the layers stand before the server accepts, and stand until the
  last handler is done, on every path (a failed start, a failed stop, a run loop
  that ends early, the destructor chain after any of them);
* the raw client pointer a handler holds during a call of unbounded length;
* the service thread, which waits on an object that main destroys;
* termination, which depends on the backends;
* requests whose client gave up, whose connection broke or whose backend refused:
  no effect twice, none at the wrong instance, no acknowledged effect lost;
* a configuration that is accepted routes every `camera_id` to the instance meant;
* a controller that is stopped and started again, while the service thread of the
  start before still runs and still writes to it;
* the address, chosen once from interfaces that change, and chosen again by the
  next process.

`PROJECT.json` lists the hazards one by one, with their lines.

## The modules

| Module | Models |
|---|---|
| `Lifecycle` | the process from `Application::initialize` to the end of the destructors: main, the service thread, the handlers on the callback threads, signals |
| `Service` | what the layers promise each other about requests, abstractly |
| `LifecycleProofs`, `ServiceProofs` | the theorems about `Lifecycle` and `Service` |
| `ControllerProofs`, `UsesControllerProofs` | the theorems about `Controller`, and that `Lifecycle` implements it |
| `RequestsProofs`, `InstancesProofs`, `StartupProofs` | the theorems about `Requests`, `Instances` and `Startup` |
| `Requests` | an RPC from the client through all layers to the backend register and back, with clients that give up and networks that fail |
| `Registers` | the backends as atomic registers: what a client may conclude from an answer |
| `Instances` | from the file through validation and client creation to routing |
| `Controller` | `ApiController` as a class: starts, stops and failures of both in any order, the threads of two starts at a time, the destructor |
| `Startup` | from the file to the address and the loggers: `Application::initialize`, the factory, the choice of the interface, the bind, and the same again in the next process |
| `MCLifecycle`, `MCRequests`, `MCInstances`, `MCController`, `MCStartup` | the constants of the runs |

`Lifecycle` and `Requests` look at the same path from two sides. `Lifecycle`
keeps only where a request goes and has every gate; `Requests` assumes that the
gates are open (which is what `AcceptedIsServed` proves) and has the operations,
their values and the backends. `Instances` is the sequential part that fills the
maps both of them read. `Controller` is the middle of `Lifecycle` without the
requests and with an owner that may do more than `main` does; `UsesController`
says that `Lifecycle` implements it. `Startup` is what is behind the one step
`Initialize` of `Lifecycle`, and the address that `TransportStart` opens.

### Lifecycle

`main` is a program counter over the nested calls. `caller` says which top-level
operation the nested `stop()`s belong to: `startAsync`, `Application::stop` or one
of the destructors, which all run the same code and differ in where they return.
One action stands for the code between two accesses that another thread can see:
`RequestHandler::start` and `Core::start` are one (no server exists yet), the body
of `Core::stop` is five. `Return` translates what the code does with a result:
`startAsync`'s error and `stop`'s error end in `EXIT_FAILURE`, a destructor only
logs. A handler passes `HandlerGate`, `CoreGate`, `Lookup`, `CallReturns`,
`Finish`; it may be overtaken anywhere.

Undefined behaviour is a choice: a service thread that used a destroyed server is
`lost`, and then it returns, takes the process with it or hangs.
`Drain` follows gRPC's contract: `Shutdown` with a deadline cancels the
calls towards the clients at the deadline and still waits for handlers that run.

Three exceptions are modelled: creating a channel or stub (`HandlerStartFails`,
with any part of the clients left if the clean-up throws as well), inside
`shutdown` (`ShutdownThrows`, at any place of it), and inside the `shutdown` that
`~GrpcClientManager` calls (`ManagerThrows`): a destructor that throws terminates the
process, which is then `aborted` and not `exited`. The section "Not modelled" names
those that are not.

### Requests

`worker` is the state of a callback thread: `routing` (in the layers), `sent` (in
the stub call, the backend has not seen it), `taken` or `refused` (the backend
has answered), `answering`. A backend is a set of registers
`<<service, id, attribute>>`. `GiveUp` is the client's deadline or cancellation:
the handler does not notice. `Disconnect` is a broken backend connection: the
stub call returns an error while a write may stay on the wire (`orphan`) and
arrive `Late`, or never. `settled` is a history variable: it remembers the value
of an acknowledged write that had its register for itself.

The table `Operation` is the routing of the fifteen RPCs. `goToMinZoom` and
`goToMaxZoom` of Core are `setZoom` of a constant; the methods of that name in the
client are never called. The capability names of the video service are one
capability here: the code passes the name on and never looks at it.

### Instances

A client section is a sequence of entries, since yaml-cpp iterates a map with a
repeated key over all its pairs and `emplace` decides which one counts. An entry
has a list of instances, one address (the legacy form, id 0), or neither. `at` is
the position of `initializeService` in the two lists; a client and its channel
are two steps with a possible failure before each. `shutdown` is four calls of
`clear()`, and `Shutdown(n)` is what the first `n` of them do. A start that failed is
`failed` when its clean-up was complete and `leaking` when that threw. A stop that
failed (`StopFails`) leaves Core `broken`: it refuses every start, and what goes on is
a further stop, that of `~Core`, which may fail again.

Ids are `"0"` and `"1"`; an address is well formed or not; a field may be missing.
A file whose client section is missing altogether is the empty section.

### Controller

`owner` is the program counter of the thread that uses the object and `op` the call
it is in. Between two calls (`idle`) it may start (`HandlerStart`), stop
(`ControllerStop`) or destroy the object; a start that Core refuses and a stop of a
stopped controller change nothing and are no steps. `service_thread_` is
`current`; a start that replaces it waits for `old` (`JoinOld`). A thread reads
`server_` twice, in `SvcCheck` and in `SvcEnterWait`, and may meet the server of a
later start. `core` is `broken` after an exception in `Core::stop`: Core then says it
runs and refuses every start.

A join can wait for ever for a thread that waits for a server nobody stops
(`Blocked`). That is what the code does and not an error of the model, so it is
a state where nothing goes on, like the end (`Halted`); which owners never get
there is `PatientNeverBlocks`. `patient` is chosen at the start: an owner that
calls `stop()` only when the run loop has entered `Wait`.

### Startup

One thread, in the order of `initialize()`: `LoadConfig`, `ConfigureLogger`,
`CreateController` (or `CreateFails`), then `Listen`. An interface is the pair of
its prefix and the rest of its name, which is what `get_priority` looks at; it has
one IPv4 address or none. `Change` is what happens to interfaces outside, `Launch`
the next process, which has nothing but the file. Three variables are history.
`last` is the last choice. `untouched` says that no interface changed since. `quiet`
says that the chosen one had no equal in the order the comment gives
(`eth0 > ethX > wlan0 > wlanX > others`, `Place`, written down apart from `Rank`) and
that since then only interfaces behind it changed.

`std::sort` does not keep the order of equals, so among interfaces of the best
rank any may be first (`Primary`). The same list sorted again gives the same first,
though: `getifaddrs` reports interfaces that did not change in the same order, and
the sort is a function of its input. `CreateController` therefore chooses freely
only when something changed. So with two equal interfaces (`enp3s0`, `enp4s0`) the
address stands as long as nothing changes, and may move with any change at all, also
of an interface behind both; `WorseInterfaceNeverMoves` promises the first
and nothing about the second.

## The runs

| Run | Bounds | Shows |
|---|---|---|
| `lifecycle_safety` | 2 handlers, 2 ids, both services with one instance | type; `NoDanglingClient`, `NoRaceOnCore`, `AcceptedIsServed`, `SuccessMeansStopped`, `CleanExit`, `JoinMeetsNoWait`, `TeardownOrder`, `MainGoesForward`; the refinements `ImplementsService` and `UsesController`; under fairness `ProcessEnds` and `EveryRequestFinishes` |
| `lifecycle_runloop` | 2 handlers, 2 ids, one service with one instance, one service empty | violation: `runLoop` against `stop` |
| `lifecycle_slow_backend` | the same as `lifecycle_runloop`, backends need not answer | violation: the process does not end |
| `controller_restart` | any number of starts and stops, 2 service threads | type; `NeverStartedTwice`, `RunningMeansServing`, `PatientNeverBlocks`, `CleanDestroy`; under fairness `CallsReturn` |
| `controller_destroy` | the same | violation: the destructor waits for a server it does not stop |
| `requests_writes` | 2 clients, 2 handlers, 1 camera; SetZoom, GetZoom, GoToMinZoom; 2 levels | type; `OneHandlerPerClient`, `AcknowledgedWriteStands`, `ImplementsRegisters` |
| `requests_slow` | 2 clients, 2 handlers, no video service, 3 ids: a camera that answers, one that need not, none; GetCapabilities, GetVideoCapabilities | `ImplementsRegisters` for reads, for requests without a client and for lists that are filtered; under fairness `HealthyIsAnswered` |
| `instances_routing` | 18361 sections: 0 to 2 entries, 3 names, 0 to 2 instances each | type; `RoutesAsConfigured`, `CameraAndVideoMatch`, `ChannelsBelongToClients`, with a `shutdown` that may throw at each place |
| `instances_every` | the same | violation: repeated ids |
| `instances_zero` | the same | violation: camera instance 0 |
| `startup_addresses` | lo and 7 interfaces, of each rank one and of one rank two, 2 addresses; 8 files; any number of processes | type; `AcceptedApiIsKnown`, `LoggerFollowsFile`, `WorseInterfaceNeverMoves` |
| `startup_readme` | the same | violation: the README's client does not reach the service |

Why the bounds are enough. Handlers do not share state in `Lifecycle`, so two of
them give every pair (one in a call, one arriving); the proofs below cover any
number. Two ids and two services give the three outcomes of a lookup: found, not
this instance, and, once the maps are cleared, no instance at all. In `Requests` two writers and a late write of
each are three writes to one register at once; a third client would repeat what
one of them does after giving up. At most one write per worker stays on the wire
(the guard of `Disconnect`): a further loss is a lost request. The two symmetric
sets are used only in the run without liveness. In `Instances` a rule about
repetition needs two of a kind, and there are two entries, two instances and two
ids. In `Controller` a start joins the thread before it returns, so at most two
service threads exist at a time. In
`requests_slow` the other client, or what a client gave up, can hold one thread or
both at the instance that does not answer; the requests are reads, since the kind of
a request has no part in who waits for whom and reads leave nothing on the wire.
The fifteen RPCs go through the same steps and differ in the register (`Operation`);
the runs have five of them and `RequestsImplementRegisters` all, at any level. In
`Startup` there is an interface of each rank and a second one of one of them, which
is a tie, and two addresses are enough to tell a change from none. There are no counters and no other bounds.

No run switches deadlock checking off: `Terminated`, `Rejected` and `Halted` are
explicit steps at the end of the process or the object (and, in `Controller`, at
the join that is described above), so any other state from which nothing goes on
is reported.

### What the violations show

* `RunLoopSucceeds`: `GrpcTransport::stop` resets `server_` as soon as `Shutdown`
  returned. The service thread may still be before its null test (then `runLoop`
  fails with "Server isn't initialized"), between the test and `Wait`, or on its
  way out of `Wait` (then the object is gone under it). The test
  `RunLoopWithRunningServerShouldSucceed` avoids it with a sleep of 100 ms.
* `ProcessEnds`: no stub call has a deadline. One instance that never answers keeps
  a handler, and the handler keeps `Shutdown`.
* `DestructorStopsTransport`: start, stop before the service thread got to its null
  test, start again. The first thread now reports that its run loop failed by
  clearing `is_running_`, which the second start has just set. From then on the
  controller says it is stopped, and the destructor joins a thread whose server
  was never shut down. `main` starts its controller once, so the process does
  not meet this (`JoinMeetsNoWait` in `Lifecycle`); the test that expects `stop()` from the destructor starts the
  thread once too.
* `ReadmeClientConnects`: `0.0.0.0:50051` is replaced by the address of one interface.
  Any other spelling of a wildcard (`0.0.0.0:50052`, `[::]:50051`) is not.
* `EveryInstanceHasAClient`: of two instances with the same id the first is
  silently replaced.
* `ZeroIdIsRejected`: the code accepts a camera instance 0, as the legacy form and
  the protocol want, and a test expects an exception.

Three more disagreements need no run. The header of `getPrimaryIpAddress`
(NetworkUtils.h:27) gives the order `eth0 > wlan0 > other non-loopback interfaces`; the
code, and the comment in its body, put every other `ethX` before `wlan0`, so a machine
with `eth1` and `wlan0` listens at `eth1`. `Rank` and `Place` follow the code. Levels
outside [0 - 100], which the comments of `core_service.proto` exclude, go through every
layer to the backend: `Forwarded` passes any level on.
`InstanceRouter::getClient` documents
`@throws std::invalid_argument if instance_id not in clients` (InstanceRouter.h:24)
and returns `nullptr`; `Lookup` in `Instances` and in `Lifecycle` has the code's
behaviour and every caller tests for the null pointer.

### Faulty variants

A definition marked `Fault:` is the action or operator below it with a bug a maintainer could make (a dropped guard, a flag
not cleared, a missing cleanup, a swapped constant). No specification uses it.
`PROJECT.json` says for each property of the passing runs which variant TLC
rejects it under, so that none of them holds by the shape of the model.

### Fairness

`ThreadFairness` is weak fairness of main's, the service thread's and each
handler's own steps: these are operating system threads that are runnable when
the step is enabled. `BackendFairness` says that each blocking stub call ends. The
code does not ensure it, so it stands apart, and `lifecycle_slow_backend` shows
what depends on it. Signals, new requests, failures and
the result of undefined behaviour are never forced, and `ProcessEnds` promises
nothing after the latter.

In `Requests` a client that waits for a callback thread is served with strong
fairness, because gRPC serves its queue in order and threads come and go. Only
instances in `Healthy` must answer. In `requests_slow` one of the two is not among
them. With threads bounded in number its calls can occupy them all (`Starved`), and
how many threads there are is gRPC's affair and not this code's; `HealthyIsAnswered`
therefore promises something only to behaviours in which a thread is free of it again
and again. What remains is the code's share: a slow call costs the thread it
blocks and nothing that other requests need. A handler that held one lock over the
call and the routing (`RouteUnderLock`) would break it.

In `Controller` the owner goes on with the call it is in and both service threads
run; what the owner calls, and failures, are not forced. `CallsReturn` promises
nothing once a join is `Blocked` or a thread lost its server.

## The proofs

`LifecycleProofs` proves, for every set of workers and ids and every
configuration:

* `TypeCorrect`: `Spec => []TypeOK`;
* `ClientsOutliveCalls`, `CoreIsNotRaced`, `AcceptedRequestsAreServed`,
  `SuccessIsHonest`, `ExitIsClean`, `JoinsEnd`: the six safety invariants of
  `lifecycle_safety`;
* `LayersGoDownInOrder` and `MainTerminates`: the action properties
  `TeardownOrder` and `MainGoesForward`;
* `LifecycleImplementsService`: every behaviour of `Lifecycle` is one of `Service`
  under the mapping `ready`, `phase`, `open`;
* `OpenRequestsFindEverythingReady` (in `ServiceProofs`): in `Service`, a request
  in progress finds everything below the server ready.

Assumptions: `Ids # {}` and `Configured` a function from the two services to sets
of ids. None on the number of workers.

None of the properties is inductive. `NoDanglingClient`, for instance, says
nothing of the handler that is about to look its client up while main is about
to clear the map; what excludes it is that main is behind `Drain` by then, and that
`Drain` waited for the handler. The invariant `Inv` therefore ties everything to
main's program counter: `CallerInv` (which operation a nested stop belongs to),
`ServerInv` (the server exists exactly between `TransportStart` and `Reset`),
`SvcInv` (the service thread is over before the destructors behind the join),
`LayersInv` (while the request handler runs, Core, the manager and all clients are
there; how far the teardown is at each place), `WorkersInv` (a request in progress
needs a server that exists) and `ExitInv` (success is decided in `stop`).
`InvStep` goes through the actions of `Next`, and in each through the parts of
`Inv` it can disturb. Each theorem then follows from `Inv` without looking at a
step, except the action properties and the refinement, which look at each step
once more. TLC checked `Inv` as an invariant before it was proved.

`MainTerminates` and `JoinsEnd` are what can be proved of `ProcessEnds`. The first
gives main's places a rank (`Operations`, then `Route`) and shows that every step
of main leads to a higher one, so that main takes at most as many steps as there
are ranks. The waits that could keep it from the next one are the polling loop,
which a signal ends, `Drain`, which waits for handlers and so for backends, and the
join; `JoinsEnd` shows that the join waits for no thread that waits in turn. Only
the step from there to `ProcessEnds`, that a step which stays possible is
taken, is left to TLC.

`ControllerProofs` proves, for every set of service threads:

* `ControllerTypeCorrect`: `Spec => []TypeOK`;
* `TransportStartsFromNothing`, `RunningIsComplete`, `PatientOwnersAreNotBlocked`,
  `DestructionIsClean`: the four safety invariants of `controller_restart`.

The assumption is that `NoThread` is none of the threads. The invariant has the
same shape as the first one, with two additions. `ThreadInv` says that every
thread but those in `service_thread_` and in the assignment that replaces it is
over, which is what the joins achieve; without it a thread of some earlier start
could fail at any time and clear `is_running_`. `PatientInv` says what a patient
owner adds to that: no thread ever fails, the thread that has not reached `Wait`
is the one of the last start and its server still serves, and while the server
serves between two calls `is_running_` is set, so the destructor's `stop()` does
its work before the join. `LayersInv` ties the server to Core in both directions:
a server means a running Core, so a start that Core accepts finds no server.

`UsesControllerProofs` proves `LifecycleUsesController`: under the mapping at the
end of `Lifecycle`, every behaviour of the process is one of `Controller`. The steps
of `startAsync`, `stop`, the destructor chain and the service thread map to the
action of the same name (a `stop()` that finds the flag clear to
`DestroyStopped`, `Release` to `CoreStop`, `ShutdownThrows` to `CoreStopFails`).
`Controller` has no end in the middle of a destructor; `ManagerThrows` maps to a
process that stays where it is, to a last failure of Core's stop when it is `~Core` that
releases the manager, or to `SvcUndefined` when the service thread is lost. The
requests, the signals, `Initialize`, `Run`, `HandlerStartFails`, the clearing of the two maps and
`DestroyManager` are stutters. It needs `Inv` and one fact more,
`ClearingMeansRunning`: between the call of `shutdown` and its end Core runs, so an
exception there leaves a Core that is `broken` and not one that is stopped.
The theorems about `Controller` therefore hold of the process too.

`RequestsProofs` proves, for every set of clients, callback threads, ids, levels
and RPCs of the table and every `Configured`:

* `RequestsTypeCorrect`: `Spec => []TypeOK`;
* `ClientsHaveOneHandler` and `AcknowledgedWritesStand`: the two safety invariants;
* `RequestsImplementRegisters`: every behaviour of `Requests` is one of `Registers`.

The assumptions are that there is an id and an RPC and that the RPCs are those of
the table (`RequestsAssumption`), that the constants of `goToMinZoom` and
`goToMaxZoom` are levels (`ZoomAssumption`), and that `Nobody` and the workers are
told apart from what a register can hold (`NobodyAssumption`: `settled` has all
three in it). The invariant has three parts besides the types. `HandlerInv`: a
handler in a stub call has a client of a backend. `ClientInv`: `wfor` is one to one
between waiting clients and the handlers that will answer them; without it a
client that gives up and asks again could meet the answer to its first request.
`SettledInv` says of each register what the history variable stands for: either
nothing; or the one write under way, and then no orphan of another one is left,
and the register holds its value from the moment the backend took it unless its
call ended with an error; or a value
that was acknowledged, and then no write is under way and none is on the wire.
`AcknowledgedWriteStands` is the last third alone and says nothing of the
moment in which the acknowledgement is given. The refinement has one step for
each action: the start of a handler is `Begin`, `Take` is `Effect`, `Answer` is
`End`, `Late` is `LateEffect`; a request without a backend, a refusal and a
`Disconnect` are `Fail`, with or without a write that may still arrive; what clients
do is a stutter.

`InstancesProofs` proves, for every set of ids and addresses and for client
sections of any length:

* `InstancesTypeCorrect`: `Spec => []TypeOK`;
* `RequestsAreRouted`, `CamerasHaveVideo`, `ChannelsHaveClients`: the three safety
  invariants.

The assumptions are that the file's sections have the form yaml-cpp gives them
(`DocumentsAssumption`), that the legacy form's id is an id and a missing one is
not (`IdsAssumption`), and that an address is none of the other values that
share a variable with addresses (`AddressesAssumption`). `ConfigInv` ties the
configuration to a file that was accepted, `AtInv` keeps `at` inside the two lists.
`CreatedInv` is the invariant of the two nested loops: of the instances passed so
far, the client of an id is that of the last instance with it (`Latest`).
`PairedInv` compares the two maps of a service: equal, with the channel one step ahead
between the two steps of one instance; and after a `shutdown` that threw, no client
without its channel (`Halved`), because it clears in that order (`ShutdownInOrder`).
`Load` takes the first entry of a name; that there is a first one rests on the
well-foundedness of the naturals (`LeastNatural`, from the library's theorems). At
the end `Latest` over the whole list is what `Target` says directly of the file.

`StartupProofs` proves, for every set of interfaces and addresses and every set of
files:

* `StartupTypeCorrect`: `Spec => []TypeOK`; an address that was chosen is
  neither loopback's nor missing;
* `AcceptedApisAreKnown` and `LoggersAreConfigured`: the two safety invariants. The
  first is about the two lists of API types only: an accepted file with the wildcard
  address still ends the start on a machine without an interface;
* `AddressIsStable`: the action property `WorseInterfaceNeverMoves`;
* `NoPrimaryMeansNoAddress`: `noPrimary` ends the start only when no interface but
  loopback has an address.

The assumptions are that an interface's name is a pair of strings
(`NamesAssumption`) and that `Off`, `0.0.0.0` and the loopback address are no
addresses of the other interfaces (`IpsAssumption`). `QuietInv` is what makes the
history variable mean something over a stop, a launch and any number of
changes: while `quiet` holds, the interface chosen last has its address still, and
every other one with an address comes after it by `Place`. `UntouchedInv` does the
same for `untouched`: the interface chosen last is still one of the first. The lemma
`RankKeepsPlace` carries that over to `Rank`, the order the code sorts by:
where `Place` tells two interfaces apart, `Rank` does, in the same direction, although
it has a rank more.

In all six modules each theorem about a run's property has the definition itself
as its statement, so the run and the theorem speak of the same thing.

## Only model-checked

The liveness properties (`ProcessEnds`, `EveryRequestFinishes`, `CallsReturn`,
`HealthyIsAnswered`), which are out of the prover's reach, as is everything that
says a step can be taken: that no state but the named ones is a deadlock is
TLC's result. Every other property of a passing run is a theorem too.
The six violations are TLC's counterexamples.

## Not modelled

* Exceptions of the `std::jthread` constructor (`std::system_error`,
  ApiController.cpp:47): `is_running_` is set already, and nothing in main.cpp catches
  it around `start()`. Exceptions while a log message is written.
* What happens when the destructor of a manager throws that a further `Core::start`
  replaces (the process terminates): it takes a restart after a failed start whose
  clean-up threw, which `main` never does, and `Instances` takes it for a success.
* Command line parsing, which ends before anything else begins, and signals after
  `main`'s `Application` is destroyed: the C++ runtime's exit sequence is not in
  this code.
* The formatting and output of log messages, and the global registry of spdlog,
  which the destructor of a replaced `SpdLogAdapter` empties (`drop_all`) after the
  new one has registered itself: the program logs through its own registry only.
  `SET_LOG_LEVEL` and `setLoggerAdapter` are used by tests alone.
* `getIpAddress` (tests call it), interfaces with several IPv4 addresses, IPv6.
* `handleGrpcAsyncRequest` (no RPC uses it), the generated protocol code, the text
  of errors, `utils/GrpcClient.h` (a tool beside the program).
* A direct second `start()` of a transport: `NeverStartedTwice` shows that the
  controller never makes that call, and only a test does.
* Levels of detail below a step: see the sections on the modules.

## Plan

Done, in this order: `Lifecycle` with `Service` and its proofs, `Requests` with
`Registers`, `Instances`, `Controller` with its proofs and the refinement from
`Lifecycle` to it, `Startup`, and then the proofs about `Requests`, `Instances` and
`Startup`.

Next:

1. `Controller`: what `MainGoesForward` is for `Lifecycle`, for each call of an
   owner, as the provable part of `CallsReturn`.
2. `Requests`: the same for `HealthyIsAnswered`: a handler goes through its places
   in one direction and is held up at the stub call only.
3. `Instances` as the implementation of the one step in which `HandlerStart` of
   `Lifecycle` creates all configured clients.
