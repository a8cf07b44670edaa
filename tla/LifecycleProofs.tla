---------------------------- MODULE LifecycleProofs ----------------------------
(***************************************************************************)
(* Proofs about Lifecycle, for every set of workers, of ids and of         *)
(* configured instances.                                                   *)
(*                                                                         *)
(* None of the safety properties is inductive.  What makes them true is    *)
(* where the main thread is: the server exists between GrpcTransport::start *)
(* and reset, and in all those places the layers below it stand.  Inv says *)
(* this place by place.                                                    *)
(***************************************************************************)
EXTENDS Lifecycle, TLAPS

\* Which operation main is in, by program counter.
CallerInv ==
  /\ main = "initialize" => caller = "main"
  /\ main \in {"handlerStart", "transportStart", "spawn"} => caller = "startAsync"
  /\ main = "run" => caller = "main"
  /\ main \in {"drain", "reset"} => caller = "stop"
  /\ main = "controllerStop" => caller \in {"stop", "~ApiController"}
  /\ main = "transportStop" => caller \in {"stop", "~GrpcTransport"}
  /\ main = "handlerStop" => caller \in {"startAsync", "stop", "~RequestHandler"}
  /\ main \in {"coreStop", "clearCamera", "clearVideo", "release"}
       => caller \in {"startAsync", "stop", "~RequestHandler", "~Core"}
  /\ main = "join" => caller = "~ApiController"
  /\ main = "destroyManager" => caller = "~Core"
  /\ main = "exited" => caller \in {"main", "~Core"}

\* The server's state follows main, and so does the controller's flag.
ServerInv ==
  /\ tRunning <=> server # "null"
  /\ server = "serving" <=>
       \/ main \in {"spawn", "run"}
       \/ main \in {"controllerStop", "transportStop"} /\ caller = "stop"
  /\ server = "draining" <=> main = "drain"
  /\ server = "drained" <=> main = "reset"
  /\ ctlRunning <=>
       \/ main = "run"
       \/ main = "controllerStop" /\ caller = "stop"

\* The service thread between its creation and the join.
SvcInv ==
  /\ main \in {"initialize", "handlerStart", "transportStart", "spawn"}
       => svc = "none"
  /\ svc \in {"checked", "waiting"} => server # "null"
  /\ svc \in {"failed", "lost"} => server = "null"
  /\ caller \in {"~GrpcTransport", "~RequestHandler", "~Core"}
       => svc \in {"none", "done"}
  /\ main = "exited" => svc \in {"none", "done"}

\* Which of the layers below the server stand.
LayersInv ==
  /\ server # "null" \/ main = "transportStart" => handlerRunning
  /\ handlerRunning => coreRunning /\ mgr = "present" /\ clients = Configured
  /\ main \in {"initialize", "handlerStart"} =>
       ~handlerRunning /\ ~coreRunning /\ mgr = "null" /\ clients = NoClients
  /\ main = "handlerStop" /\ caller \in {"startAsync", "stop"} => handlerRunning
  /\ main \in {"coreStop", "clearCamera", "clearVideo", "release",
               "destroyManager", "exited"} => ~handlerRunning
  /\ main = "coreStop" /\ caller \in {"startAsync", "stop"} => coreRunning
  /\ main = "clearVideo" => clients["camera"] = {}
  /\ main = "release" => clients = NoClients
  /\ main = "exited" => mgr = "null" /\ clients = NoClients

\* A request is in progress only in a server that exists, and the gates it
\* passes find every layer in place.
WorkersInv ==
  \A w \in Workers :
    /\ wpc[w] # "idle" => server \in {"serving", "draining"}
    /\ wpc[w] = "call" => wreq[w].id \in Configured[wreq[w].service]
    /\ wres[w] \notin {"handlerNotRunning", "coreNotInitialized", "undefined"}

\* EXIT_SUCCESS is decided by the stop that answers a signal.
ExitInv ==
  /\ caller = "stop" => shutdownRequested /\ exit = "none"
  /\ caller = "startAsync" => exit = "none"
  /\ caller = "main" /\ main # "exited" => exit = "none"
  /\ exit = "success" =>
       /\ shutdownRequested
       /\ caller \in {"~ApiController", "~GrpcTransport", "~RequestHandler",
                      "~Core"}
       /\ server = "null"
       /\ ~handlerRunning /\ ~coreRunning
       /\ mgr = "null" /\ clients = NoClients

Inv ==
  /\ TypeOK
  /\ CallerInv
  /\ ServerInv
  /\ SvcInv
  /\ LayersInv
  /\ WorkersInv
  /\ ExitInv

-------------------------------------------------------------------------------
\* The request an idle worker is shown with is a request, as there are ids.
LEMMA AnyRequestType == AnyRequest \in Requests
<1>1. PICK i \in Ids : TRUE
  BY IdsAssumption
<1>2. [service |-> "camera", id |-> i] \in Requests
  BY <1>1 DEF Requests, Services
<1>3. QED
  BY <1>2 DEF AnyRequest

\* The client maps of a manager that was shut down or never initialized.
LEMMA NoClientsType == NoClients \in [Services -> SUBSET Ids]
  BY DEF NoClients

\* The process starts in the invariant, before Application::initialize.
LEMMA InitInv == Init => Inv
<1>1. Init => TypeOK
  BY AnyRequestType, NoClientsType
  DEF Init, TypeOK, MainPCs, Callers, SvcPCs, ServerStates, WorkerPCs, Results
<1>2. Init => CallerInv /\ ServerInv /\ SvcInv /\ LayersInv /\ WorkersInv /\ ExitInv
  BY DEF Init, CallerInv, ServerInv, SvcInv, LayersInv, WorkersInv, ExitInv
<1>3. QED
  BY <1>1, <1>2 DEF Inv

\* No step of main, of the service thread, of a callback thread or of a signal
\* takes a variable out of its type.
LEMMA TypeStep == TypeOK /\ [Next]_vars => TypeOK'
<1> SUFFICES ASSUME TypeOK, [Next]_vars PROVE TypeOK'
  OBVIOUS
<1> USE DEF TypeOK, MainPCs, Callers, SvcPCs, ServerStates, WorkerPCs, Results,
           mainVars, serverVars, coreVars, workVars, Goto, Return,
           AfterTransportStop, Branch
<1>1. CASE Initialize
  BY <1>1 DEF Initialize
<1>2. CASE HandlerStart
  BY <1>2, ConfiguredAssumption DEF HandlerStart
<1>3. CASE HandlerStartFails
  BY <1>3 DEF HandlerStartFails
<1>4. CASE TransportStart
  BY <1>4 DEF TransportStart
<1>5. CASE TransportStartFails
  BY <1>5 DEF TransportStartFails
<1>6. CASE Spawn
  BY <1>6 DEF Spawn
<1>7. CASE Run
  BY <1>7 DEF Run
<1>8. CASE ControllerStop
  <2>1. ctlRunning' \in BOOLEAN
    BY <1>8, Zenon DEF ControllerStop
  <2>2. QED
    BY <1>8, <2>1 DEF ControllerStop
<1>9. CASE TransportStop
  BY <1>9 DEF TransportStop
<1>10. CASE Drain
  BY <1>10 DEF Drain
<1>11. CASE Reset
  BY <1>11 DEF Reset
<1>12. CASE HandlerStop
  <2>1. handlerRunning' \in BOOLEAN
    BY <1>12, Zenon DEF HandlerStop
  <2>2. QED
    BY <1>12, <2>1 DEF HandlerStop
<1>13. CASE CoreStop
  BY <1>13 DEF CoreStop
<1>14. CASE ClearCamera
  <2>1. clients' \in [Services -> SUBSET Ids]
    BY <1>14, Zenon DEF ClearCamera, ClearClients
  <2>2. /\ main' \in MainPCs /\ caller' \in Callers
        /\ UNCHANGED <<exit, shutdownRequested, ctlRunning, svc, serverVars,
                      handlerRunning, coreRunning, mgr, workVars>>
    BY <1>14 DEF ClearCamera, ClearClients
  <2>3. QED
    BY <2>1, <2>2
<1>15. CASE ClearVideo
  <2>1. clients' \in [Services -> SUBSET Ids]
    BY <1>15, Zenon DEF ClearVideo, ClearClients
  <2>2. /\ main' \in MainPCs /\ caller' \in Callers
        /\ UNCHANGED <<exit, shutdownRequested, ctlRunning, svc, serverVars,
                      handlerRunning, coreRunning, mgr, workVars>>
    BY <1>15 DEF ClearVideo, ClearClients
  <2>3. QED
    BY <2>1, <2>2
<1>16. CASE ShutdownThrows
  BY <1>16 DEF ShutdownThrows
<1>17. CASE Release
  <2>1. coreRunning' \in BOOLEAN
    BY <1>17, Zenon DEF Release
  <2>2. QED
    BY <1>17, <2>1 DEF Release
<1>18. CASE Join
  BY <1>18 DEF Join
<1>19. CASE DestroyManager
  BY <1>19, NoClientsType DEF DestroyManager
<1>20. CASE SvcCheck
  BY <1>20 DEF SvcCheck
<1>21. CASE SvcEnterWait
  BY <1>21 DEF SvcEnterWait
<1>22. CASE SvcReturn
  BY <1>22 DEF SvcReturn
<1>23. CASE SvcFail
  <2>1. ctlRunning' \in BOOLEAN
    BY <1>23, Zenon DEF SvcFail
  <2>2. QED
    BY <1>23, <2>1 DEF SvcFail
<1>24. CASE SvcUndefined
  BY <1>24 DEF SvcUndefined
<1>25. CASE Signal
  BY <1>25 DEF Signal
<1>26. ASSUME NEW w \in Workers, Dispatch(w) PROVE TypeOK'
  BY <1>26 DEF Dispatch
<1>27. ASSUME NEW w \in Workers, HandlerGate(w) PROVE TypeOK'
  BY <1>27 DEF HandlerGate
<1>28. ASSUME NEW w \in Workers, CoreGate(w) PROVE TypeOK'
  BY <1>28 DEF CoreGate
<1>29. ASSUME NEW w \in Workers, Lookup(w) PROVE TypeOK'
  BY <1>29 DEF Lookup, LookupError
<1>30. ASSUME NEW w \in Workers, CallReturns(w) PROVE TypeOK'
  BY <1>30 DEF CallReturns
<1>31. ASSUME NEW w \in Workers, Finish(w) PROVE TypeOK'
  BY <1>31, AnyRequestType DEF Finish
<1>32. CASE UNCHANGED vars
  BY <1>32 DEF vars
<1>33. CASE ManagerThrows
  BY <1>33 DEF ManagerThrows
<1>34. QED
  BY <1>1, <1>2, <1>3, <1>4, <1>5, <1>6, <1>7, <1>8, <1>9, <1>10, <1>11,
     <1>12, <1>13, <1>14, <1>15, <1>16, <1>17, <1>18, <1>19, <1>20, <1>21,
     <1>22, <1>23, <1>24, <1>25, <1>26, <1>27, <1>28, <1>29, <1>30, <1>31,
     <1>32, <1>33
  DEF Next, MainStep, SvcStep, LocalStep, Terminated

\* Every variable keeps its type.
THEOREM TypeCorrect == Spec => []TypeOK
<1>1. Init => TypeOK
  BY InitInv DEF Inv
<1>2. QED
  BY <1>1, TypeStep, PTL DEF Spec

\* Every step keeps the invariant: one named step per action of Next, and under
\* it the conjuncts of Inv that the action can disturb.
LEMMA InvStep == Inv /\ [Next]_vars => Inv'
<1> SUFFICES ASSUME Inv, [Next]_vars PROVE Inv'
  OBVIOUS
<1> USE DEF Inv, CallerInv, ServerInv, SvcInv, LayersInv, WorkersInv, ExitInv,
           mainVars, serverVars, coreVars, workVars, Goto, Return,
           AfterTransportStop, Branch
<1>1. CASE Initialize
  BY <1>1, TypeStep DEF Initialize
<1>2. CASE HandlerStart
  BY <1>2, TypeStep DEF HandlerStart
<1>3. CASE HandlerStartFails
  BY <1>3, TypeStep DEF HandlerStartFails
<1>4. CASE TransportStart
  BY <1>4, TypeStep DEF TransportStart
<1>5. CASE TransportStartFails
  <2>0. TypeOK'
    BY TypeStep
  <2>1. CallerInv'
    BY <1>5 DEF TransportStartFails
  <2>2. ServerInv'
    <3>1. server = "null" /\ ~tRunning
      BY <1>5 DEF TransportStartFails, TypeOK, ServerStates
    <3>2. QED
      BY <1>5, <3>1 DEF TransportStartFails
  <2>3. SvcInv'
    BY <1>5 DEF TransportStartFails
  <2>4. LayersInv'
    BY <1>5 DEF TransportStartFails
  <2>5. WorkersInv'
    BY <1>5 DEF TransportStartFails
  <2>6. ExitInv'
    BY <1>5 DEF TransportStartFails
  <2>7. QED
    BY <2>0, <2>1, <2>2, <2>3, <2>4, <2>5, <2>6
<1>6. CASE Spawn
  BY <1>6, TypeStep DEF Spawn
<1>7. CASE Run
  BY <1>7, TypeStep DEF Run
<1>8. CASE ControllerStop
  BY <1>8, TypeStep DEF ControllerStop
<1>9. CASE TransportStop
  <2>0. TypeOK'
    BY TypeStep
  <2>1. CallerInv'
    <3>1. CASE tRunning
      <4>1. server = "serving" /\ caller = "stop"
        BY <1>9, <3>1 DEF TransportStop, TypeOK, ServerStates
      <4>2. main' = "drain" /\ caller' = "stop"
        BY <1>9, <3>1, <4>1 DEF TransportStop
      <4>3. QED
        BY <4>2
    <3>2. CASE ~tRunning
      <4>1. /\ main' = "handlerStop"
            /\ caller' = IF caller = "~GrpcTransport" THEN "~RequestHandler" ELSE caller
        BY <1>9, <3>2 DEF TransportStop
      <4>2. QED
        BY <1>9, <4>1 DEF TransportStop
    <3>3. QED
      BY <3>1, <3>2
  <2>2. ServerInv'
    BY <1>9 DEF TransportStop
  <2>3. SvcInv'
    BY <1>9 DEF TransportStop
  <2>4. LayersInv'
    BY <1>9 DEF TransportStop
  <2>5. WorkersInv'
    BY <1>9 DEF TransportStop
  <2>6. ExitInv'
    BY <1>9 DEF TransportStop
  <2>7. QED
    BY <2>0, <2>1, <2>2, <2>3, <2>4, <2>5, <2>6
<1>10. CASE Drain
  BY <1>10, TypeStep DEF Drain
<1>11. CASE Reset
  BY <1>11, TypeStep DEF Reset
<1>12. CASE HandlerStop
  <2>0. TypeOK'
    BY TypeStep
  <2>1. CallerInv'
    BY <1>12 DEF HandlerStop
  <2>2. ServerInv'
    BY <1>12 DEF HandlerStop
  <2>3. SvcInv'
    BY <1>12 DEF HandlerStop
  <2>4. LayersInv'
    <3>1. ~handlerRunning'
      BY <1>12, Zenon DEF HandlerStop
    <3>2. /\ main' \in {"coreStop", "controllerStop", "join", "destroyManager"}
          /\ UNCHANGED <<server, coreRunning, mgr, clients>>
      BY <1>12 DEF HandlerStop
    <3>3. main' = "coreStop" /\ caller' \in {"startAsync", "stop"} => coreRunning'
      BY <1>12 DEF HandlerStop
    <3>4. main' # "destroyManager"
      BY <1>12 DEF HandlerStop
    <3>5. server' = "null"
      BY <1>12 DEF HandlerStop, TypeOK, ServerStates
    <3>6. QED
      BY <3>1, <3>2, <3>3, <3>4, <3>5
  <2>5. WorkersInv'
    BY <1>12 DEF HandlerStop
  <2>6. ExitInv'
    BY <1>12 DEF HandlerStop
  <2>7. QED
    BY <2>0, <2>1, <2>2, <2>3, <2>4, <2>5, <2>6
<1>13. CASE CoreStop
  BY <1>13, TypeStep DEF CoreStop
<1>14. CASE ClearCamera
  <2>0. TypeOK'
    BY TypeStep
  <2>1. CallerInv'
    BY <1>14 DEF ClearCamera, ClearClients
  <2>2. ServerInv'
    BY <1>14 DEF ClearCamera, ClearClients
  <2>3. SvcInv'
    BY <1>14 DEF ClearCamera, ClearClients
  <2>4. LayersInv'
    <3>1. main' = "clearVideo" /\ UNCHANGED <<server, handlerRunning>>
      BY <1>14 DEF ClearCamera, ClearClients
    <3>2. server = "null" /\ ~handlerRunning
      BY <1>14 DEF ClearCamera, ClearClients, TypeOK, ServerStates
    <3>3. clients'["camera"] = {}
      BY <1>14 DEF ClearCamera, ClearClients, TypeOK, Services, NoClients
    <3>4. QED
      BY <3>1, <3>2, <3>3
  <2>5. WorkersInv'
    BY <1>14 DEF ClearCamera, ClearClients
  <2>6. ExitInv'
    <3>1. clients = NoClients => clients' = NoClients
      BY <1>14 DEF ClearCamera, ClearClients, NoClients
    <3>2. UNCHANGED <<caller, exit, shutdownRequested, server, handlerRunning,
                      coreRunning, mgr>> /\ main' = "clearVideo" /\ main # "exited"
      BY <1>14 DEF ClearCamera, ClearClients
    <3>3. QED
      BY <3>1, <3>2
  <2>7. QED
    BY <2>0, <2>1, <2>2, <2>3, <2>4, <2>5, <2>6
<1>15. CASE ClearVideo
  <2>0. TypeOK'
    BY TypeStep
  <2>1. CallerInv'
    BY <1>15 DEF ClearVideo, ClearClients
  <2>2. ServerInv'
    BY <1>15 DEF ClearVideo, ClearClients
  <2>3. SvcInv'
    BY <1>15 DEF ClearVideo, ClearClients
  <2>4. LayersInv'
    <3>1. main' = "release" /\ UNCHANGED <<server, handlerRunning>>
      BY <1>15 DEF ClearVideo, ClearClients
    <3>2. server = "null" /\ ~handlerRunning
      BY <1>15 DEF ClearVideo, ClearClients, TypeOK, ServerStates
    <3>3. clients' = NoClients
      BY <1>15 DEF ClearVideo, ClearClients, TypeOK, Services, NoClients
    <3>4. QED
      BY <3>1, <3>2, <3>3
  <2>5. WorkersInv'
    BY <1>15 DEF ClearVideo, ClearClients
  <2>6. ExitInv'
    <3>1. clients = NoClients => clients' = NoClients
      BY <1>15 DEF ClearVideo, ClearClients, NoClients
    <3>2. UNCHANGED <<caller, exit, shutdownRequested, server, handlerRunning,
                      coreRunning, mgr>> /\ main' = "release" /\ main # "exited"
      BY <1>15 DEF ClearVideo, ClearClients
    <3>3. QED
      BY <3>1, <3>2
  <2>7. QED
    BY <2>0, <2>1, <2>2, <2>3, <2>4, <2>5, <2>6
<1>16. CASE ShutdownThrows
  BY <1>16, TypeStep DEF ShutdownThrows
<1>17. CASE Release
  BY <1>17, TypeStep DEF Release
<1>18. CASE Join
  BY <1>18, TypeStep DEF Join
<1>19. CASE DestroyManager
  BY <1>19, TypeStep DEF DestroyManager
<1>20. CASE SvcCheck
  BY <1>20, TypeStep DEF SvcCheck
<1>21. CASE SvcEnterWait
  BY <1>21, TypeStep DEF SvcEnterWait
<1>22. CASE SvcReturn
  BY <1>22, TypeStep DEF SvcReturn
<1>23. CASE SvcFail
  BY <1>23, TypeStep DEF SvcFail
<1>24. CASE SvcUndefined
  <2>0. TypeOK'
    BY TypeStep
  <2>1. CallerInv'
    BY <1>24 DEF SvcUndefined
  <2>2. ServerInv'
    BY <1>24 DEF SvcUndefined
  <2>3. SvcInv'
    BY <1>24 DEF SvcUndefined
  <2>4. LayersInv'
    BY <1>24 DEF SvcUndefined
  <2>5. WorkersInv'
    BY <1>24 DEF SvcUndefined
  <2>6. ExitInv'
    BY <1>24 DEF SvcUndefined, Ended
  <2>7. QED
    BY <2>0, <2>1, <2>2, <2>3, <2>4, <2>5, <2>6
<1>25. CASE Signal
  BY <1>25, TypeStep DEF Signal
<1>26. ASSUME NEW w \in Workers, Dispatch(w) PROVE Inv'
  BY <1>26, TypeStep DEF Dispatch
<1>27. ASSUME NEW w \in Workers, HandlerGate(w) PROVE Inv'
  BY <1>27, TypeStep DEF HandlerGate
<1>28. ASSUME NEW w \in Workers, CoreGate(w) PROVE Inv'
  BY <1>28, TypeStep DEF CoreGate
<1>29. ASSUME NEW w \in Workers, Lookup(w) PROVE Inv'
  <2>0. TypeOK'
    BY TypeStep
  <2>1. CallerInv'
    BY <1>29 DEF Lookup
  <2>2. ServerInv'
    BY <1>29 DEF Lookup
  <2>3. SvcInv'
    BY <1>29 DEF Lookup
  <2>4. LayersInv'
    BY <1>29 DEF Lookup
  <2>5. WorkersInv'
    <3>1. mgr = "present" /\ clients = Configured
      BY <1>29 DEF Lookup
    <3>2. LookupError(wreq[w]) \in {"notConfigured", "unavailable"}
      BY <3>1 DEF LookupError
    <3>3. ASSUME NEW v \in Workers
          PROVE  /\ wpc'[v] # "idle" => server' \in {"serving", "draining"}
                 /\ wpc'[v] = "call" => wreq'[v].id \in Configured[wreq'[v].service]
                 /\ wres'[v] \notin {"handlerNotRunning", "coreNotInitialized",
                                     "undefined"}
      <4>1. CASE v = w
        <5>1. /\ wpc'[w] = IF wreq[w].id \in Configured[wreq[w].service]
                            THEN "call" ELSE "finish"
              /\ wres'[w] \in {wres[w], LookupError(wreq[w])}
              /\ UNCHANGED <<server, wreq>>
              /\ wpc[w] = "lookup"
          BY <1>29, <3>1 DEF Lookup, TypeOK
        <5>2. QED
          BY <4>1, <5>1, <3>2
      <4>2. CASE v # w
        BY <1>29, <4>2 DEF Lookup, TypeOK
      <4>3. QED
        BY <4>1, <4>2
    <3>4. QED
      BY <3>3
  <2>6. ExitInv'
    BY <1>29 DEF Lookup
  <2>7. QED
    BY <2>0, <2>1, <2>2, <2>3, <2>4, <2>5, <2>6
<1>30. ASSUME NEW w \in Workers, CallReturns(w) PROVE Inv'
  BY <1>30, TypeStep DEF CallReturns
<1>31. ASSUME NEW w \in Workers, Finish(w) PROVE Inv'
  BY <1>31, TypeStep DEF Finish
<1>32. CASE UNCHANGED vars
  <2>0. TypeOK'
    BY TypeStep
  <2>1. CallerInv'
    BY <1>32 DEF vars
  <2>2. ServerInv'
    BY <1>32 DEF vars
  <2>3. SvcInv'
    BY <1>32 DEF vars
  <2>4. LayersInv'
    BY <1>32 DEF vars
  <2>5. WorkersInv'
    BY <1>32 DEF vars
  <2>6. ExitInv'
    BY <1>32 DEF vars
  <2>7. QED
    BY <2>0, <2>1, <2>2, <2>3, <2>4, <2>5, <2>6
<1>33. CASE ManagerThrows
  BY <1>33, TypeStep DEF ManagerThrows
<1>34. QED
  BY <1>1, <1>2, <1>3, <1>4, <1>5, <1>6, <1>7, <1>8, <1>9, <1>10, <1>11,
     <1>12, <1>13, <1>14, <1>15, <1>16, <1>17, <1>18, <1>19, <1>20, <1>21,
     <1>22, <1>23, <1>24, <1>25, <1>26, <1>27, <1>28, <1>29, <1>30, <1>31,
     <1>32, <1>33
  DEF Next, MainStep, SvcStep, LocalStep, Terminated

-------------------------------------------------------------------------------
\* Main's place in the start and stop sequences says which layers stand, in
\* every reachable state.
LEMMA Invariance == Spec => []Inv
<1>1. Inv /\ [Next]_vars => Inv'
  BY InvStep
<1>2. QED
  BY InitInv, <1>1, PTL DEF Spec

\* The raw pointer a handler obtained is not outlived by the client behind it.
THEOREM ClientsOutliveCalls == Spec => []NoDanglingClient
<1>1. Inv => NoDanglingClient
  BY DEF Inv, WorkersInv, LayersInv, NoDanglingClient
<1>2. QED
  BY <1>1, Invariance, PTL

\* main writes Core's plain members only when no handler runs.
THEOREM CoreIsNotRaced == Spec => []NoRaceOnCore
<1>1. Inv => NoRaceOnCore
  BY DEF Inv, WorkersInv, ServerInv, NoRaceOnCore
<1>2. QED
  BY <1>1, Invariance, PTL

\* No accepted RPC meets a layer that is not started or stopped already.
THEOREM AcceptedRequestsAreServed == Spec => []AcceptedIsServed
<1>1. Inv => AcceptedIsServed
  BY DEF Inv, WorkersInv, AcceptedIsServed
<1>2. QED
  BY <1>1, Invariance, PTL

\* EXIT_SUCCESS answers a signal and leaves no layer standing.
THEOREM SuccessIsHonest == Spec => []SuccessMeansStopped
<1>1. Inv => SuccessMeansStopped
  BY DEF Inv, ServerInv, ExitInv, SuccessMeansStopped
<1>2. QED
  BY <1>1, Invariance, PTL

\* At the end of main nothing is left, whichever way the start or the stop went.
THEOREM ExitIsClean == Spec => []CleanExit
<1>1. Inv => CleanExit
  BY DEF Inv, TypeOK, ServerStates, ServerInv, SvcInv, LayersInv, WorkersInv,
         CleanExit
<1>2. QED
  BY <1>1, Invariance, PTL

\* The layers go down from the top.
THEOREM LayersGoDownInOrder == Spec => TeardownOrder
<1>1. Inv /\ [Next]_vars
        => [/\ (handlerRunning /\ ~handlerRunning') => server = "null"
            /\ clients' # clients => ~handlerRunning]_vars
  <2> SUFFICES ASSUME Inv, Next
               PROVE  /\ (handlerRunning /\ ~handlerRunning') => server = "null"
                      /\ clients' # clients => ~handlerRunning
    OBVIOUS
  <2> USE DEF Inv, TypeOK, ServerStates, ServerInv, LayersInv, serverVars,
              coreVars
  <2>1. CASE HandlerStart \/ HandlerStartFails
    BY <2>1 DEF HandlerStart, HandlerStartFails
  <2>2. CASE HandlerStop
    BY <2>2 DEF HandlerStop
  <2>3. CASE ClearCamera \/ ClearVideo \/ Release \/ DestroyManager
    BY <2>3 DEF ClearCamera, ClearVideo, ClearClients, Release, DestroyManager
  <2>4. CASE UNCHANGED <<handlerRunning, clients>>
    BY <2>4
  <2>5. QED
    BY <2>1, <2>2, <2>3, <2>4
    DEF Next, MainStep, SvcStep, LocalStep, Terminated, Initialize,
        TransportStart, TransportStartFails, Spawn, Run, ControllerStop,
        TransportStop, Drain, Reset, CoreStop, ShutdownThrows, Join,
        ManagerThrows, SvcCheck, SvcEnterWait, SvcReturn, SvcFail, SvcUndefined, Signal, Dispatch,
        HandlerGate, CoreGate, Lookup, CallReturns, Finish, Branch, vars
<1>2. QED
  BY <1>1, Invariance, PTL DEF Spec, TeardownOrder

\* The join waits for no thread that waits for main.
THEOREM JoinsEnd == Spec => []JoinMeetsNoWait
<1>1. Inv => JoinMeetsNoWait
  BY DEF Inv, TypeOK, ServerStates, CallerInv, ServerInv, SvcInv, JoinMeetsNoWait
<1>2. QED
  BY <1>1, Invariance, PTL

\* Where the operations of main stand in their order.
LEMMA OperationPositions ==
  /\ Position("startAsync", Operations) = 1
  /\ Position("main", Operations) = 2
  /\ Position("stop", Operations) = 3
  /\ Position("~ApiController", Operations) = 4
  /\ Position("~GrpcTransport", Operations) = 5
  /\ Position("~RequestHandler", Operations) = 6
  /\ Position("~Core", Operations) = 7
BY DEF Position, Operations

\* Where the places within an operation stand in theirs.
LEMMA RoutePositions ==
  /\ Position("handlerStart", Route) = 1
  /\ Position("transportStart", Route) = 2
  /\ Position("spawn", Route) = 3
  /\ Position("run", Route) = 4
  /\ Position("controllerStop", Route) = 5
  /\ Position("transportStop", Route) = 6
  /\ Position("drain", Route) = 7
  /\ Position("reset", Route) = 8
  /\ Position("handlerStop", Route) = 9
  /\ Position("coreStop", Route) = 10
  /\ Position("clearCamera", Route) = 11
  /\ Position("clearVideo", Route) = 12
  /\ Position("release", Route) = 13
  /\ Position("join", Route) = 14
  /\ Position("destroyManager", Route) = 15
BY DEF Position, Route

\* Every step of main leads further along its operations, for any number of
\* workers and however the start and the stops end.
THEOREM MainTerminates == Spec => MainGoesForward
<1> DEFINE Later ==
             \/ Position(caller', Operations) > Position(caller, Operations)
             \/ caller' = caller /\ Position(main', Route) > Position(main, Route)
           Forward ==
             /\ ~Ended /\ main' # "initialize"
             /\ main # "initialize" /\ ~Ended' => Later
<1>1. Inv /\ [Next]_vars
        => [<<main, caller>>' # <<main, caller>> => Forward]_vars
  <2> SUFFICES ASSUME Inv, Next, <<main, caller>>' # <<main, caller>>
               PROVE  Forward
    OBVIOUS
  <2>1. MainStep \/ SvcUndefined
    BY DEF Next, SvcStep, LocalStep, Terminated, SvcCheck, SvcEnterWait,
           SvcReturn, SvcFail, Signal, Dispatch, HandlerGate, CoreGate, Lookup,
           CallReturns, Finish, Branch, mainVars, vars
  <2> USE OperationPositions, RoutePositions DEF Ended, Goto
  <2>2. CASE SvcUndefined \/ ManagerThrows
    BY <2>2 DEF SvcUndefined, ManagerThrows, mainVars
  <2>3. CASE Initialize
    BY <2>3 DEF Initialize
  <2>4. CASE HandlerStart \/ TransportStart \/ TransportStartFails
    BY <2>4 DEF HandlerStart, TransportStart, TransportStartFails
  <2>5. CASE Spawn \/ Run
    BY <2>5 DEF Spawn, Run, Inv, CallerInv
  <2>6. ASSUME Return("success") \/ Return("failure"),
               main \in {"handlerStart", "controllerStop", "handlerStop",
                         "coreStop", "clearCamera", "clearVideo", "release"}
        PROVE  Forward
    BY <2>6 DEF Return, Inv, CallerInv
  <2>7. CASE HandlerStartFails \/ ShutdownThrows \/ Release
    BY <2>6, <2>7 DEF HandlerStartFails, ShutdownThrows, Release
  <2>8. CASE ControllerStop
    BY <2>6, <2>8 DEF ControllerStop
  <2>9. CASE TransportStop \/ Drain \/ Reset
    BY <2>9 DEF TransportStop, Drain, Reset, AfterTransportStop
  <2>10. CASE HandlerStop \/ CoreStop
    BY <2>6, <2>10 DEF HandlerStop, CoreStop
  <2>11. CASE ClearCamera \/ ClearVideo
    BY <2>11 DEF ClearCamera, ClearVideo, ClearClients
  <2>12. CASE Join \/ DestroyManager
    BY <2>12 DEF Join, DestroyManager, Inv, CallerInv
  <2>13. QED
    BY <2>1, <2>2, <2>3, <2>4, <2>5, <2>7, <2>8, <2>9, <2>10, <2>11, <2>12
    DEF MainStep
<1>2. QED
  BY <1>1, Invariance, PTL DEF Spec, MainGoesForward

-------------------------------------------------------------------------------
(* Lifecycle implements Service.                                           *)

\* A process that has not started anything is a service that is not ready.
LEMMA InitImplements == Init => Promise!Init
  BY DEF Init, Promise!Init, ready, phase, open

\* Every step of the process is a step of Service or leaves ready, phase and open
\* as they are.
LEMMA StepImplements == Inv /\ [Next]_vars => [Promise!Next]_(Promise!vars)
<1> SUFFICES ASSUME Inv, [Next]_vars PROVE [Promise!Next]_(Promise!vars)
  OBVIOUS
<1> USE DEF Inv, Promise!Next, Promise!vars, Goto, serverVars, coreVars, workVars
<1>1. CASE UNCHANGED <<server, handlerRunning, coreRunning, mgr, clients, wpc>>
  BY <1>1 DEF ready, phase, open
<1>2. CASE HandlerStart
  <2>1. server = "null" /\ ~handlerRunning
    BY <1>2 DEF HandlerStart, TypeOK, ServerStates, ServerInv, LayersInv
  <2>2. ~ready /\ ready'
    BY <1>2, <2>1 DEF HandlerStart, ready
  <2>3. phase = "closed" /\ UNCHANGED <<phase, open>>
    BY <1>2, <2>1 DEF HandlerStart, phase, open
  <2>4. QED
    BY <2>2, <2>3 DEF Promise!Prepare
<1>3. CASE TransportStart
  <2>1. server = "null" /\ ready
    BY <1>3 DEF TransportStart, TypeOK, ServerStates, ServerInv, LayersInv, ready
  <2>2. phase = "closed" /\ phase' = "open"
    BY <1>3, <2>1 DEF TransportStart, phase
  <2>3. UNCHANGED <<ready, open>>
    BY <1>3 DEF TransportStart, ready, open
  <2>4. QED
    BY <2>1, <2>2, <2>3 DEF Promise!Open
<1>4. CASE TransportStop
  <2>1. CASE tRunning
    <3>1. server = "serving" /\ server' = "draining"
      BY <1>4, <2>1 DEF TransportStop, TypeOK, ServerStates, ServerInv
    <3>2. phase = "open" /\ phase' = "closing"
      BY <3>1 DEF phase
    <3>3. UNCHANGED <<ready, open>>
      BY <1>4 DEF TransportStop, ready, open
    <3>4. QED
      BY <3>2, <3>3 DEF Promise!Shutdown
  <2>2. CASE ~tRunning
    <3>1. UNCHANGED <<server, handlerRunning, coreRunning, mgr, clients, wpc>>
      BY <1>4, <2>2 DEF TransportStop
    <3>2. QED
      BY <1>1, <3>1
  <2>3. QED
    BY <2>1, <2>2
<1>5. CASE Drain
  <2>1. open = {} /\ UNCHANGED <<ready, open>>
    BY <1>5 DEF Drain, ready, open
  <2>2. phase = "closing" /\ phase' = "closed"
    BY <1>5 DEF Drain, ServerInv, phase
  <2>3. QED
    BY <2>1, <2>2 DEF Promise!Close
<1>6. CASE Reset \/ TransportStartFails
  <2>1. server \in {"null", "drained"} /\ server' = "null"
    BY <1>6 DEF Reset, TransportStartFails, TypeOK, ServerStates, ServerInv
  <2>2. UNCHANGED phase
    BY <2>1 DEF phase
  <2>3. UNCHANGED <<ready, open>>
    BY <1>6 DEF Reset, TransportStartFails, ready, open
  <2>4. QED
    BY <2>2, <2>3
<1>7. CASE HandlerStop
  <2>1. server = "null"
    BY <1>7 DEF HandlerStop, TypeOK, ServerStates, ServerInv
  <2>2. phase = "closed" /\ UNCHANGED <<phase, open>>
    BY <1>7, <2>1 DEF HandlerStop, phase, open
  <2>3. ~ready'
    BY <1>7 DEF HandlerStop, ready
  <2>4. QED
    BY <2>2, <2>3 DEF Promise!Dispose, ready
<1>8. CASE \/ HandlerStartFails \/ ClearCamera \/ ClearVideo \/ Release
           \/ DestroyManager
  <2>1. ~handlerRunning /\ UNCHANGED <<handlerRunning, server, wpc>>
    BY <1>8 DEF HandlerStartFails, ClearCamera, ClearVideo, ClearClients,
                Release, DestroyManager, LayersInv
  <2>2. UNCHANGED <<ready, phase, open>>
    BY <2>1 DEF ready, phase, open
  <2>3. QED
    BY <2>2
<1>9. ASSUME NEW w \in Workers, Dispatch(w) PROVE Promise!Next
  <2>1. phase = "open" /\ UNCHANGED <<ready, phase>>
    BY <1>9 DEF Dispatch, ready, phase
  <2>2. w \notin open /\ open' = open \cup {w}
    BY <1>9 DEF Dispatch, open, TypeOK
  <2>3. QED
    BY <2>1, <2>2 DEF Promise!Accept
<1>10. ASSUME NEW w \in Workers, Finish(w) PROVE Promise!Next
  <2>1. UNCHANGED <<ready, phase>>
    BY <1>10 DEF Finish, ready, phase
  <2>2. w \in open /\ open' = open \ {w}
    BY <1>10 DEF Finish, open, TypeOK
  <2>3. QED
    BY <2>1, <2>2 DEF Promise!Answer
<1>11. ASSUME NEW w \in Workers,
              HandlerGate(w) \/ CoreGate(w) \/ Lookup(w) \/ CallReturns(w)
       PROVE  UNCHANGED <<ready, phase, open>>
  <2>1. UNCHANGED <<server, handlerRunning, coreRunning, mgr, clients>>
    BY <1>11 DEF HandlerGate, CoreGate, Lookup, CallReturns, Branch
  <2>2. UNCHANGED open
    BY <1>11 DEF HandlerGate, CoreGate, Lookup, CallReturns, Branch, TypeOK, open
  <2>3. QED
    BY <2>1, <2>2 DEF ready, phase
<1>12. QED
  BY <1>1, <1>2, <1>3, <1>4, <1>5, <1>6, <1>7, <1>8, <1>9, <1>10, <1>11
  DEF Next, MainStep, SvcStep, LocalStep, Terminated, Initialize, Spawn, Run,
      ControllerStop, CoreStop, ShutdownThrows, Join, ManagerThrows, SvcCheck,
      SvcEnterWait, SvcReturn, SvcFail, SvcUndefined, Signal, vars

\* The threads and objects of the program keep the promise of Service.
THEOREM LifecycleImplementsService == Spec => ImplementsService
<1>1. Inv /\ [Next]_vars => [Promise!Next]_(Promise!vars)
  BY StepImplements
<1>2. QED
  BY InitImplements, <1>1, Invariance, PTL
  DEF Spec, ImplementsService, Promise!Spec

===============================================================================
