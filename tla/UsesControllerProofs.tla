-------------------------- MODULE UsesControllerProofs -------------------------
(***************************************************************************)
(* The process is an owner of the class that Controller describes, for     *)
(* every set of workers, of ids and of configured instances.  The worker   *)
(* threads, the signals and the parts of a step that Controller does not   *)
(* tell apart are stutters.                                                *)
(***************************************************************************)
EXTENDS LifecycleProofs

\* Core::stop lets its clients go only while Core runs.
ClearingMeansRunning ==
  main \in {"clearCamera", "clearVideo", "release"} => coreRunning

\* Only CoreStop begins to clear, and only Release ends Core.
LEMMA ClearingStep ==
  ClearingMeansRunning /\ [Next]_vars => ClearingMeansRunning'
<1> SUFFICES ASSUME ClearingMeansRunning, [Next]_vars
             PROVE  ClearingMeansRunning'
  OBVIOUS
<1> USE DEF ClearingMeansRunning, Goto, Return, AfterTransportStop, mainVars,
            serverVars, coreVars, workVars
<1>1. CASE MainStep
  BY <1>1
  DEF MainStep, Initialize, HandlerStart, HandlerStartFails, TransportStart,
      TransportStartFails, Spawn, Run, ControllerStop, TransportStop, Drain,
      Reset, HandlerStop, CoreStop, ClearCamera, ClearVideo, ClearClients,
      ShutdownThrows, Release, Join, DestroyManager, ManagerThrows
<1>2. CASE SvcStep \/ SvcUndefined
  BY <1>2 DEF SvcStep, SvcCheck, SvcEnterWait, SvcReturn, SvcFail, SvcUndefined
<1>3. ASSUME NEW w \in Workers, Dispatch(w) \/ LocalStep(w) \/ CallReturns(w)
      PROVE  ClearingMeansRunning'
  BY <1>3 DEF Dispatch, LocalStep, CallReturns, HandlerGate, CoreGate, Lookup,
     Finish, Branch
<1>4. CASE Signal \/ Terminated \/ UNCHANGED vars
  BY <1>4 DEF Signal, Terminated, vars
<1>5. QED
  BY <1>1, <1>2, <1>3, <1>4 DEF Next

-------------------------------------------------------------------------------
\* Before initialize() there is a controller nobody has called yet.
LEMMA InitUses == Init => Class!Init
  BY DEF Init, Class!Init, ctlOwner, ctlCore

\* Every step of the process is a step of Controller or a stutter.
LEMMA StepUses ==
  Inv /\ ClearingMeansRunning /\ [Next]_vars => [Class!Next]_(Class!vars)
<1> SUFFICES ASSUME Inv, ClearingMeansRunning, [Next]_vars
             PROVE  Class!Next \/ UNCHANGED Class!vars
  OBVIOUS
<1> USE DEF Inv, terminated, ctlOwner, ctlCore, Goto, Return, AfterTransportStop, mainVars,
            serverVars, coreVars, workVars, Class!Goto, Class!Return,
            Class!AfterTransportStop, Class!ownerVars, Class!threadVars,
            Class!serverVars, Class!layerVars
<1>1. ASSUME Initialize \/ HandlerStartFails \/ Run
      PROVE  UNCHANGED Class!vars
  BY <1>1
  DEF Initialize, HandlerStartFails, Run, Class!vars, CallerInv, LayersInv,
      TypeOK
<1>2. ASSUME HandlerStart PROVE Class!HandlerStart
  BY <1>2 DEF HandlerStart, Class!HandlerStart, CallerInv, TypeOK
<1>3. ASSUME TransportStart PROVE Class!TransportStart
  BY <1>3
  DEF TransportStart, Class!TransportStart, CallerInv, ServerInv, LayersInv,
      TypeOK, ServerStates
<1>4. ASSUME TransportStartFails PROVE Class!TransportStartFails
  <2>1. Class!Destroyed({})
    BY <1>4 DEF TransportStartFails, Class!Destroyed, SvcInv
  <2>2. QED
    BY <1>4, <2>1
    DEF TransportStartFails, Class!TransportStartFails, CallerInv, LayersInv
<1>5. ASSUME Spawn PROVE Class!Spawn
  BY <1>5 DEF Spawn, Class!Spawn, CallerInv, SvcInv, LayersInv, ServerInv
<1>6. ASSUME ControllerStop, ctlRunning PROVE Class!ControllerStop
  BY <1>6
  DEF ControllerStop, Class!ControllerStop, CallerInv, ServerInv, LayersInv
<1>7. ASSUME ControllerStop, ~ctlRunning PROVE Class!DestroyStopped
  <2>1. main = "controllerStop" /\ caller = "~ApiController"
    BY <1>7 DEF ControllerStop, CallerInv, ServerInv
  <2>2. main' = "join" /\ caller' = caller /\ ctlRunning' = ctlRunning
    BY <1>7, <2>1 DEF ControllerStop, TypeOK
  <2>3. UNCHANGED <<svc, server, tRunning, handlerRunning, coreRunning>>
    BY <1>7 DEF ControllerStop
  <2>4. QED
    BY <1>7, <2>1, <2>2, <2>3 DEF Class!DestroyStopped
<1>8. ASSUME TransportStop PROVE Class!TransportStop
  BY <1>8 DEF TransportStop, Class!TransportStop, CallerInv, ServerInv
<1>9. ASSUME Drain PROVE Class!Drain
  BY <1>9 DEF Drain, Class!Drain, CallerInv
<1>10. ASSUME Reset PROVE Class!Reset
  <2>1. Class!Destroyed(IF svc \in {"checked", "waiting"} THEN {"svc"} ELSE {})
    BY <1>10 DEF Reset, Class!Destroyed
  <2>2. QED
    BY <1>10, <2>1 DEF Reset, Class!Reset, CallerInv
<1>11. ASSUME HandlerStop PROVE Class!HandlerStop
  BY <1>11 DEF HandlerStop, Class!HandlerStop, CallerInv, LayersInv
<1>12. ASSUME CoreStop, coreRunning PROVE UNCHANGED Class!vars
  BY <1>12 DEF CoreStop, Class!vars, CallerInv
<1>13. ASSUME CoreStop, ~coreRunning PROVE Class!CoreStop
  BY <1>13 DEF CoreStop, Class!CoreStop, CallerInv
<1>14. ASSUME ClearCamera \/ ClearVideo PROVE UNCHANGED Class!vars
  BY <1>14 DEF ClearCamera, ClearVideo, ClearClients, Class!vars
<1>15. ASSUME ShutdownThrows PROVE Class!CoreStopFails
  BY <1>15
  DEF ShutdownThrows, Class!CoreStopFails, CallerInv, LayersInv,
      ClearingMeansRunning
<1>16. ASSUME Release PROVE Class!CoreStop
  BY <1>16 DEF Release, Class!CoreStop, CallerInv
<1>17. ASSUME Join PROVE Class!Join
  BY <1>17 DEF Join, Class!Join, CallerInv
<1>18. ASSUME DestroyManager PROVE UNCHANGED Class!vars
  BY <1>18 DEF DestroyManager, Class!vars, CallerInv
<1>19. ASSUME SvcCheck PROVE Class!SvcCheck("svc")
  BY <1>19 DEF SvcCheck, Class!SvcCheck, Class!ThreadMoves
<1>20. ASSUME SvcEnterWait PROVE Class!SvcEnterWait("svc")
  BY <1>20 DEF SvcEnterWait, Class!SvcEnterWait, Class!ThreadMoves, SvcInv
<1>21. ASSUME SvcReturn PROVE Class!SvcReturn("svc")
  BY <1>21 DEF SvcReturn, Class!SvcReturn, Class!ThreadMoves
<1>22. ASSUME SvcFail PROVE Class!SvcFail("svc")
  BY <1>22 DEF SvcFail, Class!SvcFail, Class!ThreadMoves
<1>23. ASSUME SvcUndefined PROVE Class!SvcUndefined("svc")
  <2>1. svc = "lost" /\ main \notin {"exited", "aborted", "destroyManager"}
    BY <1>23 DEF SvcUndefined, Ended, CallerInv, SvcInv
  <2>2. ~Class!Ended
    BY <2>1 DEF Class!Ended, TypeOK, MainPCs
  <2>3. UNCHANGED <<ctlRunning, server, tRunning, handlerRunning, coreRunning>>
    BY <1>23 DEF SvcUndefined
  <2>4. CASE svc' = "done" /\ UNCHANGED <<main, caller>>
    BY <2>1, <2>2, <2>3, <2>4 DEF Class!SvcUndefined, Class!ThreadMoves
  <2>5. CASE main' = "aborted" /\ svc' = svc
    BY <2>1, <2>2, <2>3, <2>5 DEF Class!SvcUndefined
  <2>6. QED
    BY <1>23, <2>4, <2>5 DEF SvcUndefined
<1>24. ASSUME NEW w \in Workers, Dispatch(w) \/ LocalStep(w) \/ CallReturns(w)
       PROVE  UNCHANGED Class!vars
  BY <1>24 DEF Dispatch, LocalStep, CallReturns, HandlerGate, CoreGate, Lookup,
     Finish, Branch, Class!vars
<1>25. ASSUME Signal \/ Terminated \/ UNCHANGED vars PROVE UNCHANGED Class!vars
  BY <1>25 DEF Signal, Terminated, vars, Class!vars
<1>26. ASSUME ManagerThrows, svc = "lost" PROVE Class!SvcUndefined("svc")
  <2>1. main = "release"
    BY <1>26 DEF ManagerThrows, CallerInv, SvcInv
  <2>2. ~Class!Ended
    BY <2>1 DEF Class!Ended
  <2>3. /\ main' = "aborted" /\ caller' = caller
        /\ UNCHANGED <<ctlRunning, svc, server, tRunning, handlerRunning, coreRunning>>
    BY <1>26 DEF ManagerThrows
  <2>4. QED
    BY <1>26, <2>1, <2>2, <2>3 DEF Class!SvcUndefined
<1>27. ASSUME ManagerThrows, svc # "lost", main = "release", caller = "~Core"
       PROVE  Class!CoreStopFails
  BY <1>27
  DEF ManagerThrows, Class!CoreStopFails, LayersInv, ClearingMeansRunning
<1>28. ASSUME ManagerThrows, svc # "lost",
              main = "destroyManager" \/ caller # "~Core"
       PROVE  UNCHANGED Class!vars
  BY <1>28 DEF ManagerThrows, Class!vars, CallerInv
<1>29. QED
  BY <1>1, <1>2, <1>3, <1>4, <1>5, <1>6, <1>7, <1>8, <1>9, <1>10, <1>11,
     <1>12, <1>13, <1>14, <1>15, <1>16, <1>17, <1>18, <1>19, <1>20, <1>21,
     <1>22, <1>23, <1>24, <1>25, <1>26, <1>27, <1>28
  DEF Next, MainStep, ManagerThrows, SvcStep, Class!Next, Class!OwnerCalls, Class!CallStep,
      Class!SvcStep

\* The process implements Controller.
THEOREM LifecycleUsesController == Spec => UsesController
<1>1. Init => ClearingMeansRunning
  BY DEF Init, ClearingMeansRunning
<1>2. QED
  BY <1>1, ClearingStep, InitUses, StepUses, Invariance, PTL
  DEF Spec, UsesController, Class!Spec
===============================================================================
