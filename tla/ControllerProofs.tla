---------------------------- MODULE ControllerProofs ---------------------------
(***************************************************************************)
(* Proofs about Controller, for every set of service threads.              *)
(*                                                                         *)
(* None of the safety properties is inductive.  What a start, a stop or    *)
(* the destructor may rely on depends on where its owner is and on what    *)
(* the threads of earlier starts have not done yet; Inv says both, part by *)
(* part.                                                                   *)
(***************************************************************************)
EXTENDS Controller, TLAPS

\* Which call the owner is in, by program counter.
OpInv ==
  /\ owner = "idle" => op = "none"
  /\ owner \in {"transportStart", "spawn", "joinOld"} => op = "startAsync"
  /\ owner \in {"transportStop", "drain", "reset"}
       => op \in {"stop", "~ApiController", "~GrpcTransport"}
  /\ owner = "handlerStop"
       => op \in {"startAsync", "stop", "~ApiController", "~RequestHandler"}
  /\ owner = "coreStop"
       => op \in {"startAsync", "stop", "~ApiController", "~RequestHandler", "~Core"}
  /\ owner = "join" => op = "~ApiController"

\* The server's state follows the owner.  It may serve under a controller that
\* says it does not run.
ServerInv ==
  /\ tRunning <=> server # "null"
  /\ server = "serving" => owner \in {"spawn", "joinOld", "idle", "transportStop",
                                      "join", "aborted"}
  /\ server = "draining" => owner \in {"drain", "aborted"}
  /\ server = "drained" => owner \in {"reset", "aborted"}
  /\ owner \in {"spawn", "joinOld"} => server = "serving"
  /\ owner = "drain" => server = "draining"
  /\ owner = "reset" => server = "drained"

\* What stands below the server, and where the controller says it runs.
LayersInv ==
  /\ owner \in {"transportStart", "spawn", "joinOld"}
       => handlerRunning /\ core = "running"
  /\ owner \in {"idle", "join"} /\ server = "serving"
       => handlerRunning /\ core = "running"
  /\ owner \in {"transportStop", "drain", "reset", "handlerStop"}
       /\ op \in {"startAsync", "stop", "~ApiController"}
       => handlerRunning /\ core = "running"
  /\ handlerRunning /\ owner # "aborted" => core = "running"
  /\ owner \in {"coreStop", "destroyed"} => ~handlerRunning
  /\ owner = "destroyed" => core # "running"
  /\ ctlRunning => owner \in {"idle", "joinOld", "aborted"}
  /\ ctlRunning /\ owner # "aborted" => server = "serving" /\ current # NoThread

\* Only the thread of the last start, and during a start that of the one
\* before, may still run; none behind the join of the destructor.
ThreadInv ==
  /\ \A t \in Threads : thread[t] \in {"none", "done"} \/ t \in {current, old}
  /\ owner = "joinOld" => old # NoThread
  /\ old # NoThread => owner \in {"joinOld", "aborted"}
  /\ \A t \in Threads : thread[t] = "waiting" => server # "null"
  /\ owner = "destroyed" \/ op \in {"~GrpcTransport", "~RequestHandler", "~Core"}
       => \A t \in Threads : thread[t] \in {"none", "done"}

\* An owner that waits for the run loop never stops a server under a thread that
\* has not looked at it, so that no thread fails and no write comes late.
PatientInv ==
  patient =>
    /\ \A t \in Threads :
         /\ thread[t] # "failed"
         /\ thread[t] \in {"spawned", "checked"} => t = current /\ server = "serving"
         /\ thread[t] = "waiting" => t = current
    /\ old # NoThread => old # current
    /\ owner \in {"idle", "joinOld"} /\ server = "serving" => ctlRunning
    /\ owner = "join" => server = "null"
    /\ owner \in {"spawn", "transportStop", "drain", "reset"} =>
         \A t \in Threads : thread[t] \notin {"spawned", "checked"}
    /\ owner = "spawn" => \A t \in Threads : thread[t] # "waiting"

Inv ==
  /\ TypeOK
  /\ OpInv
  /\ ServerInv
  /\ LayersInv
  /\ ThreadInv
  /\ PatientInv

-------------------------------------------------------------------------------
\* The object starts in the invariant, before the first call.
LEMMA InitInv == Init => Inv
  BY DEF Init, Inv, TypeOK, OwnerPCs, Ops, ThreadPCs, OpInv, ServerInv,
      LayersInv,
         ThreadInv, PatientInv

\* No step of the owner or of a service thread takes a variable out of its type.
LEMMA TypeStep == TypeOK /\ [Next]_vars => TypeOK'
<1> SUFFICES ASSUME TypeOK, [Next]_vars PROVE TypeOK'
  OBVIOUS
<1> USE DEF TypeOK, OwnerPCs, Ops, ThreadPCs, ownerVars, threadVars,
            serverVars, layerVars, Goto, Return, AfterTransportStop,
            ThreadMoves
<1>1. CASE HandlerStart
  BY <1>1 DEF HandlerStart
<1>2. CASE ControllerStop
  BY <1>2 DEF ControllerStop
<1>3. CASE DestroyStopped
  BY <1>3 DEF DestroyStopped
<1>4. CASE TransportStart
  BY <1>4 DEF TransportStart
<1>5. CASE TransportStartFails
  BY <1>5 DEF TransportStartFails, Destroyed
<1>6. CASE Spawn
  BY <1>6 DEF Spawn
<1>7. CASE JoinOld
  BY <1>7 DEF JoinOld
<1>8. CASE TransportStop
  BY <1>8 DEF TransportStop
<1>9. CASE Drain
  BY <1>9 DEF Drain
<1>10. CASE Reset
  BY <1>10 DEF Reset, Destroyed
<1>11. CASE HandlerStop
  BY <1>11 DEF HandlerStop
<1>12. CASE CoreStop
  BY <1>12 DEF CoreStop
<1>13. CASE CoreStopFails
  BY <1>13 DEF CoreStopFails
<1>14. CASE Join
  BY <1>14 DEF Join
<1>15. ASSUME NEW t \in Threads, SvcCheck(t) PROVE TypeOK'
  BY <1>15 DEF SvcCheck
<1>16. ASSUME NEW t \in Threads, SvcEnterWait(t) PROVE TypeOK'
  BY <1>16 DEF SvcEnterWait
<1>17. ASSUME NEW t \in Threads, SvcReturn(t) PROVE TypeOK'
  BY <1>17 DEF SvcReturn
<1>18. ASSUME NEW t \in Threads, SvcFail(t) PROVE TypeOK'
  <2>1. ctlRunning' \in BOOLEAN
    BY <1>18, Zenon DEF SvcFail
  <2>2. QED
    BY <1>18, <2>1 DEF SvcFail
<1>19. ASSUME NEW t \in Threads, SvcUndefined(t) PROVE TypeOK'
  BY <1>19 DEF SvcUndefined
<1>20. CASE UNCHANGED vars
  BY <1>20 DEF vars
<1>21. QED
  BY <1>1, <1>2, <1>3, <1>4, <1>5, <1>6, <1>7, <1>8, <1>9, <1>10, <1>11,
      <1>12, <1>13, <1>14, <1>15, <1>16, <1>17, <1>18, <1>19, <1>20
  DEF Next, OwnerCalls, CallStep, SvcStep, Halted

\* Every variable keeps its type.
THEOREM ControllerTypeCorrect == Spec => []TypeOK
<1>1. Init => TypeOK
  BY InitInv DEF Inv
<1>2. QED
  BY <1>1, TypeStep, PTL DEF Spec

\* Every step keeps the invariant: one named step per action of Next, and under
\* it the parts of Inv.
LEMMA InvStep == Inv /\ [Next]_vars => Inv'
<1> SUFFICES ASSUME Inv, [Next]_vars PROVE Inv'
  OBVIOUS
<1>0. TypeOK'
  BY TypeStep DEF Inv
<1> USE ThreadsAssumption
    DEF Inv, ownerVars, threadVars, serverVars, layerVars, Goto, Return,
        AfterTransportStop, ThreadMoves
<1>1. CASE HandlerStart
  <2>1. OpInv'
    BY <1>1 DEF HandlerStart, OpInv
  <2>2. ServerInv'
    BY <1>1 DEF HandlerStart, ServerInv, LayersInv, TypeOK
  <2>3. LayersInv'
    BY <1>1 DEF HandlerStart, LayersInv
  <2>4. ThreadInv'
    BY <1>1 DEF HandlerStart, ThreadInv
  <2>5. PatientInv'
    BY <1>1 DEF HandlerStart, PatientInv
  <2>6. QED
    BY <1>0, <2>1, <2>2, <2>3, <2>4, <2>5
<1>2. CASE ControllerStop
  <2>1. OpInv'
    BY <1>2 DEF ControllerStop, OpInv
  <2>2. ServerInv'
    BY <1>2 DEF ControllerStop, ServerInv
  <2>3. LayersInv'
    BY <1>2 DEF ControllerStop, LayersInv
  <2>4. ThreadInv'
    BY <1>2 DEF ControllerStop, ThreadInv
  <2>5. PatientInv'
    BY <1>2 DEF ControllerStop, PatientInv
  <2>6. QED
    BY <1>0, <2>1, <2>2, <2>3, <2>4, <2>5
<1>3. CASE DestroyStopped
  <2>1. OpInv'
    BY <1>3 DEF DestroyStopped, OpInv
  <2>2. ServerInv'
    BY <1>3 DEF DestroyStopped, ServerInv
  <2>3. LayersInv'
    BY <1>3 DEF DestroyStopped, LayersInv
  <2>4. ThreadInv'
    BY <1>3 DEF DestroyStopped, ThreadInv
  <2>5. PatientInv'
    BY <1>3 DEF DestroyStopped, ServerInv, LayersInv, PatientInv, TypeOK
  <2>6. QED
    BY <1>0, <2>1, <2>2, <2>3, <2>4, <2>5
<1>4. CASE TransportStart
  <2>1. OpInv'
    BY <1>4 DEF TransportStart, OpInv
  <2>2. ServerInv'
    BY <1>4 DEF TransportStart, ServerInv
  <2>3. LayersInv'
    BY <1>4 DEF TransportStart, LayersInv
  <2>4. ThreadInv'
    BY <1>4 DEF TransportStart, ThreadInv
  <2>5. PatientInv'
    BY <1>4 DEF TransportStart, ThreadInv, PatientInv, TypeOK
  <2>6. QED
    BY <1>0, <2>1, <2>2, <2>3, <2>4, <2>5
<1>5. CASE TransportStartFails
  <2>1. OpInv'
    BY <1>5 DEF TransportStartFails, OpInv
  <2>2. ServerInv'
    BY <1>5 DEF TransportStartFails, ServerInv, TypeOK
  <2>3. LayersInv'
    BY <1>5 DEF TransportStartFails, LayersInv
  <2>4. ThreadInv'
    BY <1>5 DEF TransportStartFails, Destroyed, ThreadInv
  <2>5. PatientInv'
    BY <1>5 DEF TransportStartFails, Destroyed, ServerInv, PatientInv
  <2>6. QED
    BY <1>0, <2>1, <2>2, <2>3, <2>4, <2>5
<1>6. CASE Spawn
  <2>1. OpInv'
    BY <1>6 DEF Spawn, OpInv
  <2>2. ServerInv'
    BY <1>6 DEF Spawn, ServerInv
  <2>3. LayersInv'
    BY <1>6 DEF Spawn, ServerInv, LayersInv
  <2>4. ThreadInv'
    BY <1>6 DEF Spawn, OpInv, ThreadInv
  <2>5. PatientInv'
    BY <1>6 DEF Spawn, ServerInv, PatientInv
  <2>6. QED
    BY <1>0, <2>1, <2>2, <2>3, <2>4, <2>5
<1>7. CASE JoinOld
  <2>1. OpInv'
    BY <1>7 DEF JoinOld, OpInv
  <2>2. ServerInv'
    BY <1>7 DEF JoinOld, ServerInv
  <2>3. LayersInv'
    BY <1>7 DEF JoinOld, LayersInv
  <2>4. ThreadInv'
    BY <1>7 DEF JoinOld, ThreadInv
  <2>5. PatientInv'
    BY <1>7 DEF JoinOld, PatientInv
  <2>6. QED
    BY <1>0, <2>1, <2>2, <2>3, <2>4, <2>5
<1>8. CASE TransportStop
  <2>1. OpInv'
    BY <1>8 DEF TransportStop, OpInv
  <2>2. ServerInv'
    BY <1>8 DEF TransportStop, ServerInv
  <2>3. LayersInv'
    BY <1>8 DEF TransportStop, LayersInv
  <2>4. ThreadInv'
    BY <1>8 DEF TransportStop, ThreadInv
  <2>5. PatientInv'
    BY <1>8 DEF TransportStop, PatientInv
  <2>6. QED
    BY <1>0, <2>1, <2>2, <2>3, <2>4, <2>5
<1>9. CASE Drain
  <2>1. OpInv'
    BY <1>9 DEF Drain, OpInv
  <2>2. ServerInv'
    BY <1>9 DEF Drain, ServerInv
  <2>3. LayersInv'
    BY <1>9 DEF Drain, LayersInv
  <2>4. ThreadInv'
    BY <1>9 DEF Drain, ThreadInv
  <2>5. PatientInv'
    BY <1>9 DEF Drain, PatientInv
  <2>6. QED
    BY <1>0, <2>1, <2>2, <2>3, <2>4, <2>5
<1>10. CASE Reset
  <2>1. OpInv'
    BY <1>10 DEF Reset, OpInv
  <2>2. ServerInv'
    BY <1>10 DEF Reset, ServerInv
  <2>3. LayersInv'
    BY <1>10 DEF Reset, LayersInv
  <2>4. ThreadInv'
    BY <1>10 DEF Reset, Destroyed, ThreadInv
  <2>5. PatientInv'
    BY <1>10 DEF Reset, Destroyed, PatientInv
  <2>6. QED
    BY <1>0, <2>1, <2>2, <2>3, <2>4, <2>5
<1>11. CASE HandlerStop
  <2>1. OpInv'
    BY <1>11 DEF HandlerStop, OpInv
  <2>2. ServerInv'
    BY <1>11 DEF HandlerStop, ServerInv
  <2>3. LayersInv'
    BY <1>11 DEF HandlerStop, OpInv, LayersInv
  <2>4. ThreadInv'
    BY <1>11 DEF HandlerStop, ThreadInv
  <2>5. PatientInv'
    BY <1>11 DEF HandlerStop, LayersInv, PatientInv, TypeOK
  <2>6. QED
    BY <1>0, <2>1, <2>2, <2>3, <2>4, <2>5
<1>12. CASE CoreStop
  <2>1. OpInv'
    BY <1>12 DEF CoreStop, OpInv
  <2>2. ServerInv'
    BY <1>12 DEF CoreStop, ServerInv
  <2>3. LayersInv'
    BY <1>12 DEF CoreStop, ServerInv, LayersInv
  <2>4. ThreadInv'
    BY <1>12 DEF CoreStop, ThreadInv
  <2>5. PatientInv'
    BY <1>12 DEF CoreStop, ServerInv, LayersInv, PatientInv, TypeOK
  <2>6. QED
    BY <1>0, <2>1, <2>2, <2>3, <2>4, <2>5
<1>13. CASE CoreStopFails
  <2>1. OpInv'
    BY <1>13 DEF CoreStopFails, OpInv
  <2>2. ServerInv'
    BY <1>13 DEF CoreStopFails, ServerInv
  <2>3. LayersInv'
    BY <1>13 DEF CoreStopFails, ServerInv, LayersInv
  <2>4. ThreadInv'
    BY <1>13 DEF CoreStopFails, ThreadInv
  <2>5. PatientInv'
    BY <1>13 DEF CoreStopFails, ServerInv, LayersInv, PatientInv, TypeOK
  <2>6. QED
    BY <1>0, <2>1, <2>2, <2>3, <2>4, <2>5
<1>14. CASE Join
  <2>1. OpInv'
    BY <1>14 DEF Join, OpInv
  <2>2. ServerInv'
    BY <1>14 DEF Join, ServerInv
  <2>3. LayersInv'
    BY <1>14 DEF Join, LayersInv
  <2>4. ThreadInv'
    BY <1>14 DEF Join, ThreadInv
  <2>5. PatientInv'
    BY <1>14 DEF Join, PatientInv
  <2>6. QED
    BY <1>0, <2>1, <2>2, <2>3, <2>4, <2>5
<1>15. ASSUME NEW t \in Threads, SvcCheck(t) PROVE Inv'
  <2>1. OpInv'
    BY <1>15 DEF SvcCheck, OpInv
  <2>2. ServerInv'
    BY <1>15 DEF SvcCheck, ServerInv
  <2>3. LayersInv'
    BY <1>15 DEF SvcCheck, LayersInv
  <2>4. ThreadInv'
    BY <1>15 DEF SvcCheck, ThreadInv
  <2>5. PatientInv'
    BY <1>15 DEF SvcCheck, PatientInv
  <2>6. QED
    BY <1>0, <2>1, <2>2, <2>3, <2>4, <2>5
<1>16. ASSUME NEW t \in Threads, SvcEnterWait(t) PROVE Inv'
  <2>1. OpInv'
    BY <1>16 DEF SvcEnterWait, OpInv
  <2>2. ServerInv'
    BY <1>16 DEF SvcEnterWait, ServerInv
  <2>3. LayersInv'
    BY <1>16 DEF SvcEnterWait, LayersInv
  <2>4. ThreadInv'
    BY <1>16 DEF SvcEnterWait, ThreadInv
  <2>5. PatientInv'
    BY <1>16 DEF SvcEnterWait, PatientInv
  <2>6. QED
    BY <1>0, <2>1, <2>2, <2>3, <2>4, <2>5
<1>17. ASSUME NEW t \in Threads, SvcReturn(t) PROVE Inv'
  <2>1. OpInv'
    BY <1>17 DEF SvcReturn, OpInv
  <2>2. ServerInv'
    BY <1>17 DEF SvcReturn, ServerInv
  <2>3. LayersInv'
    BY <1>17 DEF SvcReturn, LayersInv
  <2>4. ThreadInv'
    BY <1>17 DEF SvcReturn, ThreadInv
  <2>5. PatientInv'
    BY <1>17 DEF SvcReturn, PatientInv
  <2>6. QED
    BY <1>0, <2>1, <2>2, <2>3, <2>4, <2>5
<1>18. ASSUME NEW t \in Threads, SvcFail(t) PROVE Inv'
  <2>1. OpInv'
    BY <1>18 DEF SvcFail, OpInv
  <2>2. ServerInv'
    BY <1>18 DEF SvcFail, ServerInv
  <2>3. LayersInv'
    BY <1>18 DEF SvcFail, LayersInv
  <2>4. ThreadInv'
    BY <1>18 DEF SvcFail, ThreadInv
  <2>5. PatientInv'
    BY <1>18 DEF SvcFail, PatientInv
  <2>6. QED
    BY <1>0, <2>1, <2>2, <2>3, <2>4, <2>5
<1>19. ASSUME NEW t \in Threads, SvcUndefined(t) PROVE Inv'
  <2>1. OpInv'
    BY <1>19 DEF SvcUndefined, OpInv
  <2>2. ServerInv'
    BY <1>19 DEF SvcUndefined, ServerInv
  <2>3. LayersInv'
    BY <1>19 DEF SvcUndefined, LayersInv
  <2>4. ThreadInv'
    BY <1>19 DEF SvcUndefined, ThreadInv, TypeOK
  <2>5. PatientInv'
    <3>1. CASE /\ owner' = "aborted"
               /\ UNCHANGED <<thread, current, old, server, patient>>
      BY <3>1 DEF PatientInv
    <3>2. CASE /\ thread' = [thread EXCEPT ![t] = "done"]
               /\ UNCHANGED <<owner, ctlRunning, current, old, server, patient>>
      BY <3>2 DEF PatientInv, TypeOK
    <3>3. QED
      BY <1>19, <3>1, <3>2 DEF SvcUndefined
  <2>6. QED
    BY <1>0, <2>1, <2>2, <2>3, <2>4, <2>5
<1>20. CASE UNCHANGED vars
  BY <1>0, <1>20 DEF vars, OpInv, ServerInv, LayersInv, ThreadInv, PatientInv
<1>21. QED
  BY <1>1, <1>2, <1>3, <1>4, <1>5, <1>6, <1>7, <1>8, <1>9, <1>10, <1>11,
      <1>12, <1>13, <1>14, <1>15, <1>16, <1>17, <1>18, <1>19, <1>20
  DEF Next, OwnerCalls, CallStep, SvcStep, Halted

\* The invariant holds throughout.
LEMMA Invariance == Spec => []Inv
  BY InitInv, InvStep, PTL DEF Spec

\* GrpcTransport::start is never called on a transport with a server.
THEOREM TransportStartsFromNothing == Spec => []NeverStartedTwice
<1>1. Inv => NeverStartedTwice
  BY DEF Inv, TypeOK, ServerInv, NeverStartedTwice
<1>2. QED
  BY <1>1, Invariance, PTL

\* isRunning() between two calls means a server over complete layers.
THEOREM RunningIsComplete == Spec => []RunningMeansServing
<1>1. Inv => RunningMeansServing
  BY DEF Inv, TypeOK, ServerInv, LayersInv, RunningMeansServing
<1>2. QED
  BY <1>1, Invariance, PTL

\* An owner that lets the run loop enter Wait before it stops is never blocked.
THEOREM PatientOwnersAreNotBlocked == Spec => []PatientNeverBlocks
<1>1. Inv => PatientNeverBlocks
  BY ThreadsAssumption
  DEF Inv, TypeOK, LayersInv, ThreadInv, PatientInv, PatientNeverBlocks,
      Blocked
<1>2. QED
  BY <1>1, Invariance, PTL

\* ~ApiController leaves nothing behind.
THEOREM DestructionIsClean == Spec => []CleanDestroy
<1>1. Inv => CleanDestroy
  BY DEF Inv, TypeOK, ServerInv, LayersInv, ThreadInv, CleanDestroy
<1>2. QED
  BY <1>1, Invariance, PTL
===============================================================================
