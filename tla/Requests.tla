------------------------------- MODULE Requests --------------------------------
(***************************************************************************)
(* One RPC of core.v1.CoreService from the client that asks to the camera  *)
(* or video service that obeys, and back: GrpcCallbackHandler,             *)
(* RequestHandler, Core, GrpcClientManager, CameraServiceClient and        *)
(* VideoServiceClient, while the process is up (Lifecycle has the gates of *)
(* a process that starts or stops).                                        *)
(*                                                                         *)
(* A handler runs on a callback thread from the acceptance of the RPC to   *)
(* its answer and blocks that thread in a synchronous stub call.  It never *)
(* looks at the client's deadline or cancellation and sets no deadline of  *)
(* its own.  Clients, the backends and the two networks are external.      *)
(***************************************************************************)
EXTENDS FiniteSets

CONSTANTS
  Clients,      \* callers of sensor-core, one RPC at a time each
  Workers,      \* gRPC callback threads
  Ids,          \* the camera_id values clients use
  Configured,   \* service -> ids of the instances in InfrastructureConfig
  Levels,       \* zoom and focus levels clients ask for, not only those of
                \* the range [0 - 100] of the protocol
  MinZoom,      \* MIN_NORMALIZED_ZOOM
  MaxZoom,      \* MAX_NORMALIZED_ZOOM
  Rpcs,         \* the RPCs clients use
  Healthy,      \* ids of the instances that answer every call
  Nobody        \* no client, no access

ASSUME ZoomAssumption == {MinZoom, MaxZoom} \subseteq Levels

VARIABLES
  client,   \* client -> idle, asking (in the server's queue) or waiting
  creq,     \* client -> its last request
  worker,   \* worker -> where its handler stands
  wreq,     \* worker -> the request it handles
  wfor,     \* worker -> the client that still waits for the answer, if any
  wres,     \* worker -> the result it will pass to reactor->Finish
  value,    \* register of a backend -> content
  orphan,   \* worker -> a write on the wire whose call ended with an error
  settled   \* register -> the worker of the only write under way, and then the
            \* value of that write if it was acknowledged (history)

vars == <<client, creq, worker, wreq, wfor, wres, value, orphan, settled>>

-------------------------------------------------------------------------------
(* What the fifteen RPCs do.                                               *)

\* The service each RPC ends up at, whether it changes the backend, and what
\* it concerns there.
Op(s, k, a) == [service |-> s, kind |-> k, attribute |-> a]
Operation ==
  [SetZoom                 |-> Op("camera", "write", "zoom"),
   GetZoom                 |-> Op("camera", "read",  "zoom"),
   GoToMinZoom             |-> Op("camera", "write", "zoom"),
   GoToMaxZoom             |-> Op("camera", "write", "zoom"),
   SetFocus                |-> Op("camera", "write", "focus"),
   GetFocus                |-> Op("camera", "read",  "focus"),
   SetAutoFocus            |-> Op("camera", "write", "autoFocus"),
   GetAutoFocus            |-> Op("camera", "read",  "autoFocus"),
   SetStabilization        |-> Op("camera", "write", "stabilization"),
   GetStabilization        |-> Op("camera", "read",  "stabilization"),
   GetInfo                 |-> Op("camera", "read",  "info"),
   GetCapabilities         |-> Op("camera", "read",  "capabilities"),
   SetVideoCapabilityState |-> Op("video",  "write", "capabilityState"),
   GetVideoCapabilityState |-> Op("video",  "read",  "capabilityState"),
   GetVideoCapabilities    |-> Op("video",  "read",  "videoCapabilities")]

ASSUME RequestsAssumption ==
  Ids # {} /\ Rpcs # {} /\ Rpcs \subseteq DOMAIN Operation

\* What a backend may hold.  A capability list is told apart by whether it has
\* members that sensor-core does not know.
Contents(attribute) ==
  CASE attribute \in {"zoom", "focus"} -> Levels
    [] attribute = "info" -> {"info"}
    [] attribute = "capabilities" -> {"known", "withUnknown"}
    [] attribute = "videoCapabilities" -> {"names"}
    [] OTHER -> {"on", "off"}

Arguments(rpc) ==
  IF Operation[rpc].kind = "read" \/ rpc \in {"GoToMinZoom", "GoToMaxZoom"}
  THEN {"none"}
  ELSE Contents(Operation[rpc].attribute)

Requests ==
  UNION {[rpc : {p}, id : Ids, value : Arguments(p)] : p \in Rpcs}
AnyRequest == CHOOSE r \in Requests : TRUE

Register(r) == <<Operation[r.rpc].service, r.id, Operation[r.rpc].attribute>>
IsWrite(r)  == Operation[r.rpc].kind = "write"

\* There is an instance for the request.
Routable(r) == r.id \in Configured[Operation[r.rpc].service]
BackendRegisters == {Register(r) : r \in {r \in Requests : Routable(r)}}

\* What the client means the register to hold.
Meant(r) ==
  CASE r.rpc = "GoToMinZoom" -> MinZoom
    [] r.rpc = "GoToMaxZoom" -> MaxZoom
    [] OTHER -> r.value

\* Fault: minimum and maximum swapped.
ForwardedSwapped(r) ==
  CASE r.rpc = "GoToMinZoom" -> MaxZoom
    [] r.rpc = "GoToMaxZoom" -> MinZoom
    [] OTHER -> r.value

\* What Core forwards: goToMinZoom and goToMaxZoom are setZoom of a constant,
\* and no argument is checked against its range.
Forwarded(r) ==
  CASE r.rpc = "GoToMinZoom" -> MinZoom
    [] r.rpc = "GoToMaxZoom" -> MaxZoom
    [] OTHER -> r.value

\* The answer to GetCapabilities: members the client does not know are dropped.
Shown(v) == IF v = "withUnknown" THEN "known" ELSE v

-------------------------------------------------------------------------------
Init ==
  /\ client = [c \in Clients |-> "idle"]
  /\ creq   = [c \in Clients |-> AnyRequest]
  /\ worker = [w \in Workers |-> "idle"]
  /\ wreq   = [w \in Workers |-> AnyRequest]
  /\ wfor   = [w \in Workers |-> Nobody]
  /\ wres   = [w \in Workers |-> <<"none", "none">>]
  /\ value  \in [BackendRegisters -> UNION {Contents(k[3]) : k \in BackendRegisters}]
  /\ \A k \in BackendRegisters : value[k] \in Contents(k[3])
  /\ orphan  = [w \in Workers |-> Nobody]
  /\ settled = [k \in BackendRegisters |-> Nobody]

\* The workers with a write of register k between acceptance and answer.
Writers(k) ==
  {w \in Workers : worker[w] # "idle" /\ IsWrite(wreq[w]) /\ Register(wreq[w]) = k}
Orphans(k) ==
  {w \in Workers : orphan[w] # Nobody /\ orphan[w].register = k}

-------------------------------------------------------------------------------
(* The clients of sensor-core.                                             *)

Ask(c) ==
  /\ client[c] = "idle"
  /\ client' = [client EXCEPT ![c] = "asking"]
  /\ \E r \in Requests : creq' = [creq EXCEPT ![c] = r]
  /\ UNCHANGED <<worker, wreq, wfor, wres, value, orphan, settled>>

\* A deadline passed, or the client cancelled: it is free to ask again, while
\* a handler that already runs goes on for nobody.  An RPC that waits for a
\* thread is withdrawn; one that gRPC already handed to its executor runs for
\* nobody too, like one given up right after Accept.
GiveUp(c) ==
  /\ client[c] # "idle"
  /\ client' = [client EXCEPT ![c] = "idle"]
  /\ creq' = [creq EXCEPT ![c] = AnyRequest]
  /\ wfor' = [w \in Workers |-> IF wfor[w] = c THEN Nobody ELSE wfor[w]]
  /\ UNCHANGED <<worker, wreq, wres, value, orphan, settled>>

-------------------------------------------------------------------------------
(* The handler of one RPC.                                                 *)

\* A callback thread takes the RPC and enters the method of
\* GrpcCallbackHandler and RequestHandler that it names.
Accept(c, w) ==
  /\ client[c] = "asking" /\ worker[w] = "idle"
  /\ client' = [client EXCEPT ![c] = "waiting"]
  /\ worker' = [worker EXCEPT ![w] = "routing"]
  /\ wreq'   = [wreq EXCEPT ![w] = creq[c]]
  /\ wfor'   = [wfor EXCEPT ![w] = c]
  /\ settled' =
       LET k == Register(creq[c])
       IN  IF IsWrite(creq[c]) /\ Routable(creq[c])
           THEN [settled EXCEPT ![k] =
                   IF Writers(k) = {} /\ Orphans(k) = {} THEN w ELSE Nobody]
           ELSE settled
  /\ UNCHANGED <<creq, wres, value, orphan>>

\* The worker goes on at pc, with result r to answer with.
Step(w, pc, r) ==
  /\ worker' = [worker EXCEPT ![w] = pc]
  /\ wres'   = [wres EXCEPT ![w] = r]
  /\ UNCHANGED <<client, creq, wreq, wfor, settled>>

RoutingError(r) ==
  IF Configured[Operation[r.rpc].service] = {} THEN "notConfigured" ELSE "unavailable"

\* Fault: Core holds a lock while it looks up the client and calls it.
RouteUnderLock(w) ==
  /\ worker[w] = "routing"
  /\ \A v \in Workers \ {w} : worker[v] \notin {"sent", "taken", "refused"}
  /\ IF Routable(wreq[w])
     THEN Step(w, "sent", wres[w])
     ELSE Step(w, "answering", <<"error", RoutingError(wreq[w])>>)
  /\ UNCHANGED <<value, orphan>>

\* Core finds the client of the instance and calls it, or answers an error.
Route(w) ==
  /\ worker[w] = "routing"
  /\ IF Routable(wreq[w])
     THEN Step(w, "sent", wres[w])
     ELSE Step(w, "answering", <<"error", RoutingError(wreq[w])>>)
  /\ UNCHANGED <<value, orphan>>

\* Fault: members the client does not know are passed on.
ReturnUnfiltered(w) ==
  /\ worker[w] \in {"taken", "refused"}
  /\ Step(w, "answering",
          IF worker[w] = "taken" THEN wres[w] ELSE <<"error", "rpc">>)
  /\ UNCHANGED <<value, orphan>>

\* The stub call returns the answer of the backend, as the domain sees it.
Return(w) ==
  /\ worker[w] \in {"taken", "refused"}
  /\ Step(w, "answering",
          IF worker[w] = "taken" THEN <<"ok", Shown(wres[w][2])>>
          ELSE <<"error", "rpc">>)
  /\ UNCHANGED <<value, orphan>>

\* Fault: the status of the call is not looked at.
DisconnectIgnored(w) ==
  /\ worker[w] \in {"sent", "taken", "refused"}
  /\ Step(w, "answering", <<"ok", "done">>)
  /\ \/ UNCHANGED orphan
     \/ /\ worker[w] = "sent" /\ IsWrite(wreq[w]) /\ orphan[w] = Nobody
        /\ orphan' = [orphan EXCEPT ![w] =
             [register |-> Register(wreq[w]), kind |-> "write",
              value |-> Forwarded(wreq[w])]]
  /\ UNCHANGED value

\* The connection to the backend breaks and the stub call returns an error.
\* A request the backend did not take yet is lost or (one per worker) stays on
\* the wire.
Disconnect(w) ==
  /\ worker[w] \in {"sent", "taken", "refused"}
  /\ Step(w, "answering", <<"error", "rpc">>)
  /\ \/ UNCHANGED orphan
     \/ /\ worker[w] = "sent" /\ IsWrite(wreq[w]) /\ orphan[w] = Nobody
        /\ orphan' = [orphan EXCEPT ![w] =
             [register |-> Register(wreq[w]), kind |-> "write",
              value |-> Forwarded(wreq[w])]]
  /\ UNCHANGED value

\* Fault: the thread is never given back.
AnswerKeepsWorker(w) ==
  /\ worker[w] = "answering"
  /\ worker' = [worker EXCEPT ![w] = "answered"]
  /\ wfor' = [wfor EXCEPT ![w] = Nobody]
  /\ client' = [c \in Clients |-> IF wfor[w] = c THEN "idle" ELSE client[c]]
  /\ wreq' = [wreq EXCEPT ![w] = AnyRequest]
  /\ wres' = [wres EXCEPT ![w] = <<"none", "none">>]
  /\ creq' = [c \in Clients |-> IF wfor[w] = c THEN AnyRequest ELSE creq[c]]
  /\ UNCHANGED <<value, orphan, settled>>

\* Fault: the handler returns without reactor->Finish.
AnswerForgetsFinish(w) ==
  /\ worker[w] = "answering"
  /\ worker' = [worker EXCEPT ![w] = "idle"]
  /\ wfor' = [wfor EXCEPT ![w] = Nobody]
  /\ wreq' = [wreq EXCEPT ![w] = AnyRequest]
  /\ wres' = [wres EXCEPT ![w] = <<"none", "none">>]
  /\ UNCHANGED <<client, creq, value, orphan, settled>>

\* reactor->Finish: the answer goes to the client if it still waits, and the
\* thread is free.  An acknowledged write is settled when no other write to
\* its register is under way.
Answer(w) ==
  /\ worker[w] = "answering"
  /\ worker' = [worker EXCEPT ![w] = "idle"]
  /\ wfor'   = [wfor EXCEPT ![w] = Nobody]
  /\ client' = [c \in Clients |-> IF wfor[w] = c THEN "idle" ELSE client[c]]
  /\ wreq'   = [wreq EXCEPT ![w] = AnyRequest]
  /\ wres'   = [wres EXCEPT ![w] = <<"none", "none">>]
  /\ settled' =
       LET k == Register(wreq[w])
       IN  IF IsWrite(wreq[w]) /\ Routable(wreq[w]) /\ settled[k] = w
           THEN [settled EXCEPT ![k] =
                   IF wres[w][1] = "ok" THEN Meant(wreq[w]) ELSE Nobody]
           ELSE settled
  /\ creq'   = [c \in Clients |-> IF wfor[w] = c THEN AnyRequest ELSE creq[c]]
  /\ UNCHANGED <<value, orphan>>

-------------------------------------------------------------------------------
(* The backends.                                                           *)

\* The backend takes the request: a write happens, a read looks.
Take(w) ==
  /\ worker[w] = "sent"
  /\ LET k == Register(wreq[w]) IN
       \/ /\ IsWrite(wreq[w])
          /\ value' = [value EXCEPT ![k] = Forwarded(wreq[w])]
          /\ Step(w, "taken", <<"ok", "done">>)
       \/ /\ ~IsWrite(wreq[w])
          /\ Step(w, "taken", <<"ok", value[k]>>)
          /\ UNCHANGED value
  /\ UNCHANGED orphan

\* The backend answers a status other than OK and does nothing.
Refuse(w) ==
  /\ worker[w] = "sent"
  /\ Step(w, "refused", wres[w])
  /\ UNCHANGED <<value, orphan>>

\* A write left on the wire arrives, or is lost.
Late(w) ==
  /\ orphan[w] # Nobody
  /\ orphan' = [orphan EXCEPT ![w] = Nobody]
  /\ value' \in {value, [value EXCEPT ![orphan[w].register] = orphan[w].value]}
  /\ UNCHANGED <<client, creq, worker, wreq, wfor, wres, settled>>

-------------------------------------------------------------------------------
HandlerStep(w) == Route(w) \/ Return(w) \/ Answer(w)
BackendStep(w) == Take(w) \/ Refuse(w)

Next ==
  \/ \E c \in Clients : Ask(c) \/ GiveUp(c) \/ \E w \in Workers : Accept(c, w)
  \/ \E w \in Workers :
       HandlerStep(w) \/ BackendStep(w) \/ Disconnect(w) \/ Late(w)

Spec == Init /\ [][Next]_vars

\* Every runnable thread runs, the server's queue is served in order, so that
\* a waiting RPC gets one of the threads that become free again and again, and
\* the healthy instances answer.
Fairness ==
  /\ \A w \in Workers : WF_vars(HandlerStep(w))
  /\ \A c \in Clients : SF_vars(\E w \in Workers : Accept(c, w))
  /\ \A w \in Workers : WF_vars(wreq[w].id \in Healthy /\ BackendStep(w))

FairSpec == Spec /\ Fairness

-------------------------------------------------------------------------------
(* Properties.                                                             *)

\* What a request does to a register, for the abstract specification.
Access(r) ==
  [register |-> Register(r), kind |-> Operation[r.rpc].kind, value |-> Meant(r)]
Accesses == {Access(r) : r \in Requests}

Values == Levels \cup {"none", "done", "on", "off", "info", "known",
                       "withUnknown", "names"}

Results == ({"none", "ok"} \X Values)
           \cup ({"error"} \X {"notConfigured", "unavailable", "rpc"})

ASSUME NobodyAssumption ==
  /\ Nobody \notin Clients \cup Workers \cup Values
  /\ Nobody \notin Accesses
  /\ Workers \cap Values = {}

TypeOK ==
  /\ client \in [Clients -> {"idle", "asking", "waiting"}]
  /\ creq \in [Clients -> Requests]
  /\ worker \in [Workers -> {"idle", "routing", "sent", "taken", "refused",
                             "answering"}]
  /\ wreq \in [Workers -> Requests]
  /\ wfor \in [Workers -> Clients \cup {Nobody}]
  /\ wres \in [Workers -> Results]
  /\ value \in [BackendRegisters -> Values]
  /\ \A k \in BackendRegisters : value[k] \in Contents(k[3])
  /\ orphan \in [Workers -> Accesses \cup {Nobody}]
  /\ \A w \in Workers : orphan[w] # Nobody =>
       orphan[w].kind = "write" /\ orphan[w].register \in BackendRegisters
  /\ settled \in [BackendRegisters -> Values \cup Workers \cup {Nobody}]

\* A waiting client is answered by exactly one handler, the one that runs its
\* own request, and no handler answers a client that gave up.
OneHandlerPerClient ==
  \A c \in Clients :
    LET mine == {w \in Workers : wfor[w] = c}
    IN  /\ client[c] = "waiting" <=> Cardinality(mine) = 1
        /\ client[c] # "waiting" <=> mine = {}
        /\ \A w \in mine : worker[w] # "idle" /\ wreq[w] = creq[c]

\* A write that was answered with success stays in effect, with the value the
\* client meant, for as long as no other write to the same register is under
\* way or in doubt: nothing sensor-core does repeats, reorders or redirects it.
AcknowledgedWriteStands ==
  \A k \in BackendRegisters : settled[k] \notin Workers \cup {Nobody}
      => value[k] = settled[k]

\* The requests behave as single accesses to registers that happen between
\* acceptance and answer, at most once.
State(w) ==
  IF worker[w] = "idle" THEN "free"
  ELSE IF worker[w] \in {"routing", "sent", "refused"} THEN "open"
  ELSE IF worker[w] = "taken" \/ wres[w][1] = "ok" THEN "done"
  ELSE "failed"

Promise == INSTANCE Registers WITH
  Nothing  <- Nobody,
  state    <- [w \in Workers |-> State(w)],
  access   <- [w \in Workers |->
                 IF worker[w] = "idle" THEN Nobody ELSE Access(wreq[w])],
  result   <- [w \in Workers |-> <<wres[w][1],
                 IF worker[w] = "taken" THEN Shown(wres[w][2]) ELSE wres[w][2]>>],
  late     <- orphan
ImplementsRegisters == Promise!Spec

\* Every callback thread is inside the stub call of an instance that need not
\* answer.
Starved == \A w \in Workers : worker[w] = "sent" /\ wreq[w].id \notin Healthy

\* A client of a healthy instance is answered however slow the others are, as
\* long as their calls do not hold every callback thread for good: a slow call
\* costs the thread it blocks and holds nothing else the requests share.
HealthyIsAnswered ==
  ([]<>~Starved) =>
    \A c \in Clients :
      (client[c] # "idle" /\ creq[c].id \in Healthy) ~> (client[c] = "idle")
===============================================================================
