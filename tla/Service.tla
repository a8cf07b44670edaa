-------------------------------- MODULE Service --------------------------------
(***************************************************************************)
(* What the layers of sensor-core promise each other about requests, with  *)
(* threads, objects and pointers left out.  The layers below the server    *)
(* are made ready, the server opens, answers the requests it accepted,     *)
(* closes when none is left, and only then may the layers below go.        *)
(* Lifecycle implements it.                                                *)
(***************************************************************************)
CONSTANT Workers   \* as many requests are answered at a time

VARIABLES
  ready,   \* the request handler, Core and the configured clients are there
  phase,   \* of the server: accepting, answering the last requests, or neither
  open     \* the workers with a request accepted and not answered

vars == <<ready, phase, open>>

TypeOK ==
  /\ ready \in BOOLEAN
  /\ phase \in {"closed", "open", "closing"}
  /\ open \in SUBSET Workers

Init == ready = FALSE /\ phase = "closed" /\ open = {}

Prepare == phase = "closed" /\ ~ready /\ ready' = TRUE  /\ UNCHANGED <<phase, open>>
Dispose == phase = "closed" /\ ready  /\ ready' = FALSE /\ UNCHANGED <<phase, open>>

Open == phase = "closed" /\ ready /\ phase' = "open" /\ UNCHANGED <<ready, open>>

Accept(w) ==
  /\ phase = "open" /\ w \notin open
  /\ open' = open \cup {w}
  /\ UNCHANGED <<ready, phase>>

Answer(w) ==
  /\ w \in open
  /\ open' = open \ {w}
  /\ UNCHANGED <<ready, phase>>

Shutdown == phase = "open" /\ phase' = "closing" /\ UNCHANGED <<ready, open>>

Close ==
  /\ phase = "closing" /\ open = {}
  /\ phase' = "closed"
  /\ UNCHANGED <<ready, open>>

Next ==
  \/ Prepare \/ Dispose \/ Open \/ Shutdown \/ Close
  \/ \E w \in Workers : Accept(w) \/ Answer(w)

Spec == Init /\ [][Next]_vars

\* A request in progress finds the layers below the server in place: what the
\* order of starts and stops in sensor-core is for.
OpenMeansReady == open # {} => ready
===============================================================================
