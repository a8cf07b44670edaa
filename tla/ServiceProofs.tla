----------------------------- MODULE ServiceProofs -----------------------------
(* Service keeps its promise, for every set of workers.                      *)
EXTENDS Service, TLAPS

\* The phases of the server say what stands below it and what is in progress.
Inv ==
  /\ TypeOK
  /\ phase # "closed" => ready
  /\ phase = "closed" => open = {}

\* Each step of Service keeps the invariant; only Open, Close and Dispose touch
\* what it relates.
LEMMA InvStep == Inv /\ [Next]_vars => Inv'
<1> SUFFICES ASSUME Inv, [Next]_vars PROVE Inv'
  OBVIOUS
<1> USE DEF Inv, TypeOK
<1>1. CASE Prepare
  BY <1>1 DEF Prepare
<1>2. CASE Dispose
  BY <1>2 DEF Dispose
<1>3. CASE Open
  BY <1>3 DEF Open
<1>4. CASE Shutdown
  BY <1>4 DEF Shutdown
<1>5. CASE Close
  BY <1>5 DEF Close
<1>6. ASSUME NEW w \in Workers, Accept(w) PROVE Inv'
  BY <1>6 DEF Accept
<1>7. ASSUME NEW w \in Workers, Answer(w) PROVE Inv'
  BY <1>7 DEF Answer
<1>8. CASE UNCHANGED vars
  BY <1>8 DEF vars
<1>9. QED
  BY <1>1, <1>2, <1>3, <1>4, <1>5, <1>6, <1>7, <1>8 DEF Next

\* A request in progress finds the request handler, Core and every configured
\* client in place.
THEOREM OpenRequestsFindEverythingReady == Spec => []OpenMeansReady
<1>1. Init => Inv
  BY DEF Init, Inv, TypeOK
<1>2. Inv => OpenMeansReady
  BY DEF Inv, OpenMeansReady
<1>3. QED
  BY <1>1, <1>2, InvStep, PTL DEF Spec
===============================================================================
