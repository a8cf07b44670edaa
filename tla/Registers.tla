------------------------------- MODULE Registers -------------------------------
(***************************************************************************)
(* What sensor-core promises about the cameras behind it: each is a set of *)
(* registers, and a request reads or writes one of them at one instant     *)
(* between its acceptance and its answer, or not at all.  A success says   *)
(* that the instant has been, and a read returns what was there at that    *)
(* instant.  An error says nothing of a write: it may have happened, it    *)
(* may never happen, and it may still happen later, but only once.         *)
(* Requests implements it.                                                 *)
(***************************************************************************)
CONSTANTS
  Workers,       \* as many requests are answered at a time
  Accesses,      \* what a request may do: [register, kind, value]
  Nothing,       \* not an access
  Shown(_)       \* what an answer shows of the content of a register

VARIABLES
  value,    \* register -> content
  state,    \* worker -> where its request stands
  access,   \* worker -> what its request does
  result,   \* worker -> what its answer will be
  late      \* worker -> a write it answered with an error, still under way

vars == <<value, state, access, result, late>>

Init ==
  /\ state = [w \in Workers |-> "free"]
  /\ late  = [w \in Workers |-> Nothing]

Begin(w) ==
  /\ state[w] = "free"
  /\ state' = [state EXCEPT ![w] = "open"]
  /\ \E a \in Accesses : access' = [access EXCEPT ![w] = a]
  /\ UNCHANGED <<value, result, late>>

\* The instant at which the request reads or writes its register.
Effect(w) ==
  /\ state[w] = "open" /\ access[w] # Nothing
  /\ state' = [state EXCEPT ![w] = "done"]
  /\ LET a == access[w] IN
       \/ /\ a.kind = "read"
          /\ result' = [result EXCEPT ![w] = <<"ok", Shown(value[a.register])>>]
          /\ UNCHANGED value
       \/ /\ a.kind = "write"
          /\ result' = [result EXCEPT ![w] = <<"ok", "done">>]
          /\ value' = [value EXCEPT ![a.register] = a.value]
  /\ UNCHANGED <<access, late>>

\* The answer will be an error.  A write that did not happen yet may stay
\* under way.
Fail(w) ==
  /\ state[w] \in {"open", "done"}
  /\ state' = [state EXCEPT ![w] = "failed"]
  /\ \/ UNCHANGED late
     \/ /\ state[w] = "open" /\ late[w] = Nothing
        /\ late' = [late EXCEPT ![w] = access[w]]
  /\ \E e \in {"notConfigured", "unavailable", "rpc"} :
       result' = [result EXCEPT ![w] = <<"error", e>>]
  /\ UNCHANGED <<value, access>>

End(w) ==
  /\ state[w] \in {"done", "failed"}
  /\ state' = [state EXCEPT ![w] = "free"]
  /\ access' = [access EXCEPT ![w] = Nothing]
  /\ result' = [result EXCEPT ![w] = <<"none", "none">>]
  /\ UNCHANGED <<value, late>>

LateEffect(w) ==
  /\ late[w] # Nothing
  /\ late' = [late EXCEPT ![w] = Nothing]
  /\ value' \in {value, [value EXCEPT ![late[w].register] = late[w].value]}
  /\ UNCHANGED <<state, access, result>>

Next ==
  \E w \in Workers : Begin(w) \/ Effect(w) \/ Fail(w) \/ End(w) \/ LateEffect(w)

Spec == Init /\ [][Next]_vars
===============================================================================
