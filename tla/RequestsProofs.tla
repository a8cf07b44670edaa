----------------------------- MODULE RequestsProofs ----------------------------
(***************************************************************************)
(* Proofs about Requests, for every set of clients, callback threads,      *)
(* instances, levels and RPCs.                                             *)
(*                                                                         *)
(* A client and its handler are tied together by wfor, and an acknowledged *)
(* write to the only write under way when it was accepted.  Inv says how,  *)
(* also for handlers whose client gave up and for writes whose call ended  *)
(* with an error while they were still on the wire.                        *)
(***************************************************************************)
EXTENDS Requests, FiniteSetTheorems, TLAPS

\* A handler has a client of the backend from routing on, and what the backend
\* took it answers with success.
HandlerInv ==
  \A w \in Workers :
    /\ worker[w] \in {"sent", "taken", "refused"} => Routable(wreq[w])
    /\ worker[w] = "taken" => wres[w][1] = "ok"

\* The handler that answers a client handles its request, there is one for each
\* client that waits, and none for the others.
ClientInv ==
  /\ \A w \in Workers : wfor[w] # Nobody =>
       /\ worker[w] # "idle"
       /\ client[wfor[w]] = "waiting"
       /\ wreq[w] = creq[wfor[w]]
  /\ \A v, w \in Workers : wfor[v] = wfor[w] /\ wfor[v] # Nobody => v = w
  /\ \A c \in Clients : client[c] = "waiting" => \E w \in Workers : wfor[w] = c

\* What the history variable says of a register: nothing, that one write alone
\* is under way, or that it ended well and nothing came after it.
Undisturbed(k) ==
  /\ settled[k] \in Workers =>
       /\ Writers(k) = {settled[k]}
       /\ LET w == settled[k] IN
            \/ Orphans(k) = {} /\ worker[w] \in {"routing", "sent", "refused"}
            \/ /\ Orphans(k) = {} /\ worker[w] \in {"taken", "answering"}
               /\ value[k] = Meant(wreq[w])
            \/ worker[w] = "answering" /\ wres[w][1] = "error"
  /\ settled[k] \in Values =>
       Writers(k) = {} /\ Orphans(k) = {} /\ value[k] = settled[k]

SettledInv == \A k \in BackendRegisters : Undisturbed(k)

Inv ==
  /\ TypeOK
  /\ HandlerInv
  /\ ClientInv
  /\ SettledInv
-------------------------------------------------------------------------------
(* Facts about the operators of Requests.                                  *)

\* Every register holds values.
LEMMA ContentsAreValues == \A a : Contents(a) \subseteq Values
  BY DEF Contents, Values

\* The table of operations has reads and writes and nothing else.
LEMMA RpcKinds == \A p \in Rpcs : Operation[p].kind \in {"read", "write"}
  BY RequestsAssumption DEF Operation, Op

\* The two RPCs without an argument are writes of the zoom level.
LEMMA ZoomRpcs ==
  \A p \in {"GoToMinZoom", "GoToMaxZoom"} :
    Operation[p].kind = "write" /\ Operation[p].attribute = "zoom"
  BY DEF Operation, Op

\* What a request is made of.
LEMMA RequestFields ==
  ASSUME NEW r \in Requests
  PROVE  r.rpc \in Rpcs /\ r.id \in Ids /\ r.value \in Arguments(r.rpc)
<1>1. PICK p \in Rpcs : r \in [rpc : {p}, id : Ids, value : Arguments(p)]
  BY DEF Requests
<1>2. QED
  BY <1>1

\* There is a request, so the one an idle handler is shown with is one.
LEMMA AnyRequestType == AnyRequest \in Requests
<1>1. \A p \in Rpcs : Arguments(p) # {}
  BY ZoomAssumption DEF Arguments, Contents
<1>2. PICK p \in Rpcs, i \in Ids : TRUE
  BY RequestsAssumption
<1>3. PICK a \in Arguments(p) : TRUE
  BY <1>1
<1>4. [rpc |-> p, id |-> i, value |-> a]
        \in [rpc : {p}, id : Ids, value : Arguments(p)]
  BY <1>2, <1>3
<1>5. [rpc |-> p, id |-> i, value |-> a] \in Requests
  BY <1>4 DEF Requests
<1>6. QED
  BY <1>5 DEF AnyRequest

\* A request has a register behind it exactly if it can be routed.
LEMMA RoutableRegister ==
  ASSUME NEW r \in Requests
  PROVE  Routable(r) <=> Register(r) \in BackendRegisters
  BY DEF BackendRegisters, Register, Routable

\* Core forwards what the client means, and the register can hold it.
LEMMA ForwardedFits ==
  ASSUME NEW r \in Requests, IsWrite(r)
  PROVE  /\ Forwarded(r) = Meant(r)
         /\ Forwarded(r) \in Contents(Register(r)[3])
<1>1. Register(r)[3] = Operation[r.rpc].attribute
  BY DEF Register
<1>2. CASE r.rpc \in {"GoToMinZoom", "GoToMaxZoom"}
  BY <1>1, <1>2, ZoomRpcs, ZoomAssumption DEF Forwarded, Meant, Contents
<1>3. CASE r.rpc \notin {"GoToMinZoom", "GoToMaxZoom"}
  <2>1. r.value \in Contents(Operation[r.rpc].attribute)
    BY <1>3, RequestFields DEF Arguments, IsWrite
  <2>2. QED
    BY <1>1, <1>3, <2>1 DEF Forwarded, Meant
<1>4. QED
  BY <1>2, <1>3

\* What an answer shows is a value.
LEMMA ShownIsValue == \A v \in Values : Shown(v) \in Values
  BY DEF Shown, Values

-------------------------------------------------------------------------------
(* Types.                                                                  *)

\* A step of a handler keeps its place and its result in their types.
LEMMA StepTypes ==
  ASSUME TypeOK, NEW w \in Workers, NEW r \in Results,
         NEW pc \in {"idle", "routing", "sent", "taken", "refused", "answering"},
         Step(w, pc, r), UNCHANGED <<value, orphan>>
  PROVE  TypeOK'
  BY DEF TypeOK, Step, BackendRegisters

\* The types hold at first: nobody waits, and the registers hold what they may.
LEMMA InitTypes == Init => TypeOK
<1> SUFFICES ASSUME Init PROVE TypeOK
  OBVIOUS
<1>1. value \in [BackendRegisters -> Values]
  BY ContentsAreValues DEF Init
<1>2. <<"none", "none">> \in Results
  BY DEF Results, Values
<1>3. QED
  BY <1>1, <1>2, AnyRequestType DEF Init, TypeOK

\* No step takes a variable out of its type.
LEMMA TypeStep == TypeOK /\ HandlerInv /\ [Next]_vars => TypeOK'
<1> SUFFICES ASSUME TypeOK, HandlerInv, [Next]_vars PROVE TypeOK'
  OBVIOUS
<1> USE DEF TypeOK
<1>1. ASSUME NEW c \in Clients, Ask(c) PROVE TypeOK'
  BY <1>1 DEF Ask
<1>2. ASSUME NEW c \in Clients, GiveUp(c) PROVE TypeOK'
  BY <1>2, AnyRequestType DEF GiveUp
<1>3. ASSUME NEW c \in Clients, NEW w \in Workers, Accept(c, w) PROVE TypeOK'
  <2>1. settled' \in [BackendRegisters -> Values \cup Workers \cup {Nobody}]
    BY <1>3 DEF Accept
  <2>2. QED
    BY <1>3, <2>1 DEF Accept
<1>4. ASSUME NEW w \in Workers, Route(w) PROVE TypeOK'
  <2>1. <<"error", RoutingError(wreq[w])>> \in Results
    BY DEF RoutingError, Results
  <2>2. QED
    BY <1>4, <2>1, StepTypes DEF Route
<1>5. ASSUME NEW w \in Workers, Return(w) PROVE TypeOK'
  <2>1. <<"error", "rpc">> \in Results
    BY DEF Results
  <2>2. worker[w] = "taken" => <<"ok", Shown(wres[w][2])>> \in Results
    BY ShownIsValue DEF Results, HandlerInv
  <2>3. QED
    BY <1>5, <2>1, <2>2, StepTypes DEF Return
<1>6. ASSUME NEW w \in Workers, Disconnect(w) PROVE TypeOK'
  <2> DEFINE left == [register |-> Register(wreq[w]), kind |-> "write",
                      value |-> Forwarded(wreq[w])]
  <2>1. worker[w] = "sent" /\ IsWrite(wreq[w]) =>
          left \in Accesses /\ left.register \in BackendRegisters /\ left.kind = "write"
    <3>1. SUFFICES ASSUME worker[w] = "sent", IsWrite(wreq[w])
                   PROVE  left \in Accesses /\ left.register \in BackendRegisters
      OBVIOUS
    <3>2. left = Access(wreq[w])
      BY <3>1, ForwardedFits DEF Access, IsWrite
    <3>3. left.register \in BackendRegisters
      BY <3>1, RoutableRegister DEF HandlerInv
    <3>4. QED
      BY <3>2, <3>3 DEF Accesses
  <2>2. /\ orphan' \in [Workers -> Accesses \cup {Nobody}]
        /\ \A v \in Workers : orphan'[v] # Nobody =>
             orphan'[v].kind = "write" /\ orphan'[v].register \in BackendRegisters
    <3> HIDE DEF left
    <3>1. orphan' = orphan \/ /\ worker[w] = "sent" /\ IsWrite(wreq[w])
                              /\ orphan' = [orphan EXCEPT ![w] = left]
      BY <1>6 DEF Disconnect, left
    <3>2. QED
      BY <2>1, <3>1
  <2>3. QED
    BY <1>6, <2>2 DEF Disconnect, Step, Results
<1>7. ASSUME NEW w \in Workers, Answer(w) PROVE TypeOK'
  <2>1. IsWrite(wreq[w]) => Meant(wreq[w]) \in Values
    BY ForwardedFits, ContentsAreValues
  <2>2. settled' \in [BackendRegisters -> Values \cup Workers \cup {Nobody}]
    BY <1>7, <2>1 DEF Answer
  <2>3. <<"none", "none">> \in Results
    BY DEF Results, Values
  <2>4. QED
    BY <1>7, <2>2, <2>3, AnyRequestType DEF Answer
<1>8. ASSUME NEW w \in Workers, Take(w) PROVE TypeOK'
  <2> DEFINE k == Register(wreq[w])
  <2>1. k \in BackendRegisters
    BY <1>8, RoutableRegister DEF Take, HandlerInv
  <2>2. IsWrite(wreq[w]) => Forwarded(wreq[w]) \in Contents(k[3])
    BY ForwardedFits
  <2> HIDE DEF k
  <2>3. /\ value' \in [BackendRegisters -> Values]
        /\ \A j \in BackendRegisters : value'[j] \in Contents(j[3])
    BY <1>8, <2>1, <2>2, ContentsAreValues DEF Take, k
  <2>4. <<"ok", "done">> \in Results /\ <<"ok", value[k]>> \in Results
    BY <2>1 DEF Results, Values
  <2>5. QED
    BY <1>8, <2>3, <2>4 DEF Take, Step, k
<1>9. ASSUME NEW w \in Workers, Refuse(w) PROVE TypeOK'
  BY <1>9, StepTypes DEF Refuse
<1>10. ASSUME NEW w \in Workers, Late(w) PROVE TypeOK'
  <2>1. PICK r \in Requests : orphan[w] = Access(r)
    BY <1>10, NobodyAssumption DEF Late, Accesses
  <2>2. IsWrite(r) /\ Register(r) \in BackendRegisters
    BY <1>10, <2>1 DEF Late, Access, IsWrite
  <2>3. orphan[w].value \in Contents(orphan[w].register[3])
    BY <2>1, <2>2, ForwardedFits DEF Access
  <2>4. QED
    BY <1>10, <2>3, ContentsAreValues DEF Late
<1>11. ASSUME UNCHANGED vars PROVE TypeOK'
  BY <1>11 DEF vars
<1>12. QED
  BY <1>1, <1>2, <1>3, <1>4, <1>5, <1>6, <1>7, <1>8, <1>9, <1>10, <1>11
  DEF Next, HandlerStep, BackendStep

-------------------------------------------------------------------------------
(* The invariants, each kept by every step.                                *)

\* No handler waits for a backend its request cannot be routed to.
LEMMA HandlerStepInv == TypeOK /\ HandlerInv /\ [Next]_vars => HandlerInv'
<1> SUFFICES ASSUME TypeOK, HandlerInv, [Next]_vars PROVE HandlerInv'
  OBVIOUS
<1> USE DEF TypeOK, HandlerInv
<1>1. ASSUME NEW c \in Clients,
             Ask(c) \/ GiveUp(c) \/ \E w \in Workers : Accept(c, w)
      PROVE  HandlerInv'
  BY <1>1 DEF Ask, GiveUp, Accept, Routable
<1>2. ASSUME NEW w \in Workers, Route(w) \/ Return(w) \/ Disconnect(w)
      PROVE  HandlerInv'
  BY <1>2 DEF Route, Return, Disconnect, Step, Routable
<1>3. ASSUME NEW w \in Workers, Answer(w) PROVE HandlerInv'
  BY <1>3 DEF Answer, Routable
<1>4. ASSUME NEW w \in Workers, Take(w) \/ Refuse(w) PROVE HandlerInv'
  BY <1>4 DEF Take, Refuse, Step, Routable
<1>5. ASSUME NEW w \in Workers, Late(w) PROVE HandlerInv'
  BY <1>5 DEF Late, Routable
<1>6. ASSUME UNCHANGED vars PROVE HandlerInv'
  BY <1>6 DEF vars, Routable
<1>7. QED
  BY <1>1, <1>2, <1>3, <1>4, <1>5, <1>6 DEF Next, HandlerStep, BackendStep

\* Clients and handlers stay paired: a client that gives up leaves its handler,
\* and a handler that answers leaves its client.
LEMMA ClientStepInv == TypeOK /\ ClientInv /\ [Next]_vars => ClientInv'
<1> SUFFICES ASSUME TypeOK, ClientInv, [Next]_vars PROVE ClientInv'
  OBVIOUS
<1> USE NobodyAssumption DEF TypeOK, ClientInv
<1>1. ASSUME NEW c \in Clients, Ask(c) PROVE ClientInv'
  BY <1>1 DEF Ask
<1>2. ASSUME NEW c \in Clients, GiveUp(c) PROVE ClientInv'
  BY <1>2 DEF GiveUp
<1>3. ASSUME NEW c \in Clients, NEW w \in Workers, Accept(c, w)
      PROVE  ClientInv'
  <2>1. wfor[w] = Nobody /\ \A v \in Workers : wfor[v] # c
    BY <1>3 DEF Accept
  <2>2. QED
    BY <1>3, <2>1 DEF Accept
<1>4. ASSUME NEW w \in Workers,
             Route(w) \/ Return(w) \/ Disconnect(w) \/ Take(w) \/ Refuse(w)
      PROVE  ClientInv'
  <2>1. UNCHANGED <<client, creq, wreq, wfor>>
    BY <1>4 DEF Route, Return, Disconnect, Take, Refuse, Step
  <2>2. \A v \in Workers : worker[v] # "idle" => worker'[v] # "idle"
    BY <1>4 DEF Route, Return, Disconnect, Take, Refuse, Step
  <2>3. QED
    BY <2>1, <2>2
<1>5. ASSUME NEW w \in Workers, Answer(w) PROVE ClientInv'
  BY <1>5 DEF Answer
<1>6. ASSUME (\E w \in Workers : Late(w)) \/ UNCHANGED vars PROVE ClientInv'
  BY <1>6 DEF Late, vars
<1>7. QED
  BY <1>1, <1>2, <1>3, <1>4, <1>5, <1>6 DEF Next, HandlerStep, BackendStep

\* A register nothing happens to, and the write under way on it, stay as they
\* are.
LEMMA Frame ==
  ASSUME NEW k \in BackendRegisters, Undisturbed(k),
         Writers(k)' = Writers(k), Orphans(k)' = Orphans(k),
         settled'[k] = settled[k], value'[k] = value[k],
         \A w \in Writers(k) : /\ worker'[w] = worker[w]
                               /\ wreq'[w] = wreq[w]
                               /\ wres'[w] = wres[w]
  PROVE  Undisturbed(k)'
  BY DEF Undisturbed

\* An acknowledged write keeps its register until another write comes.
LEMMA SettledStepInv ==
  TypeOK /\ HandlerInv /\ SettledInv /\ [Next]_vars => SettledInv'
<1> SUFFICES ASSUME TypeOK, HandlerInv, SettledInv, [Next]_vars,
                    NEW k \in BackendRegisters
             PROVE  Undisturbed(k)'
  BY DEF SettledInv, BackendRegisters
<1>0. Undisturbed(k)
  BY DEF SettledInv
<1> USE NobodyAssumption DEF TypeOK
<1>1. ASSUME NEW c \in Clients, Ask(c) \/ GiveUp(c) PROVE Undisturbed(k)'
  BY <1>0, <1>1, Frame DEF Ask, GiveUp, Writers, Orphans
<1>2. ASSUME NEW c \in Clients, NEW w \in Workers, Accept(c, w)
      PROVE  Undisturbed(k)'
  <2>1. Orphans(k)' = Orphans(k) /\ value'[k] = value[k]
    BY <1>2 DEF Accept, Orphans
  <2>2. CASE IsWrite(creq[c]) /\ Register(creq[c]) = k
    <3>1. Writers(k)' = Writers(k) \cup {w}
      BY <1>2, <2>2 DEF Accept, Writers, IsWrite, Register
    <3>2. settled'[k] = IF Writers(k) = {} /\ Orphans(k) = {} THEN w ELSE Nobody
      BY <1>2, <2>2, RoutableRegister DEF Accept
    <3>3. worker'[w] = "routing"
      BY <1>2 DEF Accept
    <3>4. QED
      BY <2>1, <3>1, <3>2, <3>3 DEF Undisturbed
  <2>3. CASE ~(IsWrite(creq[c]) /\ Register(creq[c]) = k)
    <3>1. Writers(k)' = Writers(k) /\ w \notin Writers(k)
      BY <1>2, <2>3 DEF Accept, Writers, IsWrite, Register
    <3>2. settled'[k] = settled[k]
      BY <1>2, <2>3 DEF Accept
    <3>3. QED
      BY <1>0, <1>2, <2>1, <3>1, <3>2, Frame DEF Accept, Writers
  <2>4. QED
    BY <2>2, <2>3
<1>3. ASSUME NEW w \in Workers,
             Route(w) \/ Return(w) \/ Disconnect(w) \/ Take(w) \/ Refuse(w)
      PROVE  Undisturbed(k)'
  <2>1. PICK pc, r : /\ pc \in {"sent", "taken", "refused", "answering"}
                     /\ Step(w, pc, r)
    BY <1>3 DEF Route, Return, Disconnect, Take, Refuse
  <2>2. Writers(k)' = Writers(k) /\ settled' = settled /\ wreq' = wreq
    BY <1>3, <2>1
    DEF Writers, Step, Route, Return, Disconnect, Take, Refuse, IsWrite, Register
  <2>3. \A v \in Workers \ {w} : worker'[v] = worker[v] /\ wres'[v] = wres[v]
    BY <2>1 DEF Step
  <2>4. CASE w \notin Writers(k)
    <3>0. ~(IsWrite(wreq[w]) /\ Register(wreq[w]) = k)
      BY <1>3, <2>4 DEF Writers, Route, Return, Disconnect, Take, Refuse
    <3>1. Orphans(k)' = Orphans(k)
      BY <1>3, <3>0 DEF Orphans, Route, Return, Disconnect, Take, Refuse
    <3>2. value'[k] = value[k]
      BY <1>3, <3>0 DEF Route, Return, Disconnect, Take, Refuse
    <3>3. QED
      BY <1>0, <2>2, <2>3, <2>4, <3>1, <3>2, Frame DEF Writers
  <2>5. CASE w \in Writers(k) /\ settled[k] = w
    <3>0. IsWrite(wreq[w]) /\ Register(wreq[w]) = k /\ Writers(k) = {w}
      BY <1>0, <2>5 DEF Writers, Undisturbed
    <3>1. CASE Route(w)
      BY <1>0, <2>2, <2>5, <3>0, <3>1, RoutableRegister
      DEF Route, Step, Undisturbed, Orphans
    <3>2. CASE Return(w)
      BY <1>0, <2>2, <2>5, <3>0, <3>2 DEF Return, Step, Undisturbed, Orphans
    <3>3. CASE Disconnect(w)
      BY <1>0, <2>2, <2>5, <3>0, <3>3 DEF Disconnect, Step, Undisturbed
    <3>4. CASE Take(w)
      BY <1>0, <2>2, <2>5, <3>0, <3>4, ForwardedFits
      DEF Take, Step, Undisturbed, Orphans
    <3>5. CASE Refuse(w)
      BY <1>0, <2>2, <2>5, <3>0, <3>5 DEF Refuse, Step, Undisturbed, Orphans
    <3>6. QED
      BY <1>3, <3>1, <3>2, <3>3, <3>4, <3>5
  <2>6. CASE w \in Writers(k) /\ settled[k] # w
    <3>1. settled[k] = Nobody
      BY <1>0, <2>6 DEF Undisturbed
    <3>2. QED
      BY <2>2, <3>1 DEF Undisturbed
  <2>7. QED
    BY <2>4, <2>5, <2>6
<1>4. ASSUME NEW w \in Workers, Answer(w) PROVE Undisturbed(k)'
  <2>1. Orphans(k)' = Orphans(k) /\ value'[k] = value[k]
    BY <1>4 DEF Answer, Orphans
  <2>2. CASE w \in Writers(k)
    <3>1. IsWrite(wreq[w]) /\ Register(wreq[w]) = k /\ Routable(wreq[w])
      BY <2>2, RoutableRegister DEF Writers
    <3>2. Writers(k)' = Writers(k) \ {w}
      BY <1>4 DEF Answer, Writers, IsWrite, Register
    <3>3. CASE settled[k] = w
      <4>1. Writers(k)' = {}
        BY <1>0, <3>2, <3>3 DEF Undisturbed
      <4>2. CASE wres[w][1] = "ok"
        <5>1. Orphans(k) = {} /\ value[k] = Meant(wreq[w])
          BY <1>0, <1>4, <3>3, <4>2 DEF Undisturbed, Answer
        <5>2. settled'[k] = Meant(wreq[w]) /\ Meant(wreq[w]) \in Values
          BY <1>4, <3>1, <3>3, <4>2, ForwardedFits, ContentsAreValues DEF Answer
        <5>3. QED
          BY <2>1, <4>1, <5>1, <5>2 DEF Undisturbed
      <4>3. CASE wres[w][1] # "ok"
        <5>1. settled'[k] = Nobody
          BY <1>4, <3>1, <3>3, <4>3 DEF Answer
        <5>2. QED
          BY <5>1 DEF Undisturbed
      <4>4. QED
        BY <4>2, <4>3
    <3>4. CASE settled[k] # w
      <4>1. settled[k] = Nobody
        BY <1>0, <2>2, <3>4 DEF Undisturbed
      <4>2. settled'[k] = Nobody
        BY <1>4, <3>1, <3>4, <4>1 DEF Answer
      <4>3. QED
        BY <4>2 DEF Undisturbed
    <3>5. QED
      BY <3>3, <3>4
  <2>3. CASE w \notin Writers(k)
    <3>1. ~(IsWrite(wreq[w]) /\ Register(wreq[w]) = k)
      BY <1>4, <2>3 DEF Answer, Writers
    <3>2. Writers(k)' = Writers(k)
      BY <1>4, <2>3 DEF Answer, Writers, IsWrite, Register
    <3>3. settled'[k] = settled[k]
      BY <1>4, <3>1 DEF Answer
    <3>4. QED
      BY <1>0, <1>4, <2>1, <2>3, <3>2, <3>3, Frame DEF Answer, Writers
  <2>4. QED
    BY <2>2, <2>3
<1>5. ASSUME NEW w \in Workers, Late(w) PROVE Undisturbed(k)'
  <2>1. Writers(k)' = Writers(k) /\ UNCHANGED <<worker, wreq, wres, settled>>
    BY <1>5 DEF Late, Writers, IsWrite, Register
  <2>2. CASE orphan[w].register = k
    <3>1. w \in Orphans(k)
      BY <1>5, <2>2 DEF Late, Orphans
    <3>2. QED
      BY <1>0, <2>1, <3>1 DEF Undisturbed
  <2>3. CASE orphan[w].register # k
    <3>1. Orphans(k)' = Orphans(k) /\ value'[k] = value[k]
      BY <1>5, <2>3 DEF Late, Orphans
    <3>2. QED
      BY <1>0, <2>1, <3>1, Frame
  <2>4. QED
    BY <2>2, <2>3
<1>6. ASSUME UNCHANGED vars PROVE Undisturbed(k)'
  BY <1>0, <1>6, Frame DEF vars, Writers, Orphans
<1>7. QED
  BY <1>1, <1>2, <1>3, <1>4, <1>5, <1>6 DEF Next, HandlerStep, BackendStep

\* The server starts in the invariant: no request, nothing settled.
LEMMA InitInv == Init => Inv
<1> SUFFICES ASSUME Init PROVE Inv
  OBVIOUS
<1>1. HandlerInv /\ ClientInv
  BY DEF Init, HandlerInv, ClientInv
<1>2. SettledInv
  BY NobodyAssumption DEF Init, SettledInv, Undisturbed
<1>3. QED
  BY <1>1, <1>2, InitTypes DEF Inv

\* Inv is an invariant of Requests.
LEMMA Invariance == Spec => []Inv
<1>1. Inv /\ [Next]_vars => Inv'
  BY TypeStep, HandlerStepInv, ClientStepInv, SettledStepInv DEF Inv
<1>2. QED
  BY <1>1, InitInv, PTL DEF Spec

-------------------------------------------------------------------------------
(* Theorems.                                                               *)

\* Every variable of Requests keeps its type.
THEOREM RequestsTypeCorrect == Spec => []TypeOK
<1>1. Inv => TypeOK
  BY DEF Inv
<1>2. QED
  BY <1>1, Invariance, PTL

\* A waiting client is served by one handler, the one of its request, however
\* many clients gave up before.
THEOREM ClientsHaveOneHandler == Spec => []OneHandlerPerClient
<1>1. Inv => OneHandlerPerClient
  <2> SUFFICES ASSUME Inv, NEW c \in Clients
               PROVE  LET mine == {w \in Workers : wfor[w] = c}
                      IN  /\ client[c] = "waiting" <=> Cardinality(mine) = 1
                          /\ client[c] # "waiting" <=> mine = {}
                          /\ \A w \in mine : worker[w] # "idle" /\ wreq[w] = creq[c]
    BY DEF OneHandlerPerClient
  <2> DEFINE mine == {w \in Workers : wfor[w] = c}
  <2>1. c # Nobody
    BY NobodyAssumption
  <2>2. \A w \in mine : worker[w] # "idle" /\ client[c] = "waiting" /\ wreq[w] = creq[c]
    BY <2>1 DEF Inv, ClientInv
  <2>3. ASSUME client[c] = "waiting" PROVE Cardinality(mine) = 1 /\ mine # {}
    <3>1. PICK w \in Workers : wfor[w] = c
      BY <2>3 DEF Inv, ClientInv
    <3>2. mine = {w}
      BY <2>1, <3>1 DEF Inv, ClientInv
    <3>3. QED
      BY <3>2, FS_Singleton
  <2>4. ASSUME client[c] # "waiting" PROVE mine = {} /\ Cardinality(mine) # 1
    <3>1. mine = {}
      BY <2>2, <2>4
    <3>2. QED
      BY <3>1, FS_EmptySet
  <2>5. QED
    BY <2>2, <2>3, <2>4
<1>2. QED
  BY <1>1, Invariance, PTL

\* An acknowledged write stands until another one is accepted for its register.
THEOREM AcknowledgedWritesStand == Spec => []AcknowledgedWriteStands
<1>1. Inv => AcknowledgedWriteStands
  BY DEF Inv, TypeOK, SettledInv, Undisturbed, AcknowledgedWriteStands
<1>2. QED
  BY <1>1, Invariance, PTL

-------------------------------------------------------------------------------
(* Requests implements Registers.                                          *)

\* No request is in progress and no write on the wire at the start.
LEMMA InitImplements == Init => Promise!Init
  BY DEF Init, Promise!Init, State

\* Every step is a step of Registers or a stutter: the backend's answer is the
\* instant of the access, and an error ends a request that had its instant or
\* not.
LEMMA StepImplements == Inv /\ [Next]_vars => [Promise!Next]_(Promise!vars)
<1> SUFFICES ASSUME Inv, [Next]_vars
             PROVE  \/ \E w \in Workers :
                         \/ Promise!Begin(w) \/ Promise!Effect(w) \/ Promise!Fail(w)
                         \/ Promise!End(w) \/ Promise!LateEffect(w)
                    \/ UNCHANGED Promise!vars
  BY DEF Promise!Next
<1> USE DEF Inv, TypeOK
<1> DEFINE state == [v \in Workers |-> State(v)]
           access == [v \in Workers |->
                        IF worker[v] = "idle" THEN Nobody ELSE Access(wreq[v])]
           result == [v \in Workers |-> <<wres[v][1],
                        IF worker[v] = "taken" THEN Shown(wres[v][2])
                        ELSE wres[v][2]>>]
<1>1. ASSUME NEW c \in Clients, Ask(c) \/ GiveUp(c)
      PROVE  UNCHANGED Promise!vars
  BY <1>1 DEF Ask, GiveUp, Promise!vars, State
<1>2. ASSUME NEW c \in Clients, NEW w \in Workers, Accept(c, w)
      PROVE  Promise!Begin(w)
  <2>1. state[w] = "free" /\ state' = [state EXCEPT ![w] = "open"]
    BY <1>2 DEF Accept, State
  <2>2. Access(creq[c]) \in Accesses
    BY DEF Accesses
  <2>3. access' = [access EXCEPT ![w] = Access(creq[c])]
    BY <1>2 DEF Accept, Access, Register, Meant
  <2>4. result' = result
    BY <1>2 DEF Accept
  <2>5. UNCHANGED <<value, orphan>>
    BY <1>2 DEF Accept
  <2>6. QED
    BY <2>1, <2>2, <2>3, <2>4, <2>5 DEF Promise!Begin
<1>3. ASSUME NEW w \in Workers, Route(w), Routable(wreq[w])
      PROVE  UNCHANGED Promise!vars
  BY <1>3 DEF Route, Step, Promise!vars, State
<1>4. ASSUME NEW w \in Workers, Route(w), ~Routable(wreq[w])
      PROVE  Promise!Fail(w)
  <2>0. /\ worker[w] = "routing" /\ worker' = [worker EXCEPT ![w] = "answering"]
        /\ wres' = [wres EXCEPT ![w] = <<"error", RoutingError(wreq[w])>>]
    BY <1>4 DEF Route, Step
  <2>1. state[w] = "open" /\ state' = [state EXCEPT ![w] = "failed"]
    BY <2>0 DEF State
  <2>2. result' = [result EXCEPT ![w] = <<"error", RoutingError(wreq[w])>>]
    BY <2>0
  <2>3. RoutingError(wreq[w]) \in {"notConfigured", "unavailable", "rpc"}
    BY DEF RoutingError
  <2>4. access' = access /\ UNCHANGED <<value, orphan>>
    BY <1>4 DEF Route, Step, Access, Register, Meant
  <2>5. QED
    BY <2>1, <2>2, <2>3, <2>4 DEF Promise!Fail
<1>5. ASSUME NEW w \in Workers, Return(w), worker[w] = "taken"
      PROVE  UNCHANGED Promise!vars
  BY <1>5 DEF Return, Step, Promise!vars, State, HandlerInv
<1>6. ASSUME NEW w \in Workers, Return(w), worker[w] = "refused"
      PROVE  Promise!Fail(w)
  BY <1>6 DEF Return, Step, Promise!Fail, State
<1>7. ASSUME NEW w \in Workers, Disconnect(w) PROVE Promise!Fail(w)
  <2>1. state[w] \in {"open", "done"} /\ state' = [state EXCEPT ![w] = "failed"]
    BY <1>7 DEF Disconnect, Step, State
  <2>2. result' = [result EXCEPT ![w] = <<"error", "rpc">>]
    BY <1>7 DEF Disconnect, Step
  <2>3. \/ UNCHANGED orphan
        \/ /\ state[w] = "open" /\ orphan[w] = Nobody
           /\ orphan' = [orphan EXCEPT ![w] = access[w]]
    <3>1. IsWrite(wreq[w]) =>
            Access(wreq[w]) = [register |-> Register(wreq[w]), kind |-> "write",
                               value |-> Forwarded(wreq[w])]
      BY <1>7, ForwardedFits DEF Access, IsWrite
    <3>2. QED
      BY <1>7, <3>1 DEF Disconnect, State
  <2>4. access' = access /\ UNCHANGED value
    BY <1>7 DEF Disconnect, Step, Access, Register, Meant
  <2>5. QED
    BY <2>1, <2>2, <2>3, <2>4 DEF Promise!Fail
<1>8. ASSUME NEW w \in Workers, Answer(w) PROVE Promise!End(w)
  BY <1>8 DEF Answer, Promise!End, State
<1>9. ASSUME NEW w \in Workers, Take(w) PROVE Promise!Effect(w)
  <2> DEFINE a == Access(wreq[w])
  <2>0. worker[w] = "sent" /\ worker' = [worker EXCEPT ![w] = "taken"]
    BY <1>9 DEF Take, Step
  <2>1. state[w] = "open" /\ state' = [state EXCEPT ![w] = "done"]
    <3>1. \A v \in Workers \ {w} : wres'[v] = wres[v]
      BY <1>9 DEF Take, Step
    <3>2. QED
      BY <2>0, <3>1 DEF State
  <2>2. access[w] = a /\ a # Nobody
    BY <1>9, NobodyAssumption DEF Take, Accesses
  <2>3. access' = access /\ UNCHANGED orphan
    BY <1>9 DEF Take, Step, Access, Register, Meant
  <2>4. CASE IsWrite(wreq[w])
    <3>1. a.kind = "write" /\ a.register = Register(wreq[w])
          /\ a.value = Forwarded(wreq[w])
      BY <2>4, ForwardedFits DEF Access, IsWrite
    <3>2. value' = [value EXCEPT ![a.register] = a.value]
      BY <1>9, <2>4, <3>1 DEF Take
    <3>3. result' = [result EXCEPT ![w] = <<"ok", "done">>]
      <4>1. wres' = [wres EXCEPT ![w] = <<"ok", "done">>]
        BY <1>9, <2>4 DEF Take, Step
      <4>2. QED
        BY <2>0, <4>1 DEF Shown
    <3>4. QED
      BY <2>1, <2>2, <2>3, <3>1, <3>2, <3>3 DEF Promise!Effect
  <2>5. CASE ~IsWrite(wreq[w])
    <3>1. a.kind = "read" /\ a.register = Register(wreq[w])
      BY <2>5, RpcKinds, RequestFields DEF Access, IsWrite
    <3>2. UNCHANGED value
      BY <1>9, <2>5 DEF Take
    <3>3. result' = [result EXCEPT ![w] = <<"ok", Shown(value[a.register])>>]
      <4>1. wres' = [wres EXCEPT ![w] = <<"ok", value[a.register]>>]
        BY <1>9, <2>5, <3>1 DEF Take, Step
      <4>2. QED
        BY <2>0, <4>1
    <3>4. QED
      BY <2>1, <2>2, <2>3, <3>1, <3>2, <3>3 DEF Promise!Effect
  <2>6. QED
    BY <2>4, <2>5
<1>10. ASSUME NEW w \in Workers, Refuse(w) PROVE UNCHANGED Promise!vars
  BY <1>10 DEF Refuse, Step, Promise!vars, State
<1>11. ASSUME NEW w \in Workers, Late(w) PROVE Promise!LateEffect(w)
  BY <1>11 DEF Late, Promise!LateEffect, State
<1>12. ASSUME UNCHANGED vars PROVE UNCHANGED Promise!vars
  BY <1>12 DEF vars, Promise!vars, State
<1>13. QED
  BY <1>1, <1>2, <1>3, <1>4, <1>5, <1>6, <1>7, <1>8, <1>9, <1>10, <1>11, <1>12
  DEF Next, HandlerStep, BackendStep, Return

\* The requests behave as single accesses to registers.
THEOREM RequestsImplementRegisters == Spec => ImplementsRegisters
  BY InitImplements, StepImplements, Invariance, PTL
  DEF Spec, ImplementsRegisters, Promise!Spec

===============================================================================
