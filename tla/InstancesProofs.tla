---------------------------- MODULE InstancesProofs ----------------------------
(***************************************************************************)
(* Proofs about Instances, for every set of ids and addresses and for      *)
(* client sections of any length with any number of instances.             *)
(*                                                                         *)
(* initialize() overwrites what it created for the same id before.  That   *)
(* the last instance of an id wins, in every service and at every position *)
(* of the two loops, is the invariant.                                     *)
(***************************************************************************)
EXTENDS Instances, WellFoundedInduction, TLAPS

\* a is what the first n of some instances leave for id i: the address of the
\* last one with that id, or nothing.
Latest(instances, n, i, a) ==
  \/ a = None /\ \A k \in 1..n : instances[k].id # i
  \/ \E k \in 1..n :
       /\ instances[k].id = i /\ instances[k].address = a
       /\ \A j \in (k + 1)..n : instances[j].id # i

\* How many instances of the service at position p have their client.
Created(p) ==
  IF p < at[1] THEN Len(Configured(p)) ELSE IF p = at[1] THEN at[2] - 1 ELSE 0

\* The configuration is that of a file that was accepted.
ConfigInv ==
  IF phase \in {"load", "rejected"} THEN config = NoConfig
  ELSE config = Load(doc) /\ Parses(doc) /\ Valid(config)

\* Where initialize() is.
AtInv ==
  /\ phase \in {"initialize", "stub", "started"} =>
       at[1] \in 1..2 /\ at[2] \in 1..(Len(Configured(at[1])) + 1)
  /\ phase = "stub" => InstanceLeft
  /\ phase = "started" => at[1] = 2 /\ ~InstanceLeft

\* What it created so far.
CreatedInv ==
  phase \in {"initialize", "stub", "started"} =>
    \A p \in 1..2, i \in Ids :
      Latest(Configured(p), Created(p), i, clients[Order[p]][i])

\* A client that is left belongs to a channel that is left.
Halved ==
  \A s \in Services, i \in Ids : clients[s][i] # None => channels[s][i] # None

\* A channel is ahead of its client between the two steps that create them, and
\* behind it after a shutdown() that threw.
PairedInv ==
  /\ phase \in {"load", "rejected", "stopped", "failed"} =>
       clients = Empty /\ channels = Empty
  /\ phase \in {"initialize", "started"} => channels = clients
  /\ phase = "stub" =>
       channels = [clients EXCEPT ![Order[at[1]]][Current.id] = Current.address]
  /\ phase = "broken" =>
       \A s \in Services, i \in Ids : clients[s][i] \in {None, channels[s][i]}
  /\ phase = "leaking" => Halved

Inv ==
  /\ TypeOK
  /\ ConfigInv
  /\ AtInv
  /\ CreatedInv
  /\ PairedInv

-------------------------------------------------------------------------------
(* Facts about the file.                                                   *)

\* A set of natural numbers has a least element.
LEMMA LeastNatural ==
  ASSUME NEW S \in SUBSET Nat, S # {}
  PROVE  \E n \in S : \A m \in S : n <= m
<1> DEFINE R == {p \in Nat \X Nat : p[1] < p[2]}
<1>1. IsWellFoundedOn(R, Nat)
  BY NatLessThanWellFounded DEF OpToRel
<1>2. \A x, y \in Nat : y < x => <<y, x>> \in R
  OBVIOUS
<1> HIDE DEF R
<1>3. PICK x \in S : \A y \in S : <<y, x>> \notin R
  BY <1>1, WFMin
<1>4. \A y \in S : ~(y < x)
  BY <1>2, <1>3
<1>5. QED
  BY <1>3, <1>4

\* What a client section consists of.
LEMMA Entries ==
  ASSUME NEW d, IsDocument(d)
  PROVE  /\ Len(d) \in Nat
         /\ \A e \in 1..Len(d) :
              /\ d[e].instances \in Seq(Instance)
              /\ d[e].form \in {"instances", "address", "neither"}
<1>1. Len(d) \in Nat /\ \A e \in 1..Len(d) : d[e] \in Entry
  BY DEF IsDocument
<1>2. QED
  BY <1>1 DEF Entry

\* The first entry of a name is the one that counts.
LEMMA FirstEntry ==
  ASSUME NEW d, IsDocument(d), NEW n \in DOMAIN Load(d)
  PROVE  \E e \in 1..Len(d) :
           /\ d[e].name = n
           /\ \A j \in 1..(e - 1) : d[j].name # n
           /\ Load(d)[n] = d[e].instances
<1> DEFINE named == {e \in 1..Len(d) : d[e].name = n}
           first == CHOOSE e \in 1..Len(d) :
                      d[e].name = n /\ \A j \in 1..(e - 1) : d[j].name # n
<1>1. Len(d) \in Nat
  BY Entries
<1>2. named # {} /\ named \in SUBSET Nat
  BY <1>1 DEF Load
<1>3. PICK least \in named : \A m \in named : least <= m
  BY <1>2, LeastNatural
<1>4. \A j \in 1..(least - 1) : d[j].name # n
  BY <1>1, <1>3
<1>5. /\ first \in 1..Len(d) /\ d[first].name = n
      /\ \A j \in 1..(first - 1) : d[j].name # n
  BY <1>3, <1>4
<1>6. Load(d)[n] = d[first].instances
  BY DEF Load
<1>7. QED
  BY <1>5, <1>6

\* Every instance of a section that is read and accepted has an id and a valid
\* address, and no service is without an instance.
LEMMA AcceptedInstances ==
  ASSUME NEW d, IsDocument(d), Parses(d), Valid(Load(d)),
         NEW n \in DOMAIN Load(d)
  PROVE  /\ Load(d)[n] \in Seq(Instance) /\ Len(Load(d)[n]) > 0
         /\ \A k \in 1..Len(Load(d)[n]) :
              Load(d)[n][k].id \in Ids /\ Load(d)[n][k].address \in Addresses
<1>1. PICK e \in 1..Len(d) : Load(d)[n] = d[e].instances
  BY FirstEntry
<1> DEFINE insts == d[e].instances
<1>2. insts \in Seq(Instance) /\ insts # <<>>
  BY <1>1, Entries DEF Valid
<1>3. \A k \in 1..Len(insts) : insts[k] \in ToSet(insts) /\ insts[k] \in Instance
  BY <1>2 DEF ToSet
<1>4. \A k \in 1..Len(insts) : insts[k].address \in Addresses
  BY <1>1, <1>3 DEF Valid
<1>5. \A k \in 1..Len(insts) : insts[k].id \in Ids
  <2>1. d[e].form \in {"instances", "address", "neither"}
    BY Entries
  <2>2. CASE d[e].form = "instances"
    BY <1>3, <2>2 DEF Parses, Instance
  <2>3. CASE d[e].form = "address"
    BY <2>3, IdsAssumption DEF IsDocument
  <2>4. CASE d[e].form = "neither"
    BY <1>2, <2>4 DEF IsDocument
  <2>5. QED
    BY <2>1, <2>2, <2>3, <2>4
<1>6. QED
  BY <1>1, <1>2, <1>4, <1>5

-------------------------------------------------------------------------------
(* What initialize() creates.                                              *)

\* A new manager has nothing, and one more instance overwrites what there is
\* for its id and nothing else.
LEMMA LatestOfNone == \A insts, i : Latest(insts, 0, i, None)
  BY DEF Latest

\* One more instance replaces what those before it left for its id, and only that.
LEMMA LatestOfOneMore ==
  ASSUME NEW insts, NEW n \in Nat, NEW i, NEW a, Latest(insts, n, i, a)
  PROVE  Latest(insts, n + 1, i,
                IF insts[n + 1].id = i THEN insts[n + 1].address ELSE a)
<1>1. CASE insts[n + 1].id = i
  BY <1>1 DEF Latest
<1>2. CASE insts[n + 1].id # i /\ a = None /\ \A k \in 1..n : insts[k].id # i
  BY <1>2 DEF Latest
<1>3. ASSUME insts[n + 1].id # i, NEW k \in 1..n,
             insts[k].id = i, insts[k].address = a,
             \A j \in (k + 1)..n : insts[j].id # i
      PROVE  Latest(insts, n + 1, i, a)
  <2>1. \A j \in (k + 1)..(n + 1) : insts[j].id # i
    BY <1>3
  <2>2. QED
    BY <1>3, <2>1 DEF Latest
<1>4. QED
  BY <1>1, <1>2, <1>3 DEF Latest

\* The instances of a service in an accepted configuration.
LEMMA ServiceInstances ==
  ASSUME TypeOK, ConfigInv, phase \notin {"load", "rejected"}, NEW p \in 1..2
  PROVE  /\ Len(Configured(p)) \in Nat
         /\ \A k \in 1..Len(Configured(p)) :
              Configured(p)[k].id \in Ids /\ Configured(p)[k].address \in Addresses
<1>1. CASE Order[p] \in DOMAIN config
  <2>1. Configured(p) = Load(doc)[Order[p]] /\ Order[p] \in DOMAIN Load(doc)
    BY <1>1 DEF Configured, ConfigInv
  <2>2. QED
    BY <2>1, AcceptedInstances DEF TypeOK, ConfigInv
<1>2. CASE Order[p] \notin DOMAIN config
  BY <1>2 DEF Configured
<1>3. QED
  BY <1>1, <1>2

\* The two services, in the order in which initialize() goes through them.
LEMMA Services12 ==
  /\ \A p \in 1..2 : Order[p] \in Services
  /\ \A p, q \in 1..2 : Order[p] = Order[q] => p = q
  /\ \A s \in Services : \E p \in 1..2 : Order[p] = s
  BY DEF Order, Services

\* The instance initialize() is at.
LEMMA CurrentInstance ==
  ASSUME TypeOK, ConfigInv, AtInv, phase \in {"initialize", "stub"}, InstanceLeft
  PROVE  /\ at[1] \in 1..2 /\ at[2] \in 1..Len(Configured(at[1]))
         /\ Current.id \in Ids /\ Current.address \in Addresses
<1>1. at[1] \in 1..2 /\ at[2] \in 1..(Len(Configured(at[1])) + 1)
  BY DEF AtInv
<1>2. at[2] \in 1..Len(Configured(at[1]))
  BY <1>1, ServiceInstances DEF InstanceLeft
<1>3. QED
  BY <1>1, <1>2, ServiceInstances DEF Current

\* However far shutdown() gets, it closes a channel after its client, and all
\* four calls of clear() leave nothing.
LEMMA ShutdownInOrder ==
  ASSUME TypeOK, NEW n \in 0..4, Shutdown(n)
  PROVE  /\ clients' \in [Services -> [Ids -> Addresses \cup {None}]]
         /\ channels' \in [Services -> [Ids -> Addresses \cup {None}]]
         /\ \A s \in Services, i \in Ids :
              clients'[s][i] # None => /\ clients'[s][i] = clients[s][i]
                                       /\ channels'[s][i] = channels[s][i]
         /\ n = 4 => clients' = Empty /\ channels' = Empty
<1>1. \A s \in Services : ClearsBefore(s) \in {0, 2}
  BY DEF ClearsBefore
<1>2. Empty \in [Services -> [Ids -> Addresses \cup {None}]]
  BY DEF Empty
<1>3. /\ clients' \in [Services -> [Ids -> Addresses \cup {None}]]
      /\ channels' \in [Services -> [Ids -> Addresses \cup {None}]]
  BY <1>2 DEF Shutdown, TypeOK
<1>4. ASSUME NEW s \in Services, NEW i \in Ids, clients'[s][i] # None
      PROVE  clients'[s][i] = clients[s][i] /\ channels'[s][i] = channels[s][i]
  <2>1. Empty[s][i] = None
    BY DEF Empty
  <2>2. ~(n > ClearsBefore(s))
    BY <1>4, <2>1 DEF Shutdown
  <2>3. ~(n > ClearsBefore(s) + 1)
    BY <1>1, <2>2
  <2>4. QED
    BY <2>2, <2>3 DEF Shutdown
<1>5. ASSUME n = 4 PROVE clients' = Empty /\ channels' = Empty
  <2>1. \A s \in Services : n > ClearsBefore(s) /\ n > ClearsBefore(s) + 1
    BY <1>1, <1>5
  <2>2. QED
    BY <2>1 DEF Shutdown, Empty
<1>6. QED
  BY <1>3, <1>4, <1>5

\* What CreateFails does to channels and clients.
LEMMA CreateFailsCases ==
  CreateFails => \E n \in 0..4 : /\ Shutdown(n)
                                 /\ phase' = IF n = 4 THEN "failed" ELSE "leaking"
  BY DEF CreateFails

-------------------------------------------------------------------------------
(* The invariant, part by part.                                            *)

\* No step takes a variable out of its type.
LEMMA TypeStep == TypeOK /\ ConfigInv /\ AtInv /\ [Next]_vars => TypeOK'
<1> SUFFICES ASSUME TypeOK, ConfigInv, AtInv, [Next]_vars PROVE TypeOK'
  OBVIOUS
<1>0. Empty \in [Services -> [Ids -> Addresses \cup {None}]]
  BY DEF Empty
<1>1. CASE ReadFile
  <2>1. Parses(doc) /\ Valid(Load(doc)) =>
          \A n \in DOMAIN Load(doc) : Load(doc)[n] \in Seq(Instance)
    BY AcceptedInstances DEF TypeOK
  <2>2. QED
    BY <1>1, <2>1 DEF ReadFile, TypeOK
<1>2. CASE Start
  BY <1>0, <1>2 DEF Start, TypeOK
<1>3. CASE OpenChannel
  <2>1. /\ Order[at[1]] \in Services
        /\ Current.id \in Ids /\ Current.address \in Addresses
    BY <1>3, CurrentInstance, Services12 DEF OpenChannel
  <2>2. QED
    BY <1>3, <2>1 DEF OpenChannel, TypeOK
<1>4. CASE CreateClient
  <2>1. /\ Order[at[1]] \in Services
        /\ Current.id \in Ids /\ Current.address \in Addresses
    BY <1>4, CurrentInstance, Services12 DEF CreateClient, AtInv
  <2>2. at' \in (1..3) \X (Nat \ {0})
    BY <1>4 DEF CreateClient, TypeOK
  <2>3. clients' \in [Services -> [Ids -> Addresses \cup {None}]]
    BY <1>4, <2>1 DEF CreateClient, TypeOK
  <2>4. QED
    BY <1>4, <2>2, <2>3 DEF CreateClient, TypeOK
<1>5. CASE CreateFails
  <2>1. PICK n \in 0..4 : /\ Shutdown(n)
                          /\ phase' = IF n = 4 THEN "failed" ELSE "leaking"
    BY <1>5, CreateFailsCases
  <2>2. QED
    BY <1>5, <2>1, ShutdownInOrder DEF CreateFails, TypeOK
<1>6. CASE NextService
  <2>1. at' \in (1..3) \X (Nat \ {0})
    BY <1>6 DEF NextService, TypeOK
  <2>2. QED
    BY <1>6, <2>1 DEF NextService, TypeOK
<1>7. CASE Stop \/ StopFails
  <2>1. /\ \E n \in 0..4 : Shutdown(n)
        /\ phase' \in {"stopped", "broken"} /\ UNCHANGED <<doc, config, at>>
    BY <1>7 DEF Stop, StopFails
  <2>2. QED
    BY <2>1, ShutdownInOrder DEF TypeOK
<1>8. CASE Rejected \/ UNCHANGED vars
  BY <1>8 DEF Rejected, vars, TypeOK
<1>9. QED
  BY <1>1, <1>2, <1>3, <1>4, <1>5, <1>6, <1>7, <1>8 DEF Next

\* The configuration is read once.
LEMMA ConfigStep == ConfigInv /\ [Next]_vars => ConfigInv'
  BY DEF ConfigInv, Next, ReadFile, Start, OpenChannel, CreateClient,
     CreateFails, NextService, Stop, StopFails, Rejected, vars

\* The two loops of initialize() stay within their bounds.
LEMMA AtStep == TypeOK /\ ConfigInv /\ AtInv /\ [Next]_vars => AtInv'
<1> SUFFICES ASSUME TypeOK, ConfigInv, AtInv, [Next]_vars PROVE AtInv'
  OBVIOUS
<1>0. phase \notin {"load", "rejected"} =>
        \A p \in 1..2 : Len(Configured(p)) \in Nat
  BY ServiceInstances
<1>1. CASE ReadFile \/ CreateFails \/ Stop \/ StopFails
  BY <1>1 DEF ReadFile, CreateFails, Stop, StopFails, AtInv
<1>2. CASE Start
  BY <1>0, <1>2 DEF Start, AtInv, Configured
<1>3. CASE OpenChannel
  BY <1>3 DEF OpenChannel, AtInv, Configured, InstanceLeft
<1>4. CASE CreateClient
  <2>1. at[1] \in 1..2 /\ at[2] \in 1..Len(Configured(at[1]))
    BY <1>4, CurrentInstance DEF CreateClient, AtInv
  <2>2. at' = <<at[1], at[2] + 1>> /\ config' = config /\ phase' = "initialize"
    BY <1>4 DEF CreateClient
  <2>3. QED
    BY <1>0, <1>4, <2>1, <2>2 DEF CreateClient, AtInv, Configured
<1>5. CASE NextService
  BY <1>0, <1>5 DEF NextService, AtInv, Configured, InstanceLeft
<1>6. CASE Rejected \/ UNCHANGED vars
  BY <1>6 DEF Rejected, vars, AtInv, Configured, InstanceLeft
<1>7. QED
  BY <1>1, <1>2, <1>3, <1>4, <1>5, <1>6 DEF Next

\* At every position of the two loops, the last instance of each id so far has
\* the client.
LEMMA CreatedStep ==
  TypeOK /\ ConfigInv /\ AtInv /\ CreatedInv /\ [Next]_vars => CreatedInv'
<1> SUFFICES ASSUME TypeOK, ConfigInv, AtInv, CreatedInv, [Next]_vars
             PROVE  CreatedInv'
  OBVIOUS
<1>0. phase \notin {"load", "rejected"} =>
        \A p \in 1..2 : Len(Configured(p)) \in Nat
  BY ServiceInstances
<1>1. CASE ReadFile \/ CreateFails \/ Stop \/ StopFails
  BY <1>1 DEF ReadFile, CreateFails, Stop, StopFails, CreatedInv
<1>2. CASE Start
  <2>1. \A p \in 1..2 : Created(p)' = 0
    BY <1>2 DEF Start, Created
  <2>2. \A p \in 1..2, i \in Ids : clients'[Order[p]][i] = None
    BY <1>2, Services12 DEF Start, Empty
  <2>3. \A p \in 1..2, i \in Ids :
          Latest(Configured(p), Created(p), i, clients[Order[p]][i])'
    BY <2>1, <2>2, LatestOfNone DEF Latest
  <2>4. QED
    BY <1>2, <2>3 DEF Start, CreatedInv
<1>3. CASE OpenChannel
  <2>1. UNCHANGED <<at, config, clients>>
    BY <1>3 DEF OpenChannel
  <2>2. \A p \in 1..2, i \in Ids :
          Latest(Configured(p), Created(p), i, clients[Order[p]][i])'
    BY <1>3, <2>1 DEF OpenChannel, CreatedInv, Latest, Configured, Created
  <2>3. QED
    BY <2>2 DEF CreatedInv
<1>4. CASE CreateClient
  <2>1. /\ at[1] \in 1..2 /\ at[2] \in 1..Len(Configured(at[1]))
        /\ Current.id \in Ids
    BY <1>4, CurrentInstance DEF CreateClient, AtInv
  <2>2. /\ at' = <<at[1], at[2] + 1>> /\ UNCHANGED <<config, channels>>
        /\ phase = "stub" /\ phase' = "initialize"
        /\ clients' = [clients EXCEPT ![Order[at[1]]][Current.id] = Current.address]
    BY <1>4 DEF CreateClient
  <2>3. \A p \in 1..2 : Configured(p)' = Configured(p)
    BY <2>2 DEF Configured
  <2>4. ASSUME NEW p \in 1..2, NEW i \in Ids
        PROVE  Latest(Configured(p), Created(p), i, clients[Order[p]][i])'
    <3>1. Latest(Configured(p), Created(p), i, clients[Order[p]][i])
      BY <2>2 DEF CreatedInv
    <3>2. CASE p = at[1]
      <4>1. Created(p) = at[2] - 1 /\ Created(p)' = at[2]
        BY <2>1, <2>2, <3>2 DEF Created
      <4>2. clients'[Order[p]][i] =
              IF Current.id = i THEN Current.address ELSE clients[Order[p]][i]
        BY <2>1, <2>2, <3>2, Services12 DEF TypeOK
      <4>3. Current = Configured(p)[at[2]]
        BY <3>2 DEF Current
      <4>4. at[2] - 1 \in Nat /\ (at[2] - 1) + 1 = at[2]
        BY <2>1, <3>2, <1>0, <2>2
      <4>5. Latest(Configured(p), at[2], i, clients'[Order[p]][i])
        BY <3>1, <4>1, <4>2, <4>3, <4>4, LatestOfOneMore
      <4>6. QED
        BY <2>3, <4>1, <4>5 DEF Latest
    <3>3. CASE p # at[1]
      <4>1. Created(p)' = Created(p)
        BY <2>1, <2>2, <2>3, <3>3 DEF Created
      <4>2. clients'[Order[p]][i] = clients[Order[p]][i]
        BY <2>1, <2>2, <3>3, Services12 DEF TypeOK
      <4>3. QED
        BY <2>3, <3>1, <4>1, <4>2 DEF Latest
    <3>4. QED
      BY <3>2, <3>3
  <2>5. QED
    BY <2>4 DEF CreatedInv
<1>5. CASE NextService
  <2>1. /\ UNCHANGED <<config, clients, channels>>
        /\ phase' \in {"initialize", "started"}
    BY <1>5 DEF NextService
  <2>2. \A p \in 1..2 : Configured(p)' = Configured(p)
    BY <2>1 DEF Configured
  <2>3. \A p \in 1..2 : Created(p)' = Created(p)
    BY <1>0, <1>5, <2>2 DEF NextService, Created, AtInv, InstanceLeft
  <2>4. QED
    BY <1>5, <2>1, <2>2, <2>3 DEF NextService, CreatedInv, Latest
<1>6. CASE Rejected \/ UNCHANGED vars
  BY <1>6 DEF Rejected, vars, CreatedInv, Latest, Created, Configured, Current
<1>7. QED
  BY <1>1, <1>2, <1>3, <1>4, <1>5, <1>6 DEF Next

\* A channel that is ahead of its client is open.
LEMMA StubIsHalved ==
  ASSUME TypeOK, ConfigInv, AtInv, PairedInv, phase = "stub"
  PROVE  Halved
<1>1. Current.address # None
  BY CurrentInstance, AddressesAssumption DEF AtInv
<1>2. channels = [clients EXCEPT ![Order[at[1]]][Current.id] = Current.address]
  BY DEF PairedInv
<1>3. QED
  BY <1>1, <1>2 DEF Halved, TypeOK

\* Channels and clients come and go in order.
LEMMA PairedStep ==
  TypeOK /\ ConfigInv /\ AtInv /\ PairedInv /\ [Next]_vars => PairedInv'
<1> SUFFICES ASSUME TypeOK, ConfigInv, AtInv, PairedInv, [Next]_vars
             PROVE  PairedInv'
  OBVIOUS
<1>1. CASE ReadFile
  BY <1>1 DEF ReadFile, PairedInv
<1>2. CASE Start
  BY <1>2 DEF Start, PairedInv
<1>3. CASE OpenChannel
  BY <1>3 DEF OpenChannel, PairedInv, Current, Configured
<1>4. CASE CreateClient
  BY <1>4 DEF CreateClient, PairedInv
<1>5. CASE CreateFails
  <2>1. PICK n \in 0..4 : /\ Shutdown(n)
                          /\ phase' = IF n = 4 THEN "failed" ELSE "leaking"
    BY <1>5, CreateFailsCases
  <2>2. Halved
    BY <1>5, StubIsHalved DEF CreateFails, PairedInv, Halved
  <2>3. Halved'
    BY <2>1, <2>2, ShutdownInOrder DEF Halved
  <2>4. QED
    BY <2>1, <2>3, ShutdownInOrder DEF PairedInv
<1>6. CASE NextService
  BY <1>6 DEF NextService, PairedInv
<1>7. CASE Stop
  <2>1. Shutdown(4) /\ phase' = "stopped"
    BY <1>7 DEF Stop
  <2>2. QED
    BY <2>1, ShutdownInOrder DEF PairedInv
<1>8. CASE StopFails
  <2>1. PICK n \in 0..3 : Shutdown(n)
    BY <1>8 DEF StopFails
  <2>2. \A s \in Services, i \in Ids : clients[s][i] \in {None, channels[s][i]}
    BY <1>8 DEF StopFails, PairedInv
  <2>3. \A s \in Services, i \in Ids : clients'[s][i] \in {None, channels'[s][i]}
    BY <2>1, <2>2, ShutdownInOrder
  <2>4. phase' = "broken"
    BY <1>8 DEF StopFails
  <2>5. QED
    BY <2>3, <2>4 DEF PairedInv
<1>9. CASE Rejected \/ UNCHANGED vars
  BY <1>9 DEF Rejected, vars, PairedInv, Halved, Current, Configured
<1>10. QED
  BY <1>1, <1>2, <1>3, <1>4, <1>5, <1>6, <1>7, <1>8, <1>9 DEF Next

\* The program starts in the invariant, with nothing read and nothing created.
LEMMA InitInv == Init => Inv
  BY DocumentsAssumption
  DEF Init, Inv, TypeOK, ConfigInv, AtInv, CreatedInv, PairedInv, NoConfig, Empty

\* Inv is an invariant of Instances.
LEMMA Invariance == Spec => []Inv
<1>1. Inv /\ [Next]_vars => Inv'
  BY TypeStep, ConfigStep, AtStep, CreatedStep, PairedStep DEF Inv
<1>2. QED
  BY <1>1, InitInv, PTL DEF Spec

-------------------------------------------------------------------------------
(* Theorems.                                                               *)

\* When Core started, every client is the one of the last instance with its id,
\* the lookup tells the three cases apart, and none is left out.
LEMMA StartedLookup ==
  ASSUME Inv, phase = "started", NEW p \in 1..2, NEW i \in Ids
  PROVE  /\ Latest(Configured(p), Len(Configured(p)), i, clients[Order[p]][i])
         /\ Order[p] \in DOMAIN config =>
              (\E j \in Ids : clients[Order[p]][j] # None)
         /\ Order[p] \notin DOMAIN config =>
              (\A j \in Ids : clients[Order[p]][j] = None)
<1>0. /\ Len(Configured(p)) \in Nat /\ Len(Configured(at[1])) \in Nat
      /\ at[1] \in 1..2
  BY ServiceInstances DEF Inv, AtInv
<1>1. Created(p) = Len(Configured(p))
  BY <1>0 DEF Inv, AtInv, Created, InstanceLeft
<1>2. \A j \in Ids :
        Latest(Configured(p), Len(Configured(p)), j, clients[Order[p]][j])
  BY <1>1 DEF Inv, CreatedInv
<1>3. ASSUME Order[p] \in DOMAIN config
      PROVE  \E j \in Ids : clients[Order[p]][j] # None
  <2>1. Configured(p) = Load(doc)[Order[p]] /\ Order[p] \in DOMAIN Load(doc)
    BY <1>3 DEF Inv, ConfigInv, Configured
  <2>2. Len(Configured(p)) > 0
    BY <2>1, AcceptedInstances DEF Inv, TypeOK, ConfigInv
  <2>3. \A k \in 1..Len(Configured(p)) :
          Configured(p)[k].id \in Ids /\ Configured(p)[k].address \in Addresses
    BY ServiceInstances DEF Inv
  <2>4. None \notin Addresses
    BY AddressesAssumption
  <2>5. PICK j \in Ids : Configured(p)[1].id = j
    BY <1>0, <2>2, <2>3
  <2>6. clients[Order[p]][j] # None
    BY <1>0, <1>2, <2>2, <2>3, <2>4, <2>5 DEF Latest
  <2>7. QED
    BY <2>6
<1>4. ASSUME Order[p] \notin DOMAIN config
      PROVE  \A j \in Ids : clients[Order[p]][j] = None
  <2>1. Len(Configured(p)) = 0
    BY <1>4 DEF Configured
  <2>2. QED
    BY <1>2, <2>1 DEF Latest
<1>5. QED
  BY <1>2, <1>3, <1>4

\* Target in terms of the configuration: its first entry is the one Load keeps.
LEMMA TargetOfConfig ==
  ASSUME IsDocument(doc), config = Load(doc), NEW s \in Services, NEW i \in Ids
  PROVE  /\ s \notin DOMAIN config => Target(s, i) = "throws"
         /\ s \in DOMAIN config =>
              LET insts == config[s]
              IN  /\ (\A k \in 1..Len(insts) : insts[k].id # i)
                       => Target(s, i) = "null"
                  /\ \A k \in 1..Len(insts) :
                       /\ insts[k].id = i
                       /\ \A j \in 1..Len(insts) : insts[j].id = i => j <= k
                       => Target(s, i) = insts[k].address
<1> DEFINE entries == {e \in 1..Len(doc) : doc[e].name = s}
           first == doc[CHOOSE e \in entries : \A f \in entries : e <= f].instances
           same == {k \in 1..Len(first) : first[k].id = i}
<1>1. CASE s \notin DOMAIN config
  <2>1. entries = {}
    BY <1>1 DEF Load
  <2>2. QED
    BY <1>1, <2>1 DEF Target
<1>2. CASE s \in DOMAIN config
  <2>1. PICK e \in 1..Len(doc) :
          /\ doc[e].name = s
          /\ \A j \in 1..(e - 1) : doc[j].name # s
          /\ config[s] = doc[e].instances
    BY <1>2, FirstEntry
  <2>2. Len(doc) \in Nat /\ Len(config[s]) \in Nat
    BY <2>1, Entries
  <2>3. e \in entries /\ \A f \in entries : e <= f
    BY <2>1, <2>2
  <2>4. (CHOOSE x \in entries : \A f \in entries : x <= f) = e
    BY <2>2, <2>3
  <2>5. first = config[s] /\ entries # {}
    BY <2>1, <2>3, <2>4
  <2>6. Target(s, i) =
          IF same = {} THEN "null"
          ELSE first[CHOOSE k \in same : \A j \in same : j <= k].address
    BY <2>5 DEF Target
  <2>7. same = {k \in 1..Len(config[s]) : config[s][k].id = i}
    BY <2>5
  <2> HIDE DEF first, same, entries
  <2>8. ASSUME NEW k \in 1..Len(config[s]), config[s][k].id = i,
               \A j \in 1..Len(config[s]) : config[s][j].id = i => j <= k
        PROVE  Target(s, i) = config[s][k].address
    <3>1. k \in same /\ \A j \in same : j <= k
      BY <2>7, <2>8
    <3>2. \A x \in same : (\A j \in same : j <= x) => x = k
      BY <2>2, <2>7, <3>1
    <3>3. (CHOOSE x \in same : \A j \in same : j <= x) = k
      BY <3>1, <3>2
    <3>4. QED
      BY <2>5, <2>6, <3>1, <3>3
  <2>9. ASSUME \A k \in 1..Len(config[s]) : config[s][k].id # i
        PROVE  Target(s, i) = "null"
    BY <2>6, <2>7, <2>9
  <2>10. QED
    BY <1>2, <2>8, <2>9
<1>3. QED
  BY <1>1, <1>2

\* A request reaches the instance the file names for it, for every file that is
\* accepted.
THEOREM RequestsAreRouted == Spec => []RoutesAsConfigured
<1>1. Inv => RoutesAsConfigured
  <2> SUFFICES ASSUME Inv, phase = "started", NEW s \in Services, NEW i \in Ids
               PROVE  Lookup(s, i) = Target(s, i)
    BY DEF RoutesAsConfigured
  <2>1. PICK p \in 1..2 : Order[p] = s
    BY Services12
  <2> DEFINE insts == Configured(p)
  <2>2. IsDocument(doc) /\ config = Load(doc)
    BY DEF Inv, TypeOK, ConfigInv
  <2>3. CASE s \notin DOMAIN config
    BY <2>1, <2>2, <2>3, StartedLookup, TargetOfConfig DEF Lookup
  <2>4. CASE s \in DOMAIN config
    <3>1. insts = config[s] /\ Len(insts) \in Nat
      BY <2>1, <2>4, ServiceInstances DEF Configured, Inv
    <3>2. Lookup(s, i) = IF clients[s][i] = None THEN "null" ELSE clients[s][i]
      BY <2>1, <2>4, StartedLookup DEF Lookup
    <3>3. Latest(insts, Len(insts), i, clients[s][i])
      BY <2>1, StartedLookup
    <3>4. \A k \in 1..Len(insts) : insts[k].address # None
      BY ServiceInstances, AddressesAssumption DEF Inv
    <3>5. CASE \A k \in 1..Len(insts) : insts[k].id # i
      BY <2>2, <2>4, <3>1, <3>2, <3>3, <3>5, TargetOfConfig DEF Latest
    <3>6. ASSUME NEW l \in 1..Len(insts), insts[l].id = i
          PROVE  Lookup(s, i) = Target(s, i)
      <4>1. PICK k \in 1..Len(insts) :
              /\ insts[k].id = i /\ insts[k].address = clients[s][i]
              /\ \A j \in (k + 1)..Len(insts) : insts[j].id # i
        BY <3>3, <3>6 DEF Latest
      <4>2. \A j \in 1..Len(insts) : insts[j].id = i => j <= k
        BY <3>1, <4>1
      <4>3. Target(s, i) = insts[k].address
        BY <2>2, <2>4, <3>1, <4>1, <4>2, TargetOfConfig
      <4>4. QED
        BY <3>2, <3>4, <4>1, <4>3
    <3>7. QED
      BY <3>5, <3>6
  <2>5. QED
    BY <2>3, <2>4
<1>2. QED
  BY <1>1, Invariance, PTL

\* With both services configured, each camera has its video stream.
THEOREM CamerasHaveVideo == Spec => []CameraAndVideoMatch
<1>1. Inv => CameraAndVideoMatch
  <2> SUFFICES ASSUME Inv, phase = "started", Services \subseteq DOMAIN config,
                      NEW i \in Ids
               PROVE  Lookup("camera_service", i) = "null"
                        <=> Lookup("video_service", i) = "null"
    BY DEF CameraAndVideoMatch
  <2>1. ASSUME NEW p \in 1..2
        PROVE  Lookup(Order[p], i) = "null" <=> i \notin IdsOf(config[Order[p]])
    <3> DEFINE insts == Configured(p)
    <3>1. Order[p] \in DOMAIN config /\ Order[p] \in Services
      BY Services12
    <3>2. insts = config[Order[p]] /\ insts \in Seq(Instance)
      BY <3>1 DEF Configured, Inv, TypeOK
    <3>3. i \in IdsOf(insts) <=> \E k \in 1..Len(insts) : insts[k].id = i
      BY <3>2 DEF IdsOf, ToSet
    <3>4. Latest(insts, Len(insts), i, clients[Order[p]][i])
      BY StartedLookup
    <3>5. \A k \in 1..Len(insts) : insts[k].address \notin {None, "null"}
      BY ServiceInstances, AddressesAssumption DEF Inv
    <3>6. clients[Order[p]][i] = None <=> i \notin IdsOf(insts)
      BY <3>3, <3>4, <3>5 DEF Latest
    <3>7. clients[Order[p]][i] # "null" \/ None = "null"
      BY <3>4, <3>5 DEF Latest
    <3>8. QED
      BY <3>1, <3>2, <3>6, <3>7, StartedLookup DEF Lookup
  <2>2. IdsOf(config["camera_service"]) = IdsOf(config["video_service"])
    BY DEF Inv, ConfigInv, Valid
  <2>3. QED
    BY <2>1, <2>2 DEF Order
<1>2. QED
  BY <1>1, Invariance, PTL

\* No client is without a channel, whichever creation failed and however far
\* shutdown() got, in a stop or in the cleanup of a failed start.
THEOREM ChannelsHaveClients == Spec => []ChannelsBelongToClients
<1>1. ASSUME Inv PROVE Halved
  <2>1. phase \in {"load", "rejected", "stopped", "failed"} => Halved
    BY <1>1 DEF Inv, PairedInv, Halved, Empty
  <2>2. phase \in {"initialize", "started", "broken", "leaking"} => Halved
    BY <1>1 DEF Inv, PairedInv, Halved
  <2>3. phase = "stub" => Halved
    BY <1>1, StubIsHalved DEF Inv
  <2>4. QED
    BY <1>1, <2>1, <2>2, <2>3 DEF Inv, TypeOK
<1>2. Inv => ChannelsBelongToClients
  BY <1>1 DEF Inv, PairedInv, ChannelsBelongToClients, Halved
<1>3. QED
  BY <1>2, Invariance, PTL

\* Every variable of Instances keeps its type.
THEOREM InstancesTypeCorrect == Spec => []TypeOK
<1>1. Inv => TypeOK
  BY DEF Inv
<1>2. QED
  BY <1>1, Invariance, PTL

===============================================================================
