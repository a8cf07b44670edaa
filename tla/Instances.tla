------------------------------- MODULE Instances -------------------------------
(***************************************************************************)
(* From the configuration file to the client a camera_id is routed to:     *)
(* ConfigManager reads and validates the client section, Core::start lets  *)
(* a new GrpcClientManager open one channel and one client per instance,   *)
(* InstanceRouter finds the client of a request, Core::stop drops them.    *)
(* One thread does all of it; Lifecycle has the interleavings with         *)
(* requests.                                                               *)
(***************************************************************************)
EXTENDS Naturals, SequencesExt

CONSTANTS
  Ids,         \* instance ids in files and camera_id values in requests
  Addresses,   \* addresses of the form host:port
  BadAddress,  \* an address that is empty or has no port
  Missing,     \* a field the file does not have
  Documents,   \* the client sections a file may have
  None         \* no client, no channel

Services == {"camera_service", "video_service"}
Order == <<"camera_service", "video_service">>

\* A client section is a sequence of entries, as the file lists them.  An
\* entry has a list of instances (form "instances"), one address without an id
\* ("address"), or neither.
Instance == [id : Ids \cup {Missing},
             address : Addresses \cup {BadAddress, Missing}]
Entry == [name : STRING, form : {"instances", "address", "neither"},
          instances : Seq(Instance)]
IsDocument(doc) ==
  /\ doc \in Seq(Entry)
  /\ \A i \in 1..Len(doc) : doc[i].form = "address" =>
       /\ Len(doc[i].instances) = 1
       /\ doc[i].instances[1].address # Missing
       /\ doc[i].instances[1].id = "0"
  /\ \A i \in 1..Len(doc) : doc[i].form = "neither" => doc[i].instances = <<>>

ASSUME DocumentsAssumption == \A doc \in Documents : IsDocument(doc)
ASSUME IdsAssumption == "0" \in Ids /\ Missing \notin Ids
ASSUME AddressesAssumption ==
  Addresses \cap {BadAddress, Missing, None, "throws", "null"} = {}

VARIABLES
  phase,     \* what the program is doing or has done
  doc,       \* the client section of the file
  config,    \* InfrastructureConfig::clients: name -> sequence of instances
  at,        \* the instance initialize() creates next: position in Order and
             \* in the instances of that service
  channels,  \* camera_channels_ and video_channels_: service -> id -> address
  clients    \* camera_clients_ and video_clients_, by the address of the channel

vars == <<phase, doc, config, at, channels, clients>>

Empty == [s \in Services |-> [i \in Ids |-> None]]
NoConfig == [n \in {} |-> <<>>]

TypeOK ==
  /\ phase \in {"load", "rejected", "stopped", "initialize", "stub", "started",
               "broken", "failed", "leaking"}
  /\ IsDocument(doc)
  /\ at \in (1..3) \X (Nat \ {0})
  /\ \A n \in DOMAIN config : config[n] \in Seq(Instance)
  /\ channels \in [Services -> [Ids -> Addresses \cup {None}]]
  /\ clients \in [Services -> [Ids -> Addresses \cup {None}]]

Init ==
  /\ phase = "load"
  /\ doc \in Documents
  /\ config = NoConfig
  /\ at = <<1, 1>>
  /\ channels = Empty /\ clients = Empty

-------------------------------------------------------------------------------
(* Reading the file.                                                       *)

IdsOf(instances) == {inst.id : inst \in ToSet(instances)}

\* An instance of a list must have both fields.
Parses(d) ==
  \A i \in 1..Len(d) :
    d[i].form = "instances" =>
      \A inst \in ToSet(d[i].instances) : inst.id # Missing /\ inst.address # Missing

\* loadInfrastructureConfig: emplace() keeps the first entry of a name.
Load(d) ==
  [n \in {d[i].name : i \in 1..Len(d)} |->
     LET first == CHOOSE i \in 1..Len(d) :
                    d[i].name = n /\ \A j \in 1..(i - 1) : d[j].name # n
     IN  d[first].instances]

\* Fault: the ids of the two services are not compared.
ValidUnmatched(c) ==
  \A n \in DOMAIN c :
    c[n] # <<>> /\ \A inst \in ToSet(c[n]) : inst.address \in Addresses

\* Fault: the addresses are not validated.
ValidAnyAddress(c) ==
  /\ \A n \in DOMAIN c : c[n] # <<>>
  /\ Services \subseteq DOMAIN c =>
       IdsOf(c["camera_service"]) = IdsOf(c["video_service"])

\* InfrastructureConfig::validate.
Valid(c) ==
  /\ \A n \in DOMAIN c :
       c[n] # <<>> /\ \A inst \in ToSet(c[n]) : inst.address \in Addresses
  /\ Services \subseteq DOMAIN c =>
       IdsOf(c["camera_service"]) = IdsOf(c["video_service"])

ReadFile ==
  /\ phase = "load"
  /\ IF Parses(doc) /\ Valid(Load(doc))
     THEN phase' = "stopped" /\ config' = Load(doc)
     ELSE phase' = "rejected" /\ UNCHANGED config
  /\ UNCHANGED <<doc, at, channels, clients>>

-------------------------------------------------------------------------------
(* Core::start and GrpcClientManager::initialize.                          *)

\* The instances of the service at position p of Order.
Configured(p) ==
  IF p \in 1..2 /\ Order[p] \in DOMAIN config THEN config[Order[p]] ELSE <<>>

\* A new manager, after a stop or after a start that failed: what the old one
\* still has goes with it.
Start ==
  /\ phase \in {"stopped", "failed", "leaking"}
  /\ phase' = "initialize" /\ at' = <<1, 1>>
  /\ channels' = Empty /\ clients' = Empty
  /\ UNCHANGED <<doc, config>>

\* The instance initializeService is at, if there is one left.
Current == Configured(at[1])[at[2]]
InstanceLeft == at[2] <= Len(Configured(at[1]))

\* createChannel: operator[] replaces the channel of an instance with the same
\* id, whose client keeps it alive.
OpenChannel ==
  /\ phase = "initialize" /\ InstanceLeft
  /\ phase' = "stub"
  /\ channels' = [channels EXCEPT ![Order[at[1]]][Current.id] = Current.address]
  /\ UNCHANGED <<doc, config, at, clients>>

\* Fault: a client that is already there is kept.
CreateKeepsFirstClient ==
  /\ phase = "stub"
  /\ phase' = "initialize" /\ at' = <<at[1], at[2] + 1>>
  /\ clients' = [clients EXCEPT ![Order[at[1]]][Current.id] =
                    IF @ = None THEN Current.address ELSE @]
  /\ UNCHANGED <<doc, config, channels>>

\* The client factory: operator[] replaces the client of that id as well.
CreateClient ==
  /\ phase = "stub"
  /\ phase' = "initialize" /\ at' = <<at[1], at[2] + 1>>
  /\ clients' = [clients EXCEPT ![Order[at[1]]][Current.id] = Current.address]
  /\ UNCHANGED <<doc, config, channels>>

\* shutdown() makes four calls of clear(): the clients and then the channels of
\* a service, one service after the other.  An exception ends it in between.
ClearsBefore(s) == IF s = "camera_service" THEN 0 ELSE 2

\* Fault: the channels of a service are cleared before its clients.
ShutdownChannelsFirst(clears) ==
  /\ channels' = [s \in Services |->
       IF clears > ClearsBefore(s) THEN Empty[s] ELSE channels[s]]
  /\ clients' = [s \in Services |->
       IF clears > ClearsBefore(s) + 1 THEN Empty[s] ELSE clients[s]]

\* shutdown() as far as the first `clears` of them.
Shutdown(clears) ==
  /\ clients' = [s \in Services |->
       IF clears > ClearsBefore(s) THEN Empty[s] ELSE clients[s]]
  /\ channels' = [s \in Services |->
       IF clears > ClearsBefore(s) + 1 THEN Empty[s] ELSE channels[s]]

\* An exception behind the first clear() comes out of a loop over clients or
\* channels that are still there.
Throws(clears) == clears > 0 => channels' # Empty

\* A channel or a stub cannot be created: initialize() calls shutdown() and
\* rethrows, Core::start answers an error.  If this shutdown() throws itself,
\* the manager keeps what is left until the next start replaces it.
CreateFails ==
  /\ phase = "stub" \/ (phase = "initialize" /\ InstanceLeft)
  /\ \/ Shutdown(4) /\ phase' = "failed"
     \/ \E n \in 0..3 : Shutdown(n) /\ Throws(n) /\ phase' = "leaking"
  /\ UNCHANGED <<doc, config, at>>

NextService ==
  /\ phase = "initialize" /\ ~InstanceLeft
  /\ IF at[1] < 2 THEN at' = <<at[1] + 1, 1>> /\ UNCHANGED phase
     ELSE phase' = "started" /\ UNCHANGED at
  /\ UNCHANGED <<doc, config, channels, clients>>

\* Core::stop: shutdown() drops the clients and the channels of both services.
Stop ==
  /\ phase \in {"started", "broken"}
  /\ phase' = "stopped"
  /\ Shutdown(4)
  /\ UNCHANGED <<doc, config, at>>

\* shutdown() throws in Core::stop, which answers an error and stays running:
\* start() is refused, and only a further stop(), that of ~Core, goes on.
StopFails ==
  /\ phase \in {"started", "broken"}
  /\ phase' = "broken"
  /\ \E n \in 0..3 : Shutdown(n) /\ Throws(n)
  /\ UNCHANGED <<doc, config, at>>

\* The constructor of ConfigManager threw and main() ended.
Rejected == phase = "rejected" /\ UNCHANGED vars

Next ==
  \/ ReadFile \/ Start \/ OpenChannel \/ CreateClient \/ CreateFails
  \/ NextService \/ Stop \/ StopFails \/ Rejected

Spec == Init /\ [][Next]_vars

-------------------------------------------------------------------------------
(* Routing.                                                                *)

\* get...ServiceClient and InstanceRouter::getClient: an exception when the
\* service has no client at all, a null pointer when the instance has none.
Lookup(s, i) ==
  IF \A j \in Ids : clients[s][j] = None THEN "throws"
  ELSE IF clients[s][i] = None THEN "null"
  ELSE clients[s][i]

-------------------------------------------------------------------------------
(* Properties.                                                             *)

\* The address a request for service s and id i must reach: that of the last
\* instance with that id in the first entry of that service in the file.
Target(s, i) ==
  LET entries == {e \in 1..Len(doc) : doc[e].name = s}
      first == doc[CHOOSE e \in entries : \A f \in entries : e <= f].instances
      same == {k \in 1..Len(first) : first[k].id = i}
  IN  IF entries = {} THEN "throws"
      ELSE IF same = {} THEN "null"
      ELSE first[CHOOSE k \in same : \A j \in same : j <= k].address

\* Once Core started, for the first or for the second time, a request reaches
\* the instance the file names for it and no other, and one the file does not
\* name gets the error of its case.
RoutesAsConfigured ==
  phase = "started" =>
    \A s \in Services, i \in Ids : Lookup(s, i) = Target(s, i)

\* With both services in the file, a camera_id that has a camera has a video
\* stream and the other way round.
CameraAndVideoMatch ==
  (phase = "started" /\ Services \subseteq DOMAIN config) =>
    \A i \in Ids : Lookup("camera_service", i) = "null"
                     <=> Lookup("video_service", i) = "null"

\* No client is ever without an open channel, also when shutdown() ends halfway
\* with an exception.  A started Core has the two in pairs to the same address,
\* also with two instances of the same id; after a failed stop a client that is
\* left has its own channel, and a channel may be left alone; after a complete
\* stop and after a failed start that was cleaned up there is neither.
ChannelsBelongToClients ==
  /\ \A s \in Services, i \in Ids : clients[s][i] # None => channels[s][i] # None
  /\ phase = "started" => channels = clients
  /\ phase = "broken" =>
       \A s \in Services, i \in Ids : clients[s][i] \in {None, channels[s][i]}
  /\ phase \in {"rejected", "stopped", "failed"} =>
       clients = Empty /\ channels = Empty

\* Every instance of an accepted file gets a client.
EveryInstanceHasAClient ==
  phase = "started" =>
    \A s \in Services \cap DOMAIN config :
      \A inst \in ToSet(config[s]) : Lookup(s, inst.id) = inst.address

\* A file with a camera instance 0 is rejected.
ZeroIdIsRejected ==
  (phase = "started" /\ "camera_service" \in DOMAIN config) =>
    "0" \notin IdsOf(config["camera_service"])
===============================================================================
