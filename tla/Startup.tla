-------------------------------- MODULE Startup ---------------------------------
(***************************************************************************)
(* From the configuration file to the address a process listens at:        *)
(* Application::initialize with ConfigManager (everything but the client   *)
(* section, which is in Instances), LoggerRegistry, ApiControllerFactory   *)
(* and NetworkUtils, then the bind of GrpcTransport::start.  The network   *)
(* interfaces of the machine come, go and change their addresses meanwhile *)
(* and between one process and the next.                                   *)
(*                                                                         *)
(* One thread does all of it.  A process is started again by somebody      *)
(* outside, with the same file.                                            *)
(***************************************************************************)
EXTENDS Naturals

CONSTANTS
  Names,     \* network interfaces, as <<prefix of the name, rest of the name>>
  Loopback,  \* those with IFF_LOOPBACK
  LocalIp,   \* the address of these
  Ips,       \* IPv4 addresses the other interfaces may have
  Files,     \* the api section, level and name a file may have
  Off        \* an interface that is absent, down or without an IPv4 address

ASSUME NamesAssumption ==
  Names \subseteq STRING \X STRING /\ Loopback \subseteq Names
ASSUME IpsAssumption ==
  LocalIp \notin Ips /\ {Off, "0.0.0.0"} \cap (Ips \cup {LocalIp}) = {}

VARIABLES
  phase,    \* what Application is doing
  why,      \* how the last process ended
  file,     \* the configuration file
  scopes,   \* LoggerRegistry::scoped_loggers_: scope -> adapter
  level,    \* level of each SpdLogAdapter
  nic,      \* interface -> its address, or Off
  address,  \* ApiController::server_address_, as host and port
  last,     \* the interface and the address chosen last (history)
  quiet,    \* it had no equal, and since then only worse ones changed (history)
  untouched \* no interface changed since then (history)

processVars == <<phase, why, scopes, level, address>>
historyVars == <<last, quiet, untouched>>
vars == <<processVars, file, nic, historyVars>>

-------------------------------------------------------------------------------
Nothing == ""
LogScopes == {"App", "Api", "Core", "Infrastructure"}
Adapters == {"default", "named"}
LogLevels == {"trace", "debug", "info", "warn", "error", "critical"}

\* A file, with the empty string where it has no such field; the address of
\* one without a colon has no port.
File == [api : STRING, address : [host : STRING, port : STRING],
         level : STRING, name : STRING]
ASSUME FilesAssumption == Files \subseteq File

\* The address that initialize() replaces, as config.yaml has it.
Wildcard == [host |-> "0.0.0.0", port |-> "50051"]
NoAddress == [host |-> Nothing, port |-> Nothing]

Init ==
  /\ phase = "load" /\ why = "none"
  /\ file \in Files
  /\ scopes = [s \in LogScopes |-> "default"]
  /\ level = [a \in Adapters |-> "info"]
  /\ nic \in [Names -> Ips \cup {LocalIp, Off}]
  /\ \A n \in Names : nic[n] = LocalIp <=> n \in Loopback
  /\ address = NoAddress
  /\ last = [name |-> Nothing, ip |-> Off]
  /\ quiet = FALSE /\ untouched = FALSE

\* main() returns EXIT_FAILURE, or EXIT_SUCCESS after a signal.
End(reason) == phase' = "ended" /\ why' = reason

-------------------------------------------------------------------------------
(* The configuration file.                                                 *)

\* Fault: an API that is announced and not built yet.
ApiValidWithRest(f) ==
  /\ f.api \in {"grpc", "rest"}
  /\ f.address # NoAddress /\ f.address.port # Nothing

\* ApiConfig::validate.
ApiValid(f) ==
  /\ f.api \in {"grpc"}
  /\ f.address # NoAddress /\ f.address.port # Nothing

\* AppConfig::validate: the client section is Valid of Instances.
Valid(f) == ApiValid(f) /\ f.level \in LogLevels /\ f.name # Nothing

LoadConfig ==
  /\ phase = "load"
  /\ IF Valid(file) THEN phase' = "logger" /\ UNCHANGED why ELSE End("rejected")
  /\ UNCHANGED <<file, scopes, level, nic, address, historyVars>>

-------------------------------------------------------------------------------
(* The loggers.                                                            *)

\* Fault: the comparison with "critical" is missing.
LevelOfShort(l) ==
  IF l \in {"trace", "debug", "info", "warn", "error"} THEN l ELSE "info"

\* SpdLogAdapter::setLogLevel of a string it does not know is info.
LevelOf(l) ==
  IF l \in {"trace", "debug", "info", "warn", "error", "critical"} THEN l ELSE "info"

\* CONFIGURE_LOGGER: a new adapter gets the level and then replaces the old one
\* in the registry and in the four scoped loggers.
ConfigureLogger ==
  /\ phase = "logger"
  /\ phase' = "create"
  /\ level' = [level EXCEPT !["named"] = LevelOf(file.level)]
  /\ scopes' = [s \in LogScopes |-> "named"]
  /\ UNCHANGED <<why, file, nic, address, historyVars>>

-------------------------------------------------------------------------------
(* The address.                                                            *)

\* Fault: the comparison with "wlan0" is missing.
RankForgetsWlan0(name) ==
  CASE name = <<"eth", "0">>  -> 0
    [] name[1] = "eth" /\ name[2] # "0"  -> 1
    [] name[1] = "wlan" -> 3
    [] name[1] = "en" -> 4
    [] OTHER -> 5

\* The lambda get_priority of getPrimaryIpAddress.
Rank(name) ==
  CASE name = <<"eth", "0">>  -> 0
    [] name[1] = "eth" /\ name[2] # "0"  -> 1
    [] name = <<"wlan", "0">> -> 2
    [] name[1] = "wlan" /\ name[2] # "0" -> 3
    [] name[1] = "en" -> 4
    [] OTHER -> 5

\* Fault: the filter lets interfaces pass that are down or have no address.
CandidatesWithDown == Names \ Loopback

\* The interfaces that getNetworkInterfaces reports and the filter of
\* getPrimaryIpAddress leaves.
Candidates == {n \in Names \ Loopback : nic[n] # Off}

\* Those that may come first when they are sorted by rank: std::sort says
\* nothing of the order of equals.
Primary == {n \in Candidates : \A m \in Candidates : Rank(n) <= Rank(m)}

\* The order of the comment in getPrimaryIpAddress, "eth0 > ethX > wlan0 > wlanX > others".
\* The header has wlan0 before every ethX but eth0, which the code does not follow.
Place(name) ==
  IF name[1] \in {"eth", "wlan"}
  THEN (IF name[1] = "eth" THEN 1 ELSE 3) + (IF name[2] = "0" THEN 0 ELSE 1)
  ELSE 5

\* The exceptions of ApiControllerFactory::createController: the address is
\* looked for first, then the kind of controller is looked at.
CreateError ==
  CASE file.address = Wildcard /\ Primary = {} -> "noPrimary"
    [] file.api # "grpc" -> "unknownApi"
    [] OTHER -> "none"

\* An exception ends initialize() and main().
CreateFails ==
  /\ phase = "create"
  /\ CreateError # "none"
  /\ End(CreateError)
  /\ UNCHANGED <<file, scopes, level, nic, address, historyVars>>

\* createController.  The same list of interfaces is sorted the same way again;
\* once it changed, any of several equal ones may come first.
CreateController ==
  /\ phase = "create"
  /\ CreateError = "none"
  /\ \/ /\ file.address # Wildcard
        /\ address' = file.address
        /\ UNCHANGED historyVars
     \/ /\ file.address = Wildcard
        /\ \E n \in Primary :
             /\ address' = [host |-> nic[n], port |-> "50051"]
             /\ last' = [name |-> n, ip |-> nic[n]]
             /\ untouched => n = last.name
             /\ quiet' = \A m \in Candidates \ {n} : Place(m) > Place(n)
             /\ untouched' = TRUE
  /\ phase' = "start"
  /\ UNCHANGED <<why, file, scopes, level, nic>>

\* GrpcTransport::start binds the address, if the machine still has it.
Listen ==
  /\ phase = "start"
  /\ \/ /\ address.host \notin Ips \/ \E n \in Names : nic[n] = address.host
        /\ phase' = "listening"
        /\ UNCHANGED why
     \/ End("notBound")
  /\ UNCHANGED <<file, scopes, level, nic, address, historyVars>>

Stop ==
  /\ phase = "listening"
  /\ End("stopped")
  /\ UNCHANGED <<file, scopes, level, nic, address, historyVars>>

-------------------------------------------------------------------------------
(* Outside.                                                                *)

\* The service is started again: a new process with nothing but the file.
Launch ==
  /\ phase = "ended"
  /\ phase' = "load" /\ why' = "none"
  /\ scopes' = [s \in LogScopes |-> "default"]
  /\ level' = [a \in Adapters |-> "info"]
  /\ address' = NoAddress
  /\ UNCHANGED <<file, nic, historyVars>>

\* An interface comes, goes, or gets another address.
Change(n) ==
  /\ \E ip \in (Ips \cup {Off}) \ {nic[n]} : nic' = [nic EXCEPT ![n] = ip]
  /\ quiet' = (quiet /\ Place(n) > Place(last.name))
  /\ untouched' = FALSE
  /\ UNCHANGED <<processVars, file, last>>

Next ==
  \/ LoadConfig \/ ConfigureLogger \/ CreateFails \/ CreateController \/ Listen \/ Stop
  \/ Launch \/ \E n \in Names \ Loopback : Change(n)

Spec == Init /\ [][Next]_vars

-------------------------------------------------------------------------------
(* Properties.                                                             *)

TypeOK ==
  /\ phase \in {"load", "logger", "create", "start", "listening", "ended"}
  /\ why \in {"none", "rejected", "noPrimary", "unknownApi", "notBound", "stopped"}
  /\ file \in Files
  /\ scopes \in [LogScopes -> Adapters]
  /\ level \in [Adapters -> LogLevels]
  /\ nic \in [Names -> Ips \cup {LocalIp, Off}]
  /\ address \in {NoAddress} \cup {f.address : f \in Files}
                  \cup [host : Ips, port : {"50051"}]
  /\ last = [name |-> Nothing, ip |-> Off] \/ last \in [name : Names, ip : Ips]
  /\ quiet \in BOOLEAN /\ untouched \in BOOLEAN

\* The factory knows every API type that the validation accepts: the two keep
\* lists of their own, and the factory throws for a type it does not know.
AcceptedApiIsKnown == why # "unknownApi"

\* From initialize() on every scope logs through the one adapter of the file, at
\* the level of the file: an accepted level is never taken for an unknown one.
LoggerFollowsFile ==
  phase \in {"create", "start", "listening"} =>
    \A s \in LogScopes : level[scopes[s]] = file.level

\* A process started again finds the address of the one before it, if no
\* interface changed meanwhile, or if its interface had no equal and only
\* interfaces behind it in the order came, went or changed.
WorseInterfaceNeverMoves ==
  [][(phase = "create" /\ phase' # "create" /\ file.address = Wildcard
        /\ (quiet \/ untouched))
       => phase' = "start" /\ address'.host = last.ip]_vars

\* A client on the machine itself that connects to 0.0.0.0, which is the loopback
\* interface, reaches a service that listens at the address of config.yaml.
ReadmeClientConnects ==
  (phase = "listening" /\ file.address = Wildcard) =>
    address.host \in {"0.0.0.0", LocalIp}
===============================================================================
