----------------------------- MODULE StartupProofs -----------------------------
(***************************************************************************)
(* Proofs about Startup, for every set of interfaces and addresses and     *)
(* every file.                                                             *)
(*                                                                         *)
(* The address a second process finds depends on the order in which        *)
(* get_priority ranks the interfaces and on what happened between the two  *)
(* processes; the history variables say the latter, and QuietInv and       *)
(* UntouchedInv relate them to the interfaces as they are now.             *)
(***************************************************************************)
EXTENDS Startup, TLAPS

\* Only loopback interfaces have the loopback address.
NicInv == \A n \in Names : nic[n] = LocalIp <=> n \in Loopback

\* A process that went past the configuration has a valid one, and one that
\* went past the loggers has set them all.
LoadedInv ==
  /\ why # "unknownApi"
  /\ phase \in {"logger", "create", "start", "listening"} => Valid(file)
  /\ phase \in {"create", "start", "listening"} =>
       /\ scopes = [s \in LogScopes |-> "named"]
       /\ level["named"] = LevelOf(file.level)

\* While it was quiet, the interface chosen last still has its address and
\* precedes all the others.
QuietInv ==
  quiet =>
    /\ last.name \in Candidates /\ nic[last.name] = last.ip
    /\ \A m \in Candidates \ {last.name} : Place(m) > Place(last.name)

\* While no interface changed, the one chosen last can be chosen again.
UntouchedInv ==
  untouched => last.name \in Primary /\ nic[last.name] = last.ip

Inv ==
  /\ TypeOK
  /\ NicInv
  /\ LoadedInv
  /\ QuietInv
  /\ UntouchedInv

-------------------------------------------------------------------------------
(* The order of the interfaces.                                            *)

\* The cases of get_priority, one at a time.
LEMMA Ranks ==
  ASSUME NEW p \in STRING, NEW r \in STRING
  PROVE  /\ p = "eth" /\ r = "0" => Rank(<<p, r>>) = 0
         /\ p = "eth" /\ r # "0" => Rank(<<p, r>>) = 1
         /\ p = "wlan" /\ r = "0" => Rank(<<p, r>>) = 2
         /\ p = "wlan" /\ r # "0" => Rank(<<p, r>>) = 3
         /\ p \notin {"eth", "wlan"} => Rank(<<p, r>>) \in {4, 5}
<1> DEFINE n == <<p, r>>
<1>1. n[1] = p /\ n[2] = r
  OBVIOUS
<1>2. n = <<"eth", "0">> <=> p = "eth" /\ r = "0"
  OBVIOUS
<1>3. n = <<"wlan", "0">> <=> p = "wlan" /\ r = "0"
  OBVIOUS
<1>4. "eth" # "wlan" /\ "eth" # "en" /\ "wlan" # "en"
  OBVIOUS
<1> HIDE DEF n
<1>5. p = "eth" /\ r = "0" => Rank(n) = 0
  BY <1>1, <1>2, <1>3, <1>4, Zenon DEF Rank
<1>6. p = "eth" /\ r # "0" => Rank(n) = 1
  BY <1>1, <1>2, <1>3, <1>4, Zenon DEF Rank
<1>7. p = "wlan" /\ r = "0" => Rank(n) = 2
  BY <1>1, <1>2, <1>3, <1>4, Zenon DEF Rank
<1>8. p = "wlan" /\ r # "0" => Rank(n) = 3
  BY <1>1, <1>2, <1>3, <1>4, Zenon DEF Rank
<1>9. p \notin {"eth", "wlan"} => Rank(n) \in {4, 5}
  <2>1. CASE p = "en"
    BY <1>1, <1>2, <1>3, <1>4, <2>1, Zenon DEF Rank
  <2>2. CASE p \notin {"eth", "wlan", "en"}
    BY <1>1, <1>2, <1>3, <2>2, Zenon DEF Rank
  <2>3. QED
    BY <2>1, <2>2
<1>10. QED
  BY <1>5, <1>6, <1>7, <1>8, <1>9 DEF n

\* get_priority keeps the order "eth0 > ethX > wlan0 > wlanX > others".
LEMMA RankKeepsPlace ==
  ASSUME NEW m \in STRING \X STRING, NEW n \in STRING \X STRING,
         Place(m) > Place(n)
  PROVE  Rank(m) > Rank(n)
<1>1. ASSUME NEW k \in STRING \X STRING
      PROVE  \/ Place(k) \in 1..4 /\ Rank(k) = Place(k) - 1
             \/ Place(k) = 5 /\ Rank(k) \in {4, 5}
  <2> DEFINE p == k[1]
             r == k[2]
  <2>1. k = <<p, r>> /\ p \in STRING /\ r \in STRING
    OBVIOUS
  <2>2. Place(k) = IF p \in {"eth", "wlan"}
                   THEN (IF p = "eth" THEN 1 ELSE 3) + (IF r = "0" THEN 0 ELSE 1)
                   ELSE 5
    BY DEF Place
  <2> HIDE DEF p, r
  <2>3. CASE p = "eth" /\ r = "0"
    BY <2>1, <2>2, <2>3, Ranks
  <2>4. CASE p = "eth" /\ r # "0"
    BY <2>1, <2>2, <2>4, Ranks
  <2>5. CASE p = "wlan" /\ r = "0"
    BY <2>1, <2>2, <2>5, Ranks
  <2>6. CASE p = "wlan" /\ r # "0"
    BY <2>1, <2>2, <2>6, Ranks
  <2>7. CASE p \notin {"eth", "wlan"}
    BY <2>1, <2>2, <2>7, Ranks
  <2>8. QED
    BY <2>3, <2>4, <2>5, <2>6, <2>7
<1>2. QED
  BY <1>1

\* The first candidate by place is the one the sort puts first.
LEMMA BestIsPrimary ==
  ASSUME NEW n \in Candidates, \A m \in Candidates \ {n} : Place(m) > Place(n)
  PROVE  Primary = {n}
<1>1. Candidates \subseteq STRING \X STRING
  BY NamesAssumption DEF Candidates
<1>2. \A m \in Candidates \ {n} : Rank(m) > Rank(n)
  BY <1>1, RankKeepsPlace
<1>3. \A m \in Candidates : Rank(m) \in Nat
  <2> SUFFICES ASSUME NEW m \in Candidates PROVE Rank(m) \in Nat
    OBVIOUS
  <2>1. m = <<m[1], m[2]>> /\ m[1] \in STRING /\ m[2] \in STRING
    BY <1>1
  <2>2. QED
    BY <2>1, Ranks
<1>4. QED
  BY <1>2, <1>3 DEF Primary

\* For a file that was accepted the factory fails for the one reason that no
\* interface has an address.
LEMMA ErrorOfAccepted ==
  ASSUME Valid(file)
  PROVE  CreateError = IF file.address = Wildcard /\ Primary = {}
                       THEN "noPrimary" ELSE "none"
<1>1. file.api = "grpc"
  BY DEF Valid, ApiValid
<1>2. CASE file.address = Wildcard /\ Primary = {}
  BY <1>1, <1>2, Zenon DEF CreateError
<1>3. CASE ~(file.address = Wildcard /\ Primary = {})
  BY <1>1, <1>3, Zenon DEF CreateError
<1>4. QED
  BY <1>2, <1>3

\* The address of a candidate.
LEMMA CandidateIp ==
  ASSUME TypeOK, NicInv, NEW n \in Candidates
  PROVE  n \in Names /\ nic[n] \in Ips
BY NamesAssumption DEF TypeOK, NicInv, Candidates

-------------------------------------------------------------------------------
(* The invariant.                                                          *)

\* It holds at first.
LEMMA InitInv == Init => Inv
<1> SUFFICES ASSUME Init PROVE Inv
  OBVIOUS
<1>1. TypeOK
  BY DEF Init, TypeOK, LogScopes, Adapters, LogLevels
<1>2. QED
  BY <1>1 DEF Init, Inv, NicInv, LoadedInv, QuietInv, UntouchedInv

\* Every step that does not touch the interfaces keeps what is known of them.
LEMMA SameInterfaces ==
  ASSUME NicInv, QuietInv, UntouchedInv, UNCHANGED <<nic, historyVars>>
  PROVE  NicInv' /\ QuietInv' /\ UntouchedInv'
BY DEF NicInv, QuietInv, UntouchedInv, Candidates, Primary, historyVars

\* Every step of the process and every change of an interface keeps it.
LEMMA NextInv ==
  ASSUME Inv, [Next]_vars
  PROVE  Inv'
<1> USE DEF Inv
<1>1. CASE LoadConfig
  <2>1. TypeOK'
    BY <1>1 DEF LoadConfig, End, TypeOK, historyVars
  <2>2. LoadedInv'
    BY <1>1 DEF LoadConfig, End, LoadedInv
  <2>3. QED
    BY <1>1, <2>1, <2>2, SameInterfaces DEF LoadConfig
<1>2. CASE ConfigureLogger
  <2>1. LevelOf(file.level) \in LogLevels
    BY DEF LevelOf, LogLevels
  <2>2. TypeOK'
    BY <1>2, <2>1 DEF ConfigureLogger, TypeOK, historyVars, LogScopes, Adapters
  <2>3. LoadedInv'
    <3>1. level' = [level EXCEPT !["named"] = LevelOf(file.level)]
      BY <1>2 DEF ConfigureLogger
    <3>2. level'["named"] = LevelOf(file.level)
      BY <3>1 DEF TypeOK, Adapters
    <3>3. QED
      BY <1>2, <3>2 DEF ConfigureLogger, LoadedInv
  <2>4. QED
    BY <1>2, <2>2, <2>3, SameInterfaces DEF ConfigureLogger
<1>3. CASE CreateFails
  <2>1. Valid(file) /\ CreateError = "noPrimary"
    BY <1>3, ErrorOfAccepted DEF CreateFails, LoadedInv
  <2>2. TypeOK'
    BY <1>3, <2>1 DEF CreateFails, End, TypeOK, historyVars
  <2>3. LoadedInv'
    BY <1>3, <2>1 DEF CreateFails, End, LoadedInv
  <2>4. QED
    BY <1>3, <2>2, <2>3, SameInterfaces DEF CreateFails
<1>4. CASE CreateController
  <2>1. LoadedInv'
    BY <1>4 DEF CreateController, LoadedInv
  <2>2. NicInv'
    BY <1>4 DEF CreateController, NicInv
  <2>3. CASE file.address # Wildcard /\ address' = file.address
               /\ UNCHANGED historyVars
    <3>1. file \in Files
      BY DEF TypeOK
    <3>2. TypeOK'
      BY <1>4, <2>3, <3>1 DEF CreateController, TypeOK, historyVars
    <3>3. QED
      BY <1>4, <2>1, <2>3, <3>2, SameInterfaces DEF CreateController
  <2>4. ASSUME NEW n \in Primary,
               address' = [host |-> nic[n], port |-> "50051"],
               last' = [name |-> n, ip |-> nic[n]],
               quiet' = \A m \in Candidates \ {n} : Place(m) > Place(n),
               untouched' = TRUE
        PROVE  TypeOK' /\ QuietInv' /\ UntouchedInv'
    <3>1. n \in Candidates /\ n \in Names /\ nic[n] \in Ips
      BY <2>4, CandidateIp DEF Primary
    <3>2. TypeOK'
      <4>1. address' \in [host : Ips, port : {"50051"}]
        BY <2>4, <3>1
      <4>2. last' \in [name : Names, ip : Ips]
        BY <2>4, <3>1
      <4>3. quiet' \in BOOLEAN
        BY <2>4, Zenon
      <4>4. QED
        BY <1>4, <2>4, <4>1, <4>2, <4>3 DEF CreateController, TypeOK
    <3>3. Candidates' = Candidates
      BY <1>4 DEF CreateController, Candidates
    <3>4. nic' = nic
      BY <1>4 DEF CreateController
    <3>5. quiet' => \A m \in Candidates \ {n} : Place(m) > Place(n)
      BY <2>4, Zenon
    <3>6. last'.name = n /\ last'.ip = nic[n]
      BY <2>4
    <3>7. QuietInv'
      BY <3>1, <3>3, <3>4, <3>5, <3>6 DEF QuietInv
    <3>8. Primary' = Primary
      BY <3>3 DEF Primary
    <3>9. UntouchedInv'
      BY <2>4, <3>4, <3>6, <3>8 DEF UntouchedInv
    <3>10. QED
      BY <3>2, <3>7, <3>9
  <2>5. QED
    BY <1>4, <2>1, <2>2, <2>3, <2>4 DEF CreateController
<1>5. CASE Listen
  <2>1. TypeOK'
    BY <1>5 DEF Listen, End, TypeOK, historyVars
  <2>2. LoadedInv'
    BY <1>5 DEF Listen, End, LoadedInv
  <2>3. QED
    BY <1>5, <2>1, <2>2, SameInterfaces DEF Listen
<1>6. CASE Stop
  <2>1. TypeOK'
    BY <1>6 DEF Stop, End, TypeOK, historyVars
  <2>2. LoadedInv'
    BY <1>6 DEF Stop, End, LoadedInv
  <2>3. QED
    BY <1>6, <2>1, <2>2, SameInterfaces DEF Stop
<1>7. CASE Launch
  <2>1. TypeOK'
    BY <1>7 DEF Launch, TypeOK, historyVars, LogScopes, Adapters, LogLevels
  <2>2. LoadedInv'
    BY <1>7 DEF Launch, LoadedInv
  <2>3. QED
    BY <1>7, <2>1, <2>2, SameInterfaces DEF Launch
<1>8. ASSUME NEW n \in Names \ Loopback, Change(n)
      PROVE  Inv'
  <2>1. PICK ip \in (Ips \cup {Off}) \ {nic[n]} : nic' = [nic EXCEPT ![n] = ip]
    BY <1>8 DEF Change
  <2>2. \A m \in Names : nic'[m] = IF m = n THEN ip ELSE nic[m]
    BY <2>1 DEF TypeOK
  <2>3. TypeOK'
    <3>1. nic' \in [Names -> Ips \cup {LocalIp, Off}]
      BY <2>1 DEF TypeOK
    <3>2. quiet' \in BOOLEAN
      BY <1>8, Zenon DEF Change
    <3>3. QED
      BY <1>8, <3>1, <3>2 DEF Change, TypeOK, processVars
  <2>4. NicInv'
    BY <2>2, IpsAssumption, NamesAssumption DEF NicInv
  <2>5. LoadedInv'
    BY <1>8 DEF Change, LoadedInv, processVars
  <2>6. QuietInv'
    <3> SUFFICES ASSUME quiet' PROVE QuietInv'
      BY DEF QuietInv
    <3>1. quiet /\ Place(n) > Place(last.name) /\ last' = last
      BY <1>8, Zenon DEF Change
    <3>2. last.name \in Candidates /\ nic[last.name] = last.ip
      BY <3>1 DEF QuietInv
    <3>3. last.name \in STRING \X STRING
      BY <3>2, NamesAssumption DEF Candidates
    <3>4. last.name # n
      <4>1. Place(last.name) \in Nat
        BY <3>3 DEF Place
      <4>2. QED
        BY <3>1, <4>1
    <3>5. last.name \in Candidates' /\ nic'[last.name] = last.ip
      BY <2>2, <3>2, <3>4 DEF Candidates
    <3>6. \A m \in Candidates' \ {last.name} : m = n \/ m \in Candidates
      BY <2>2 DEF Candidates
    <3>7. \A m \in Candidates' \ {last.name} : Place(m) > Place(last.name)
      BY <3>1, <3>6 DEF QuietInv
    <3>8. QED
      BY <3>1, <3>5, <3>7 DEF QuietInv
  <2>7. UntouchedInv'
    BY <1>8 DEF Change, UntouchedInv
  <2>8. QED
    BY <2>3, <2>4, <2>5, <2>6, <2>7
<1>9. CASE UNCHANGED vars
  BY <1>9, SameInterfaces DEF vars, processVars, historyVars, TypeOK, LoadedInv
<1>10. QED
  BY <1>1, <1>2, <1>3, <1>4, <1>5, <1>6, <1>7, <1>8, <1>9 DEF Next

\* Inv is an invariant of Startup.
LEMMA Invariance == Spec => []Inv
<1>1. Inv /\ [Next]_vars => Inv'
  BY NextInv
<1>2. QED
  BY InitInv, <1>1, PTL DEF Spec

-------------------------------------------------------------------------------
(* What it implies.                                                        *)

\* Every variable of Startup keeps its type.
THEOREM StartupTypeCorrect == Spec => []TypeOK
<1>1. Inv => TypeOK
  BY DEF Inv
<1>2. QED
  BY <1>1, Invariance, PTL

\* createController knows the API type of every file that validate() accepts.
THEOREM AcceptedApisAreKnown == Spec => []AcceptedApiIsKnown
<1>1. Inv => AcceptedApiIsKnown
  BY DEF Inv, LoadedInv, AcceptedApiIsKnown
<1>2. QED
  BY <1>1, Invariance, PTL

\* Once they are configured, all loggers have the level the file names.
THEOREM LoggersAreConfigured == Spec => []LoggerFollowsFile
<1>1. Inv => LoggerFollowsFile
  <2> SUFFICES ASSUME Inv, phase \in {"create", "start", "listening"},
                      NEW s \in LogScopes
               PROVE  level[scopes[s]] = file.level
    BY DEF LoggerFollowsFile
  <2>1. level[scopes[s]] = LevelOf(file.level)
    BY DEF Inv, LoadedInv
  <2>2. file.level \in LogLevels
    BY DEF Inv, LoadedInv, Valid
  <2>3. QED
    BY <2>1, <2>2 DEF LevelOf, LogLevels
<1>2. QED
  BY <1>1, Invariance, PTL

\* A process started again finds the address of the one before it: on any
\* machine if no interface changed, and if the interface had no equal, whatever
\* interfaces behind it in the order did meanwhile.
THEOREM AddressIsStable == Spec => WorseInterfaceNeverMoves
<1>1. ASSUME Inv, [Next]_vars
      PROVE  [(phase = "create" /\ phase' # "create" /\ file.address = Wildcard
                /\ (quiet \/ untouched))
                => phase' = "start" /\ address'.host = last.ip]_vars
  <2> SUFFICES ASSUME Next, phase = "create", phase' # "create",
                      file.address = Wildcard, quiet \/ untouched
               PROVE  phase' = "start" /\ address'.host = last.ip
    BY <1>1
  <2>1. CASE quiet
    <3>1. Primary = {last.name} /\ nic[last.name] = last.ip
      BY <1>1, <2>1, BestIsPrimary DEF Inv, QuietInv
    <3>2. CreateError = "none"
      BY <1>1, <3>1, ErrorOfAccepted DEF Inv, LoadedInv
    <3>3. CreateController
      BY <3>2 DEF Next, LoadConfig, ConfigureLogger, CreateFails, Listen, Stop,
                  Launch, Change, processVars
    <3>4. QED
      BY <3>1, <3>3 DEF CreateController
  <2>2. CASE untouched
    <3>1. last.name \in Primary /\ nic[last.name] = last.ip
      BY <1>1, <2>2 DEF Inv, UntouchedInv
    <3>2. CreateError = "none"
      BY <1>1, <3>1, ErrorOfAccepted DEF Inv, LoadedInv
    <3>3. CreateController
      BY <3>2 DEF Next, LoadConfig, ConfigureLogger, CreateFails, Listen, Stop,
                  Launch, Change, processVars
    <3>4. PICK n \in Primary :
            /\ address' = [host |-> nic[n], port |-> "50051"]
            /\ untouched => n = last.name
      BY <3>3, Zenon DEF CreateController
    <3>5. n = last.name
      BY <2>2, <3>4, Zenon
    <3>6. QED
      BY <3>1, <3>3, <3>4, <3>5 DEF CreateController
  <2>3. QED
    BY <2>1, <2>2
<1>2. QED
  BY <1>1, Invariance, PTL DEF Spec, WorseInterfaceNeverMoves

\* Some candidate is first when the interfaces are sorted, whatever they are
\* called and however many there are.
LEMMA SomeCandidateIsPrimary ==
  ASSUME Candidates # {}
  PROVE  Primary # {}
<1> DEFINE R == {Rank(n) : n \in Candidates}
<1>1. \A n \in Candidates : Rank(n) \in 0..5
  <2> SUFFICES ASSUME NEW n \in Candidates PROVE Rank(n) \in 0..5
    OBVIOUS
  <2>1. n = <<n[1], n[2]>> /\ n[1] \in STRING /\ n[2] \in STRING
    BY NamesAssumption DEF Candidates
  <2>2. QED
    BY <2>1, Ranks
<1>2. R \subseteq 0..5 /\ R # {}
  BY <1>1
<1> HIDE DEF R
<1>3. \E r \in R : \A q \in R : r <= q
  <2> SUFFICES ASSUME \A r \in R : \E q \in R : q < r
               PROVE  FALSE
    BY <1>2
  <2>1. 0 \notin R /\ 1 \notin R
    BY <1>2
  <2>2. 2 \notin R /\ 3 \notin R
    BY <1>2, <2>1
  <2>3. 4 \notin R /\ 5 \notin R
    BY <1>2, <2>1, <2>2
  <2>4. PICK r \in R : r \in 0..5
    BY <1>2
  <2>5. r \in {0, 1, 2, 3, 4, 5}
    BY <2>4
  <2>6. QED
    BY <2>1, <2>2, <2>3, <2>4, <2>5
<1>4. QED
  BY <1>3 DEF R, Primary

\* The start fails for lack of an address only on a machine where no interface
\* but loopback has one.
THEOREM NoPrimaryMeansNoAddress ==
  Spec => [][(why # "noPrimary" /\ why' = "noPrimary")
               => \A n \in Names \ Loopback : nic[n] = Off]_vars
<1>1. ASSUME Inv, [Next]_vars
      PROVE  [(why # "noPrimary" /\ why' = "noPrimary")
                => \A n \in Names \ Loopback : nic[n] = Off]_vars
  <2> SUFFICES ASSUME Next, why # "noPrimary", why' = "noPrimary"
               PROVE  Candidates = {}
    BY <1>1 DEF Candidates
  <2>1. CreateFails /\ CreateError = "noPrimary"
    BY DEF Next, LoadConfig, ConfigureLogger, CreateController, CreateFails,
           Listen, Stop, Launch, Change, End, processVars
  <2>2. Primary = {}
    BY <1>1, <2>1, ErrorOfAccepted DEF Inv, LoadedInv, CreateFails
  <2>3. QED
    BY <2>2, SomeCandidateIsPrimary
<1>2. QED
  BY <1>1, Invariance, PTL DEF Spec

===============================================================================
