------------------------------ MODULE MCInstances ------------------------------
(* Instances over every client section of at most two entries, for the two   *)
(* services and one unknown name, each of at most two instances with two ids *)
(* and two addresses, a malformed address or a missing field.                *)
EXTENDS Instances

MCIds == {"0", "1"}
MCAddresses == {"a:1", "b:1"}

MCInstance ==
  [id : MCIds, address : MCAddresses]
    \cup {[id |-> "1", address |-> BadAddress], [id |-> Missing, address |-> "a:1"]}

MCEntry ==
  [name : Services \cup {"other_service"}, form : {"instances"},
   instances : UNION {[1..n -> MCInstance] : n \in 0..2}]
  \cup [name : Services, form : {"address"},
        instances : {<<[id |-> "0", address |-> a]>> : a \in {"a:1", BadAddress}}]
  \cup [name : Services, form : {"neither"}, instances : {<<>>}]

MCDocuments == UNION {[1..n -> MCEntry] : n \in 0..2}
===============================================================================
