------------------------------- MODULE MCStartup -------------------------------
(* Startup on a machine with seven interfaces besides lo, two of them of the  *)
(* same rank, and two addresses they may have, over files with each field     *)
(* right, wrong or missing.                                                   *)
EXTENDS Startup

Lo == <<"lo", Nothing>>
MCLoopback == {Lo}
MCNames == {Lo, <<"eth", "0">>, <<"eth", "1">>, <<"wlan", "0">>, <<"wlan", "1">>,
            <<"en", "p3s0">>, <<"en", "p4s0">>, <<"usb", "0">>}
MCIps == {"10.0.0.1", "10.0.0.2"}

MCFile == [api |-> "grpc", address |-> Wildcard, level |-> "critical", name |-> "core"]
MCFiles ==
  {[MCFile EXCEPT !.api = a, !.address.port = p] : a \in {"grpc", "rest"},
                                              p \in {"50051", "50052", Nothing}}
  \cup {[MCFile EXCEPT !.level = l] : l \in {"loud", Nothing}}
===============================================================================
