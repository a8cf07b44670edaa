------------------------------ MODULE MCRequests -------------------------------
(* Requests with two clients and two callback threads and a camera_service   *)
(* alone.  Either it has one instance, and requests write and read its zoom  *)
(* register; or it has two, of which one answers, and requests read, also of *)
(* an instance that does not exist and of the service that is missing.       *)
EXTENDS Requests, TLC

CONSTANTS c1, c2, w1, w2, cam0, cam1, cam2

MCClients == {c1, c2}
MCWorkers == {w1, w2}
MCOneId == {cam0}
MCIds == {cam0, cam1, cam2}
MCConfiguredOne == ("camera" :> {cam0}) @@ ("video" :> {})
MCConfiguredTwo == ("camera" :> {cam0, cam1}) @@ ("video" :> {})

MCLevels == {"0", "100"}

MCZoomRpcs == {"SetZoom", "GetZoom", "GoToMinZoom"}
MCCapabilityRpcs == {"GetCapabilities", "GetVideoCapabilities"}

MCSymmetry == Permutations(MCClients) \cup Permutations(MCWorkers)
===============================================================================
