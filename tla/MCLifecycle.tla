------------------------------ MODULE MCLifecycle ------------------------------
(* Lifecycle with one instance of camera_service, with or without one of     *)
(* video_service, and requests for it and for one that does not exist.       *)
EXTENDS Lifecycle, TLC

CONSTANTS w1, w2, cam0, cam1

MCWorkers == {w1, w2}
MCIds == {cam0, cam1}
MCConfigured == ("camera" :> {cam0}) @@ ("video" :> {})

MCConfiguredBoth == ("camera" :> {cam0}) @@ ("video" :> {cam0})

MCSymmetry == Permutations(MCWorkers)
===============================================================================
