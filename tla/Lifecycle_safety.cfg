SPECIFICATION FairSpec
CONSTANTS
  w1 = w1
  w2 = w2
  cam0 = cam0
  cam1 = cam1
  Workers <- MCWorkers
  Ids <- MCIds
  Configured <- MCConfiguredBoth
INVARIANTS
  TypeOK
  NoDanglingClient
  NoRaceOnCore
  AcceptedIsServed
  SuccessMeansStopped
  CleanExit
  JoinMeetsNoWait
PROPERTIES
  TeardownOrder
  MainGoesForward
  ImplementsService
  UsesController
  ProcessEnds
  EveryRequestFinishes
