SPECIFICATION FairSpec
CONSTANTS
  t1 = t1
  t2 = t2
  NoThread = NoThread
  Threads <- MCThreads
INVARIANTS
  TypeOK
  NeverStartedTwice
  RunningMeansServing
  PatientNeverBlocks
  CleanDestroy
PROPERTY
  CallsReturn
