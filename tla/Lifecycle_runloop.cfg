SPECIFICATION Spec
CONSTANTS
  w1 = w1
  w2 = w2
  cam0 = cam0
  cam1 = cam1
  Workers <- MCWorkers
  Ids <- MCIds
  Configured <- MCConfigured
INVARIANT RunLoopSucceeds
