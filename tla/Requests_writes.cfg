SPECIFICATION Spec
CONSTANTS
  c1 = c1
  c2 = c2
  w1 = w1
  w2 = w2
  cam0 = cam0
  cam1 = cam1
  cam2 = cam2
  Nobody = Nobody
  Clients <- MCClients
  Workers <- MCWorkers
  Ids <- MCOneId
  Configured <- MCConfiguredOne
  Levels <- MCLevels
  MinZoom = "0"
  MaxZoom = "100"
  Rpcs <- MCZoomRpcs
  Healthy <- MCOneId
SYMMETRY MCSymmetry
INVARIANTS
  TypeOK
  OneHandlerPerClient
  AcknowledgedWriteStands
PROPERTY
  ImplementsRegisters
