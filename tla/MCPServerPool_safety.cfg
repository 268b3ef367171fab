SPECIFICATION Spec
CONSTANTS
  Keys = {k1, k2}
  Requests = {r1, r2, r3}
  NoOne = NoOne
  MaxServers = 1
  MaxRemoves = 1
SYMMETRY Symmetry
INVARIANTS
  TypeOK
  CapacityKept
  OneServerPerKey
  LeasesCounted
  StaleServerStoppedFirst
  ShutdownIsComplete
PROPERTIES
  EvictsUnusedOnly
  LeasesOpenServer
