SPECIFICATION Spec
CONSTANTS
  Keys = {k1}
  Requests = {r1, r2}
  NoOne = NoOne
  MaxServers = 1
  MaxRemoves = 1
INVARIANTS
  CreatingIsRunning
