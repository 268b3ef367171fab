SPECIFICATION PartSpec
CONSTANTS
  Instances = {i1, i2}
  MaxRounds = 3
  MaxMessages = 3
  MaxFailures = 1
  Parts = {"task", "pool"}
INVARIANTS
  TypeOK
  TaskIsServed
PROPERTIES
  WaitsEnd
CHECK_DEADLOCK FALSE
