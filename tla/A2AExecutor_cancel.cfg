SPECIFICATION Spec
CONSTANTS
  Instances = {i1, i2}
  MaxRounds = 1
  MaxMessages = 1
  MaxFailures = 0
PROPERTIES
  QuietOnceCancelled
CHECK_DEADLOCK FALSE
