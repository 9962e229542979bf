\* Three runs, one at a time, as the workflow's concurrency group has it.
SPECIFICATION Spec
CONSTANTS
  Runs = {1, 2, 3}
  Bases = {"1.0"}
  Dispatched = {"rc", "nightly", "stable"}
  PolicyFloor = 0
  MaxBuild = 3
  MaxAttempts = 2
  Serialized = TRUE
PROPERTIES NoDowngrade NothingAfterStable
CHECK_DEADLOCK FALSE
