\* The very first allocation fails between creating the branch and writing the file.
SPECIFICATION Spec
CONSTANTS
  Runs = {1}
  Bases = {"1.0"}
  Dispatched = {"nightly"}
  PolicyFloor = 0
  MaxBuild = 2
  MaxAttempts = 2
  Serialized = TRUE
INVARIANTS RefusalHasHistory
CHECK_DEADLOCK FALSE
