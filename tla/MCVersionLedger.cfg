\* Two runs that overlap freely: the compare-and-swap alone protects the ledger.
SPECIFICATION Spec
CONSTANTS
  Runs = {1, 2}
  Bases = {"1.0"}
  Dispatched = {"beta", "rc", "nightly", "stable"}
  PolicyFloor = 1
  MaxBuild = 3
  MaxAttempts = 2
  Serialized = FALSE
INVARIANTS PlansAreDurable ReservationsDistinct
PROPERTIES LedgerMovesForward NumberConsumedOnce
CHECK_DEADLOCK FALSE
