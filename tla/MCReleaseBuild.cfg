\* Both package formats, two attempts, and at most two faults in all.
SPECIFICATION MCSpec
CONSTANTS
  Radix = 10
  MaxDev = 100
  Floor = 0
  Paths = {"manifest", "project"}
  Slots = {"version", "build"}
  Declared <- MCDeclared
  Base = 1
  Policy = "policy"
  Source = "commit"
  Plans <- MCPlans
  MaxFaults = 2
  MaxDepth = 2
  MaxVisited = 5
  MaxMetadata = 16
  MaxDocument = 5
  MaxMembers = 12
  Size <- MCSize
  Legible <- MCLegible
  Platforms <- MCPlatforms
  Revision = "commit"
  Formats = {"plain", "oci"}
  Artifact <- MCArtifact
  Exports <- MCExports
  MaxAttempts = 2
INVARIANTS MergedWhole MergedVerifies ShippedFromCommit ShippedFromThisAttempt
PROPERTIES EditsSurvive KilledSyncCompletes
CHECK_DEADLOCK FALSE
