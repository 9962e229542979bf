\* One package file and its manifest, two attempts of the run, four changes by others.
SPECIFICATION Spec
CONSTANTS
  Files = {package}
  MANIFEST = manifest
  MaxOutside = 4
INVARIANTS AcceptedBytes KnownAfresh
CHECK_DEADLOCK FALSE
