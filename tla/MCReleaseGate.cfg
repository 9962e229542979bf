\* Two attempts of a run with one check; polls two ticks apart within a wait of three.
SPECIFICATION FairSpec
CONSTANTS
  Checks = {check}
  Gate = gate
  Wait = 3
  Pause = 2
  MaxAttempts = 2
  MaxTime = 5
INVARIANTS GateOfThisAttempt PatientWithLag
PROPERTIES WaitEnds
CHECK_DEADLOCK FALSE
