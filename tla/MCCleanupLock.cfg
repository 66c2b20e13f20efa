SPECIFICATION Spec
CONSTANTS
  MaxSamples = 2
  Jobs <- FaultyJob
CHECK_DEADLOCK FALSE
INVARIANTS
  LocksAreReleased
