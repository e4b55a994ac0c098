SPECIFICATION LifecycleSpec
CONSTANTS
  MaxOverlaps = 1
INVARIANTS
  IdleCheckRuns
