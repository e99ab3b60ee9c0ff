CONSTANTS
  Video = {v1}
  Run = {r1, r2}
  Parts = 2
  MaxFaults = 1
  MaxRemovals = 0
SPECIFICATION Spec
INVARIANTS ReadyIsWhole
CHECK_DEADLOCK FALSE
