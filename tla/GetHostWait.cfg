CONSTANTS
  Timeouts <- SomeTimeouts
  Codes = {0, 1}
  MaxTime = 4
SPECIFICATION Spec
INVARIANT
  WaitsItsTime
CHECK_DEADLOCK FALSE
