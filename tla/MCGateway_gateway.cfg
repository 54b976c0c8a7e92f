SPECIFICATION Spec
CONSTANTS
  Request = {r1, r2, r3, r4}
  Limit = 1
  Window = 2
  Delay = 1
  MaxTime = 4
  MaxFaults = 1
SYMMETRY Symmetry
INVARIANTS
    LimitPerWindow
    RefusalsHold
CHECK_DEADLOCK FALSE
