CONSTANTS
  N = 3
  Initial = 2
  NF = 1
  GraySize = 2
  GrayLimits = {0, 4}
SPECIFICATION Spec
INVARIANTS ReachableAllocated CollectorChecks NoWhiteReachable
PROPERTIES CollectorInvisible
CHECK_DEADLOCK FALSE
