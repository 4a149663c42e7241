CONSTANTS
  YoungMax = 5
  MinorSizes = {5}
  YoungLimits = {1, 2}
  Old = {11, 12, 13}
  Roots <- MCRoots
  NF = 2
  Reserve = 1
  MaxRefs = 3
  MaxSteps = 4
  Bytes = {0}
  Unbarriered = FALSE
  Link = Link
SPECIFICATION FairSpec
CHECK_DEADLOCK FALSE
INVARIANTS TableSound NoneLeftYoung HeapPreserved
PROPERTIES CollectionEnds
