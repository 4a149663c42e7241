SPECIFICATION Spec
CHECK_DEADLOCK FALSE
CONSTANTS
  Chunks <- MCChunks
  Heaps <- MCHeaps
  Roots = 1
  Slack = 2
  percent_free = 2
  percent_max = 64
  Hundred = 2
INVARIANTS ListsSound NeverOvertakes CompactionSound
PROPERTY CompactionEnds
