SPECIFICATION Spec
CONSTANTS
  Scenarios <- OnlyCatch
  Cafs <- CafNames
  Externs <- SomeExterns
  ConMaxTag = 10
  WordBits = 6
  StackThreshold = 12
INVARIANTS WordAboveFrame
