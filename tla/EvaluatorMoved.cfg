SPECIFICATION Spec
CONSTANTS
  Scenarios <- OnlyMoved
  Cafs <- CafNames
  Externs <- SomeExterns
  ConMaxTag = 10
  WordBits = 6
  StackThreshold = 12
PROPERTIES UpdatesAreMade
