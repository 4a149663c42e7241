SPECIFICATION FairSpec
CONSTANTS
  Scenarios <- AllScenarios
  Cafs <- CafNames
  Externs <- SomeExterns
  ConMaxTag = 10
  WordBits = 6
  StackThreshold = 12
INVARIANTS ResultIsMeaning StackSound BlocksSound
PROPERTIES ValuesStay UpdatesAreMade Terminates
