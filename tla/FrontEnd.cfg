CONSTANTS
  Externs <- SomeExterns
  Arities <- SomeArities
  Sources <- AllSources
  NoValue = NoValue
SPECIFICATION Spec
CHECK_DEADLOCK FALSE
INVARIANTS PassesDeliver KeepsMeaning HasCode
