CONSTANTS
  Modules <- MCModules
  Projects <- MCProjects
  Primitives <- MCPrimitives
  LibPath <- MCLibPath
  Exported <- MCExported
SPECIFICATION Spec
INVARIANTS LinkedAsNamed LinkedOnce FreshLoads SymbolsCounted
PROPERTY LoadEnds
CHECK_DEADLOCK FALSE
