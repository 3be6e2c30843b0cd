SPECIFICATION AnyThenUpdates
CONSTANTS
  NONE = NONE
  MaxNodes = 3
  MaxStrategySize = 50
  Graphs <- AnyGraph
INVARIANTS
  TypeOK
  SortIsExact
  StaleNodesUnreachable
PROPERTIES
  SortTerminates
