SPECIFICATION Spec
CONSTANTS
  Accounts = {owner, other}
  OWNER = owner
  NONE = NONE
  Graphs <- ShortGraphs
  MaxMessages = 1
  MaxLists = 2
  MaxDepth = 1
  MaxCalls = 1
INVARIANTS
  ExecutesOnlyWhenActive
