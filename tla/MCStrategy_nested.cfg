SPECIFICATION FairSpec
CONSTANTS
  Accounts = {owner}
  OWNER = owner
  NONE = NONE
  Graphs <- NestedGraphs
  MaxMessages = 1
  MaxLists = 3
  MaxDepth = 2
  MaxCalls = 2
INVARIANTS
  TypeOK
  StoreAcyclic
  VisitOnce
  CommitIsDue
  ReplacedAfterCancel
  ResumesWhereItStopped
PROPERTIES
  TransactionEnds
