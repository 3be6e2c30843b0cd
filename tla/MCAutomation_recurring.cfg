SPECIFICATION FairSpec
CONSTANTS
  NONE = NONE
  NanosPerSecond = 2
  MaxU64 = 1000
  Occurrences <- Nights
  Schedules <- Intervals
  MaxExecutors = 1
  MaxFunds = 1
  Spending = 1
  MaxHeight = 5
  MaxRuns = 4
  MaxUpdates = 1
INVARIANTS
  TypeOK
  PendingWhileActive
  TriggersDoNotPileUp
PROPERTIES
  ServesInOrder
  DueRunsAgain
