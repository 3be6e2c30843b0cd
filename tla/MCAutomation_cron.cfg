SPECIFICATION Spec
CONSTANTS
  NONE = NONE
  NanosPerSecond = 2
  MaxU64 = 1000
  Occurrences <- Nights
  Schedules <- CronOnly
  MaxExecutors = 1
  MaxFunds = 1
  Spending = 1
  MaxHeight = 4
  MaxRuns = 4
  MaxUpdates = 0
INVARIANTS
  ReadyAtEveryOccurrence
