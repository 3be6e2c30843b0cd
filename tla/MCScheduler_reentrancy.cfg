SPECIFICATION Spec
CONSTANTS
  alice = alice
  keeper = keeper
  strategy = strategy
  Users = {alice, keeper}
  Targets = {strategy}
  SCHEDULER = SCHEDULER
  Commands <- NestedCommands
  Batches <- NestedBatches
  Hash <- Hasher
  MaxBatch = 2
  MaxRebate = 1
  InitialBalance = 1
  MaxExecutors = 1
  MaxU64 = 9
  DefaultLimit = 2
  NONE = NONE
  NanosPerSecond = 2
  MaxHeight = 2
  MaxCreated = 3
  MaxDepth = 2
INVARIANTS
  TypeOK
  Solvency
  PaymentsCovered
  OneFate
  DueIsListed
