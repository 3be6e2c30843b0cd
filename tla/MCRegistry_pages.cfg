SPECIFICATION Spec
CONSTANTS
  NONE = NONE
  Owners = {alice, bob}
  Labels = {fits}
  BadLabels = {empty}
  Codes = {current}
  InvalidCodes = {missing}
  Addresses = {1, 2, 3, 4}
  Address <- Scrambled
  Filters <- AllOrActiveOfOne
  Limits = {1}
  DefaultLimit = 2
  MaxStrategies = 3
  MaxTime = 1
INVARIANTS
  TypeOK
  CountsEveryStrategy
  OrderedAcrossPages
  PagesMissOnlyTies
CHECK_DEADLOCK FALSE
