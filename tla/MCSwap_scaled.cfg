SPECIFICATION Spec
CONSTANTS
  NONE = NONE
  F = F
  G = G
  Foreign = Foreign
  UNIT = 1000
  TICK = 2
  MIN_ORDERS = 2
  MIN_VALUE = 4
  LIMIT = 2
  MAX_ITERATIONS = 2
  PairDenoms <- Denoms
  PairStates <- States
  PoolStates <- Pools
  Swaps <- AllSwaps
  AffiliateBps = 10
  Balances = {1, 3, 16}
  MaxHeight = 1
INVARIANTS
  WorsePriceSwapsLess
