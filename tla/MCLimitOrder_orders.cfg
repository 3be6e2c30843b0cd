\* Lists of one and two nodes, on one side and on both, one of them refused.
SPECIFICATION Spec
CONSTANTS
  Lists <- AllLists
  Quotes = {1, 2, 3}
  MinimumBid = 1
  MaxCoins = 4
  NONE = NONE
INVARIANTS
  TypeOK
  Tracked
  CancelledLeavesNothing
  FundingCovered
  OfferIsAsConfigured
PROPERTIES
  ForgetsLostOrders
