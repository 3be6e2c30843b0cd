\* Two denoms, two affiliates; balances from a single coin to some hundreds.
SPECIFICATION Spec
CONSTANTS
  Denoms = {"d1", "d2"}
  Recipients = {"ann", "bob", "cat", "dan", "eve", "calc"}
  CALC = "calc"
  Affiliates <- TwoAffiliates
  Lists <- SomeLists
  MINIMUM_TOTAL_SHARES = 10000
  UNIT = 100000
  Amounts = {1, 403}
  Requests <- OneOrAll
  MaxEvents = 4
  MaxDestinations = 6
INVARIANTS
  TypeOK
  SharesOutTheBalance
PROPERTIES
  GivesFairShares
  WithdrawTakesWhatIsAsked
