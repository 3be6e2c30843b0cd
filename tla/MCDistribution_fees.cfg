\* One user, no affiliate: the fee collector is the last destination.
SPECIFICATION Spec
CONSTANTS
  Denoms = {"d1"}
  Recipients = {"ann", "bob", "cat", "dan", "eve", "calc"}
  CALC = "calc"
  Affiliates <- NoAffiliates
  Lists <- AnnsList
  MINIMUM_TOTAL_SHARES = 10000
  UNIT = 100000
  Amounts = {1, 403}
  Requests <- OneOrAll
  MaxEvents = 4
  MaxDestinations = 4
PROPERTY
  FeesAreAsQuoted
