SPECIFICATION Spec
CONSTANTS
  Items = {i1, i2}
  OfferIds = {1, 2, 3}
  Windows <- FeedWindows
  MaxUnits = 1
  EndOfTime = 2
  MaxLists = 1
  Limits <- OddLimits
  UsualLimit = 1
  MostLimit = 2
INVARIANTS TypeOK AtMostOneActive EverySteadyShown SoonestFirstNoneTwice
SYMMETRY ItemSymmetry
