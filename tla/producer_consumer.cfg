SPECIFICATION FairGoodsSpec
CONSTANTS
  TOTAL = 10
INVARIANTS LimitMeansAsleep SleepsForAReason
PROPERTIES BothGoOn
