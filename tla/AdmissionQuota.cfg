CONSTANTS
  Names <- Pair
  Rank <- PairRank
  MaxEnvironments = 1
  Careless = {"green"}
  SharedSeconds = FALSE
  MaxOps = 3
SPECIFICATION AdmSpec
INVARIANT AdmittedWithinQuota
CHECK_DEADLOCK FALSE
