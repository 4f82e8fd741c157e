CONSTANTS
  Names <- Pair
  Rank <- PairRank
  MaxEnvironments = 1
  Careless = {"green"}
  SharedSeconds = FALSE
  MaxOps = 3
SPECIFICATION FairAdmSpec
INVARIANT AdmTypeOK
INVARIANT ClassedWithinQuota
INVARIANT KnownUsersKeepClass
PROPERTY ConsoleActsOnWhatWasSeen
PROPERTY UnusedClassGoes
PROPERTY RoomIsGiven
CHECK_DEADLOCK FALSE
