SPECIFICATION ExecSpec
CONSTANTS
  Items <- TwoApplies
  IDs <- MCIDs
  Stacks = {"s1", "s2"}
  Groups = {}
  MaxPlans = 1
  MaxApplies = 1
  StaleReads = FALSE
  CreateLoss = FALSE
  StoreErrors = TRUE
  JobDeletion = TRUE
  StatusLoss = TRUE
  ForeignJobs <- OnlyApply
  MaxRestarts = 1
INVARIANTS
  ExecTypeOK
  ActiveWithinLimits
  NoRunningJobIsAbandoned
PROPERTY EvidencePreventsRerun
CHECK_DEADLOCK FALSE
