SPECIFICATION FairExecSpec
CONSTANTS
  Items <- OnlyApply
  IDs <- MCIDs
  Stacks = {"s1", "s2"}
  Groups = {}
  MaxPlans = 1
  MaxApplies = 1
  StaleReads = TRUE
  CreateLoss = TRUE
  StoreErrors = TRUE
  JobDeletion = TRUE
  StatusLoss = FALSE
  ForeignJobs <- OnlyApply
  MaxRestarts = 2
INVARIANT AtMostOneJob
INVARIANT SuccessIsEvidenced
INVARIANT MutationNeverHidden
PROPERTY OutcomesAreFinal
PROPERTY StartedRunsEnd
CHECK_DEADLOCK FALSE
