SPECIFICATION FairExecSpec
CONSTANTS
  Items <- PlanAndApplies
  IDs <- MCIDs
  Stacks = {"s1", "s2"}
  Groups = {}
  MaxPlans = 1
  MaxApplies = 1
  StaleReads = FALSE
  CreateLoss = FALSE
  StoreErrors = FALSE
  JobDeletion = FALSE
  StatusLoss = FALSE
  ForeignJobs <- NoRuns
  MaxRestarts = 0
PROPERTY EveryRunEnds
CHECK_DEADLOCK FALSE
