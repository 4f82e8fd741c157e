SPECIFICATION FairStackSpec
CONSTANTS
  Inputs <- OneInput
  StaleReads = FALSE
  MaxEdits = 2
  MaxFaults = 1
PROPERTY DeletionProgresses
CHECK_DEADLOCK FALSE
