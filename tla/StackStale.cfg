SPECIFICATION StackSpec
CONSTANTS
  Inputs <- OneInput
  StaleReads = TRUE
  MaxEdits = 3
  MaxFaults = 0
INVARIANT StackTypeOK
INVARIANT RemovedMeansRemoved
INVARIANT DestroyPlansAlone
PROPERTY KeepsPromise
CHECK_DEADLOCK FALSE
