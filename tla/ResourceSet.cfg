\* A namespace that is never pruned, a database that waits for it and lingers
\* when it is deleted, and an application somebody else has put there before.
CONSTANTS
  Objects <- Three
  Versions <- ThreeVersions
  Wave <- ThreeWaves
  RequireReady = {"ns", "db"}
  Protected = {"ns"}
  Slow = {"db"}
  Foreign = {"app"}
  Lagging = {"set"}
  MaxEdits = 2
  MaxFaults = 1
SPECIFICATION FairSetSpec
INVARIANT ReadyIsRecorded
PROPERTY PrunesOnlyItsOwn
PROPERTY WavesInOrder
PROPERTY RecordedNotOrphaned
PROPERTY CleanupCompletes
PROPERTY RuntimeSettles
CHECK_DEADLOCK FALSE
