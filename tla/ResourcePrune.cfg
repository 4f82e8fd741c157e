SPECIFICATION FairSetSpec
CONSTANTS
  Objects <- Two
  Versions <- TwoVersions
  Wave <- TwoWaves
  RequireReady = {"db"}
  Protected = {}
  Slow = {"db"}
  Foreign = {}
  Lagging = {}
  MaxEdits = 2
  MaxFaults = 0
PROPERTY RuntimeConverges
CHECK_DEADLOCK FALSE
