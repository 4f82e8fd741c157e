SPECIFICATION FairEnvSpec
CONSTANTS
  Objects <- One
  Versions <- EmptyOrOne
  Wave <- OneWave
  RequireReady = {}
  Protected = {}
  Slow = {}
  Foreign = {}
  Lagging = {"env","stack"}
  MaxEdits = 1
  MaxFaults = 0
INVARIANT EnvTypeOK
INVARIANT ReadyIsEarned
PROPERTY DeletionGoesOn
PROPERTY EnvironmentConverges
PROPERTY TearsDownInOrder
CHECK_DEADLOCK FALSE
