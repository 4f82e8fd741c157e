CONSTANTS
  Operations = {"Plan", "Apply", "Destroy"}
  MaxPods = 2
  MaxFaults = 3
SPECIFICATION RunnerSpec
INVARIANT AcceptedIsOneAttempt
INVARIANT EvidenceIsAccepted
INVARIANT FailsForAReason
PROPERTY StoredStays
CHECK_DEADLOCK FALSE
