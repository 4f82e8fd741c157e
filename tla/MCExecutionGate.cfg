SPECIFICATION GateSpec
CONSTANTS
  Items <- MCItems
  IDs <- MCIDs
  Stacks = {"s1", "s2"}
  Groups = {"g1"}
  MaxPlans = 2
  MaxApplies = 2
INVARIANTS
  CountersMatchHolders
  OverCapacityIsExact
  ApplyExclusivePerStack
PROPERTY ImplementsSlotPool
