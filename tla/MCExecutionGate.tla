--------------------------- MODULE MCExecutionGate ---------------------------
(* A small instance of ExecutionGate: two stacks, one concurrency group that *)
(* two Applies and two Plans share, one run outside every group.             *)
EXTENDS ExecutionGate

Item(id, kind, stack, group, limit) ==
  [ID |-> id, Kind |-> kind, Stack |-> stack, ConcurrencyGroup |-> group,
   MaxConcurrentPlans |-> limit, MaxConcurrentApplies |-> limit]

MCIDs == {"p1", "p2", "p3", "a1", "a2", "a3"}
MCItems == {Item("p1", "Plan", "s1", "g1", 1), Item("p2", "Plan", "s2", "g1", 1),
            Item("p3", "Plan", "s2", "", 0),
            Item("a1", "Apply", "s1", "g1", 2), Item("a2", "Apply", "s1", "", 0),
            Item("a3", "Apply", "s2", "g1", 2)}
=============================================================================
