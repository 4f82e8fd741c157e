---------------------------- MODULE MCRunExecution ----------------------------
(* Small instances of RunExecution: Plans and Applies that compete for one   *)
(* slot of each kind.                                                        *)
EXTENDS RunExecution

Item(id, kind, stack) ==
  [ID |-> id, Kind |-> kind, Stack |-> stack, ConcurrencyGroup |-> NoGroup,
   MaxConcurrentPlans |-> 0, MaxConcurrentApplies |-> 0]

MCIDs == {"p1", "a1", "a2"}

Plan1 == Item("p1", "Plan", "s1")
Apply1 == Item("a1", "Apply", "s1")
Apply2 == Item("a2", "Apply", "s2")

TwoApplies == {Apply1, Apply2}
PlanAndApplies == {Plan1, Apply1, Apply2}
OnlyApply == {Apply1}
OnlyPlan == {Plan1}
NoRuns == {}
=============================================================================
