------------------------------ MODULE SlotPool ------------------------------
(***************************************************************************)
(* What the execution gate promises, without its counters: a pool of       *)
(* holders that is closed when a manager process starts, is filled once    *)
(* with the executions that are already running, and from then on only     *)
(* admits a holder while the pool is open and the holder fits.  Running    *)
(* executions are observed even when they exceed the limits.               *)
(***************************************************************************)
EXTENDS Naturals, FiniteSets

CONSTANTS
  Items,        \* the work items: records with Kind, Stack, ConcurrencyGroup
                \* and the two per-group limits
  MaxPlans,     \* how many Plans may hold a slot
  MaxApplies    \* how many Applies may hold a slot

VARIABLES
  holders,      \* the set of items that hold a slot
  open          \* whether the pool may admit at all

poolVars == <<holders, open>>

-----------------------------------------------------------------------------
OfKind(S, kind) == {i \in S : i.Kind = kind}

OfGroup(S, kind, group) == {i \in OfKind(S, kind) : i.ConcurrencyGroup = group}

(* No stack has two Applies in S. *)
Exclusive(S) ==
  \A i, j \in OfKind(S, "Apply") : i.Stack = j.Stack => i = j

WithinLimits(S) ==
  /\ Cardinality(OfKind(S, "Plan")) <= MaxPlans
  /\ Cardinality(OfKind(S, "Apply")) <= MaxApplies

(* The limit an item carries for its own concurrency group; 0 is no limit. *)
GroupLimit(i) ==
  IF i.Kind = "Plan" THEN i.MaxConcurrentPlans ELSE i.MaxConcurrentApplies

GroupRespected(i, S) ==
  i.ConcurrencyGroup # "" /\ GroupLimit(i) # 0
    => Cardinality(OfGroup(S, i.Kind, i.ConcurrencyGroup)) <= GroupLimit(i)

-----------------------------------------------------------------------------
PoolInit == holders = {} /\ open = FALSE

(* A new manager process knows of no execution and admits none. *)
Restart == holders' = {} /\ open' = FALSE

(* The running executions are all accounted for; the pool opens only when   *)
(* they do not already break the exclusion of Applies.                      *)
Observe(S) ==
  /\ ~open
  /\ holders' = S
  /\ open' \in BOOLEAN
  /\ open' => Exclusive(S)

Admit(i) ==
  /\ open
  /\ i \notin holders
  /\ holders' = holders \cup {i}
  /\ WithinLimits(holders')
  /\ Exclusive(holders')
  /\ GroupRespected(i, holders')
  /\ open' = open

Free(i) ==
  /\ i \in holders
  /\ holders' = holders \ {i}
  /\ open' = open

PoolNext ==
  \/ Restart
  \/ \E S \in SUBSET Items : Observe(S)
  \/ \E i \in Items : Admit(i) \/ Free(i)

PoolSpec == PoolInit /\ [][PoolNext]_poolVars
=============================================================================
