---------------------------- MODULE ExecutionGate ----------------------------
(***************************************************************************)
(* The execution gate of the manager (internal/reliability/gate.go): the   *)
(* in-memory counters that decide whether a TerraformRun may start a Job.  *)
(* Every method holds the mutex of the gate from its first line to its     *)
(* last, so each is one action.                                            *)
(*                                                                         *)
(* The map activeItems, whose keys are the IDs of its values, is the set   *)
(* of its values.  The map startedIDs is only read inside Reconstruct, to  *)
(* notice two observed items with one ID; its only caller emits one item   *)
(* per Job and names a Job after its run, so that never happens and        *)
(* startedIDs is left out.                                                 *)
(***************************************************************************)
EXTENDS Integers, FiniteSets

CONSTANTS
  Items,        \* the work items of the TerraformRuns, see WorkItem
  IDs,          \* UIDs of TerraformRuns
  Stacks,       \* namespace/name of InfraStacks
  Groups,       \* nonempty concurrency groups
  MaxPlans,     \* PCP_MAX_CONCURRENT_PLANS, 8 when unset
  MaxApplies    \* PCP_MAX_CONCURRENT_APPLIES, 4 when unset

NoGroup == ""

(* The empty group and a limit of 0 both mean: no limit per group. *)
WorkItem == [ID                   : IDs,
             Kind                 : {"Plan", "Apply"},
             Stack                : Stacks,
             ConcurrencyGroup     : Groups \cup {NoGroup},
             MaxConcurrentPlans   : Nat,
             MaxConcurrentApplies : Nat]

ASSUME ItemsAssumption == Items \subseteq WorkItem /\ IsFiniteSet(Items)
ASSUME GroupsAssumption == NoGroup \notin Groups
ASSUME LimitsAssumption == MaxPlans \in Nat \ {0} /\ MaxApplies \in Nat \ {0}

VARIABLES
  activePlans, activeApplies,             \* reserved slots per kind
  activeByStack,                          \* reserved Applies per stack
  activeByPlanGroup, activeByApplyGroup,  \* reserved slots per group
  activeItems,                            \* the items that hold a slot
  gateReady,                              \* reconstruction has finished
  overCapacity,                           \* more was observed than fits
  safetyViolation                         \* what was observed is not safe

counterVars == <<activePlans, activeApplies, activeByStack,
                 activeByPlanGroup, activeByApplyGroup, activeItems>>
gateVars == <<counterVars, gateReady, overCapacity, safetyViolation>>

-----------------------------------------------------------------------------
OfKind(S, kind) == {i \in S : i.Kind = kind}

OfGroup(S, kind, group) == {i \in OfKind(S, kind) : i.ConcurrencyGroup = group}

AppliesOn(S, stack) == {i \in OfKind(S, "Apply") : i.Stack = stack}

UniqueIDs(S) == \A i, j \in S : i.ID = j.ID => i = j

-----------------------------------------------------------------------------
(* The process creates the gate and closes it before any controller runs. *)
GateInit ==
  /\ activePlans = 0
  /\ activeApplies = 0
  /\ activeByStack = [s \in Stacks |-> 0]
  /\ activeByPlanGroup = [g \in Groups |-> 0]
  /\ activeByApplyGroup = [g \in Groups |-> 0]
  /\ activeItems = {}
  /\ gateReady = FALSE
  /\ overCapacity = FALSE
  /\ safetyViolation = FALSE

(* The manager is restarted or another replica becomes the leader. *)
GateRestart ==
  /\ activePlans' = 0
  /\ activeApplies' = 0
  /\ activeByStack' = [s \in Stacks |-> 0]
  /\ activeByPlanGroup' = [g \in Groups |-> 0]
  /\ activeByApplyGroup' = [g \in Groups |-> 0]
  /\ activeItems' = {}
  /\ gateReady' = FALSE
  /\ overCapacity' = FALSE
  /\ safetyViolation' = FALSE

-----------------------------------------------------------------------------
GroupHasRoom(counts, group, limit) ==
  group # NoGroup /\ limit # 0 => counts[group] < limit

Available(item) ==
  \/ /\ item.Kind = "Plan"
     /\ activePlans < MaxPlans
     /\ GroupHasRoom(activeByPlanGroup, item.ConcurrencyGroup,
                     item.MaxConcurrentPlans)
  \/ /\ item.Kind = "Apply"
     /\ activeApplies < MaxApplies
     /\ activeByStack[item.Stack] = 0
     /\ GroupHasRoom(activeByApplyGroup, item.ConcurrencyGroup,
                     item.MaxConcurrentApplies)

Active(id) == \E held \in activeItems : held.ID = id

SameWork(item) ==
  \E held \in activeItems :
    held.ID = item.ID /\ held.Kind = item.Kind /\ held.Stack = item.Stack

(* Mutant: an observed excess of running executions does not stop admission. *)
AdmissibleOverCapacity(item) == gateReady /\ ~safetyViolation /\ Available(item)

Admissible(item) ==
  gateReady /\ ~overCapacity /\ ~safetyViolation /\ Available(item)

(* The result of TryAcquire and of EnsureActive, whose bodies are the same. *)
Acquires(item) ==
  \/ SameWork(item)
  \/ ~Active(item.ID) /\ Admissible(item)

-----------------------------------------------------------------------------
(* Mutant: a Release forgets the group of the item it frees. *)
AddToGroupOnly(counts, group, n) ==
  IF group = NoGroup \/ n < 0 THEN counts ELSE [counts EXCEPT ![group] = @ + n]

AddToGroup(counts, group, n) ==
  IF group = NoGroup THEN counts ELSE [counts EXCEPT ![group] = @ + n]

(* reserveLocked (n = 1) and the decrements of Release (n = -1). *)
Count(item, n) ==
  \/ /\ item.Kind = "Plan"
     /\ activePlans' = activePlans + n
     /\ activeByPlanGroup' =
          AddToGroup(activeByPlanGroup, item.ConcurrencyGroup, n)
     /\ UNCHANGED <<activeApplies, activeByStack, activeByApplyGroup>>
  \/ /\ item.Kind = "Apply"
     /\ activeApplies' = activeApplies + n
     /\ activeByStack' = [activeByStack EXCEPT ![item.Stack] = @ + n]
     /\ activeByApplyGroup' =
          AddToGroup(activeByApplyGroup, item.ConcurrencyGroup, n)
     /\ UNCHANGED <<activePlans, activeByPlanGroup>>

Reserve(item) ==
  /\ Count(item, 1)
  /\ activeItems' = activeItems \cup {item}
  /\ UNCHANGED <<gateReady, overCapacity, safetyViolation>>

(* A successful TryAcquire or EnsureActive.  An item that already holds its  *)
(* slot is not counted again.                                                *)
Acquire(item) ==
  /\ Acquires(item)
  /\ IF Active(item.ID) THEN UNCHANGED gateVars ELSE Reserve(item)

-----------------------------------------------------------------------------
(* Mutant: an excess of one kind is forgotten once the other kind fits. *)
AppliesWithinMaximum(plans, applies) == applies <= MaxApplies

WithinMaximum(plans, applies) == plans <= MaxPlans /\ applies <= MaxApplies

(* Mutant: what holds no slot is counted down as well. *)
ReleaseUnchecked(item) ==
  /\ Count(item, -1)
  /\ activeItems' = {held \in activeItems : held.ID # item.ID}
  /\ UNCHANGED <<gateReady, overCapacity, safetyViolation>>

(* Release counts down what was reserved, not what the caller passes, and    *)
(* clears overCapacity once both kinds are back within their maximum.        *)
Release(item) ==
  IF ~Active(item.ID)
  THEN UNCHANGED gateVars
  ELSE \E held \in activeItems :
         /\ held.ID = item.ID
         /\ Count(held, -1)
         /\ activeItems' = activeItems \ {held}
         /\ overCapacity' =
              (overCapacity /\ ~WithinMaximum(activePlans', activeApplies'))
         /\ UNCHANGED <<gateReady, safetyViolation>>

-----------------------------------------------------------------------------
(* Mutant: two running Applies of one stack are not noticed. *)
UnsafeIfUnmatched(observed, unmatched) == unmatched

(* Two running Applies of one stack, or a running Job (unmatched) that       *)
(* belongs to no TerraformRun: the caller passes it as an item without a     *)
(* kind, on which validateItem fails.                                        *)
Unsafe(observed, unmatched) ==
  \/ unmatched
  \/ \E i, j \in OfKind(observed, "Apply") : i # j /\ i.Stack = j.Stack

(* Reconstruct counts every observed item, whatever the limits. *)
Reconstruct(observed, unmatched) ==
  /\ activePlans' = Cardinality(OfKind(observed, "Plan"))
  /\ activeApplies' = Cardinality(OfKind(observed, "Apply"))
  /\ activeByStack' = [s \in Stacks |-> Cardinality(AppliesOn(observed, s))]
  /\ activeByPlanGroup' =
       [g \in Groups |-> Cardinality(OfGroup(observed, "Plan", g))]
  /\ activeByApplyGroup' =
       [g \in Groups |-> Cardinality(OfGroup(observed, "Apply", g))]
  /\ activeItems' = observed
  /\ safetyViolation' = Unsafe(observed, unmatched)
  /\ overCapacity' = ~WithinMaximum(activePlans', activeApplies')
  /\ gateReady' = TRUE

Ready == gateReady /\ ~safetyViolation /\ ~overCapacity

-----------------------------------------------------------------------------
(* The gate alone, called in any order its callers allow: Reconstruct runs  *)
(* once per process, before the gate has ever been ready.                   *)
GateNext ==
  \/ GateRestart
  \/ \E item \in Items : Acquire(item) \/ Release(item)
  \/ /\ ~gateReady
     /\ \E observed \in SUBSET Items, unmatched \in BOOLEAN :
          UniqueIDs(observed) /\ Reconstruct(observed, unmatched)

GateSpec == GateInit /\ [][GateNext]_gateVars

-----------------------------------------------------------------------------
(* Every counter stays a natural number, so no Release ever counts below 0   *)
(* (the map guards of Release 115-138), and no run holds two slots.          *)
GateTypeOK ==
  /\ activePlans \in Nat /\ activeApplies \in Nat
  /\ activeByStack \in [Stacks -> Nat]
  /\ activeByPlanGroup \in [Groups -> Nat]
  /\ activeByApplyGroup \in [Groups -> Nat]
  /\ activeItems \in SUBSET Items /\ UniqueIDs(activeItems)
  /\ gateReady \in BOOLEAN
  /\ overCapacity \in BOOLEAN
  /\ safetyViolation \in BOOLEAN

(* The six pieces of counting state never drift apart: after any sequence of *)
(* reservations, repeated reservations, releases of what is not held and a   *)
(* reconstruction, each counter is the number of items that hold a slot, so  *)
(* no slot is lost and none is counted twice (reserveLocked, Release,        *)
(* reserveObservedLocked).                                                   *)
CountersMatchHolders ==
  /\ activePlans = Cardinality(OfKind(activeItems, "Plan"))
  /\ activeApplies = Cardinality(OfKind(activeItems, "Apply"))
  /\ \A s \in Stacks : activeByStack[s] = Cardinality(AppliesOn(activeItems, s))
  /\ \A g \in Groups :
       /\ activeByPlanGroup[g] = Cardinality(OfGroup(activeItems, "Plan", g))
       /\ activeByApplyGroup[g] = Cardinality(OfGroup(activeItems, "Apply", g))

(* overCapacity, computed once by Reconstruct and cleared by Release, always *)
(* tells whether more runs hold a slot than the manager admits: admission    *)
(* stays closed until the observed excess has drained, and no longer.        *)
OverCapacityIsExact ==
  overCapacity <=> (activePlans > MaxPlans \/ activeApplies > MaxApplies)

(* Two Applies hold slots of one stack only when reconstruction found both   *)
(* running, and then the gate admits nothing more.                           *)
ApplyExclusivePerStack ==
  gateReady /\ ~safetyViolation =>
    \A s \in Stacks : Cardinality(AppliesOn(activeItems, s)) <= 1

(* The gate as a pool of slots. *)
Pool == INSTANCE SlotPool WITH holders <- activeItems,
                               open <- gateReady /\ ~safetyViolation
(* Behind its counters the gate keeps the promise of SlotPool: every         *)
(* TryAcquire, EnsureActive, Release and Reconstruct admits, frees or        *)
(* observes holders as the pool allows.                                      *)
ImplementsSlotPool == Pool!PoolSpec
=============================================================================
