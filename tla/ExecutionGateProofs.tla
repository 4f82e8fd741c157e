-------------------------- MODULE ExecutionGateProofs --------------------------
(***************************************************************************)
(* Theorems about ExecutionGate, for every set of work items and every     *)
(* pair of limits.  The inductive invariant is GateInv: the type, the      *)
(* agreement of the counters with the set of holders, the exactness of     *)
(* overCapacity and the exclusion of Applies.  None of the last three is   *)
(* inductive alone: a counter says nothing about the next admission unless *)
(* it counts the holders.                                                  *)
(***************************************************************************)
EXTENDS ExecutionGate, FiniteSetTheorems, TLAPS

-----------------------------------------------------------------------------
(* What the counted sets become when a holder is added or removed. *)

(* A set that may gain an element it lacked is larger by one if it does. *)
LEMMA AddIf ==
  ASSUME NEW T, IsFiniteSet(T), NEW x, x \notin T, NEW gains \in BOOLEAN
  PROVE  Cardinality(IF gains THEN T \cup {x} ELSE T) =
           Cardinality(T) + (IF gains THEN 1 ELSE 0)
<1>1. Cardinality(T) \in Nat
  BY FS_CardinalityType
<1>2. Cardinality(T \cup {x}) = Cardinality(T) + 1
  BY FS_AddElement
<1> QED
  BY <1>1, <1>2

(* Adding a new holder adds it to the sets it belongs to, and to no other. *)
LEMMA AddHolder ==
  ASSUME NEW S \in SUBSET Items, NEW x \in Items, x \notin S
  PROVE  /\ \A k : Cardinality(OfKind(S \cup {x}, k)) =
                     Cardinality(OfKind(S, k)) + (IF x.Kind = k THEN 1 ELSE 0)
         /\ \A s : Cardinality(AppliesOn(S \cup {x}, s)) =
                     Cardinality(AppliesOn(S, s))
                       + (IF x.Kind = "Apply" /\ x.Stack = s THEN 1 ELSE 0)
         /\ \A k, g : Cardinality(OfGroup(S \cup {x}, k, g)) =
                        Cardinality(OfGroup(S, k, g))
                          + (IF x.Kind = k /\ x.ConcurrencyGroup = g
                             THEN 1 ELSE 0)
<1>1. IsFiniteSet(S)
  BY FS_Subset, ItemsAssumption
<1>2. ASSUME NEW k
      PROVE  Cardinality(OfKind(S \cup {x}, k)) =
               Cardinality(OfKind(S, k)) + (IF x.Kind = k THEN 1 ELSE 0)
  <2>1. OfKind(S \cup {x}, k) =
          IF x.Kind = k THEN OfKind(S, k) \cup {x} ELSE OfKind(S, k)
    BY DEF OfKind
  <2>2. IsFiniteSet(OfKind(S, k)) /\ x \notin OfKind(S, k)
    BY <1>1, FS_Subset DEF OfKind
  <2> QED
    BY <2>1, <2>2, AddIf
<1>3. ASSUME NEW s
      PROVE  Cardinality(AppliesOn(S \cup {x}, s)) =
               Cardinality(AppliesOn(S, s))
                 + (IF x.Kind = "Apply" /\ x.Stack = s THEN 1 ELSE 0)
  <2>1. AppliesOn(S \cup {x}, s) =
          IF x.Kind = "Apply" /\ x.Stack = s
          THEN AppliesOn(S, s) \cup {x} ELSE AppliesOn(S, s)
    BY DEF AppliesOn, OfKind
  <2>2. IsFiniteSet(AppliesOn(S, s)) /\ x \notin AppliesOn(S, s)
    BY <1>1, FS_Subset DEF AppliesOn, OfKind
  <2> QED
    BY <2>1, <2>2, AddIf
<1>4. ASSUME NEW k, NEW g
      PROVE  Cardinality(OfGroup(S \cup {x}, k, g)) =
               Cardinality(OfGroup(S, k, g))
                 + (IF x.Kind = k /\ x.ConcurrencyGroup = g THEN 1 ELSE 0)
  <2>1. OfGroup(S \cup {x}, k, g) =
          IF x.Kind = k /\ x.ConcurrencyGroup = g
          THEN OfGroup(S, k, g) \cup {x} ELSE OfGroup(S, k, g)
    BY DEF OfGroup, OfKind
  <2>2. IsFiniteSet(OfGroup(S, k, g)) /\ x \notin OfGroup(S, k, g)
    BY <1>1, FS_Subset DEF OfGroup, OfKind
  <2> QED
    BY <2>1, <2>2, AddIf
<1> QED
  BY <1>2, <1>3, <1>4

(* The cardinalities of the counted sets are natural numbers. *)
LEMMA CountedSets ==
  ASSUME NEW S \in SUBSET Items
  PROVE  /\ \A k : Cardinality(OfKind(S, k)) \in Nat
         /\ \A s : Cardinality(AppliesOn(S, s)) \in Nat
         /\ \A k, g : Cardinality(OfGroup(S, k, g)) \in Nat
<1>1. IsFiniteSet(S)
  BY FS_Subset, ItemsAssumption
<1>2. \A T \in SUBSET S : Cardinality(T) \in Nat
  BY <1>1, FS_Subset, FS_CardinalityType
<1> QED
  BY <1>2 DEF OfKind, AppliesOn, OfGroup

(* Removing a holder undoes adding it. *)
LEMMA RemoveHolder ==
  ASSUME NEW S \in SUBSET Items, NEW x \in S
  PROVE  /\ \A k : Cardinality(OfKind(S \ {x}, k)) =
                     Cardinality(OfKind(S, k)) - (IF x.Kind = k THEN 1 ELSE 0)
         /\ \A s : Cardinality(AppliesOn(S \ {x}, s)) =
                     Cardinality(AppliesOn(S, s))
                       - (IF x.Kind = "Apply" /\ x.Stack = s THEN 1 ELSE 0)
         /\ \A k, g : Cardinality(OfGroup(S \ {x}, k, g)) =
                        Cardinality(OfGroup(S, k, g))
                          - (IF x.Kind = k /\ x.ConcurrencyGroup = g
                             THEN 1 ELSE 0)
<1> DEFINE R == S \ {x}
<1>1. R \in SUBSET Items /\ x \in Items /\ x \notin R /\ R \cup {x} = S
  OBVIOUS
<1> HIDE DEF R
<1>2. /\ \A k : Cardinality(OfKind(R, k)) \in Nat
      /\ \A s : Cardinality(AppliesOn(R, s)) \in Nat
      /\ \A k, g : Cardinality(OfGroup(R, k, g)) \in Nat
  BY <1>1, CountedSets
<1>3. /\ \A k : Cardinality(OfKind(S, k)) =
                  Cardinality(OfKind(R, k)) + (IF x.Kind = k THEN 1 ELSE 0)
      /\ \A s : Cardinality(AppliesOn(S, s)) =
                  Cardinality(AppliesOn(R, s))
                    + (IF x.Kind = "Apply" /\ x.Stack = s THEN 1 ELSE 0)
      /\ \A k, g : Cardinality(OfGroup(S, k, g)) =
                     Cardinality(OfGroup(R, k, g))
                       + (IF x.Kind = k /\ x.ConcurrencyGroup = g
                          THEN 1 ELSE 0)
  BY <1>1, AddHolder
<1>4. /\ \A k : Cardinality(OfKind(R, k)) =
                  Cardinality(OfKind(S, k)) - (IF x.Kind = k THEN 1 ELSE 0)
      /\ \A s : Cardinality(AppliesOn(R, s)) =
                  Cardinality(AppliesOn(S, s))
                    - (IF x.Kind = "Apply" /\ x.Stack = s THEN 1 ELSE 0)
      /\ \A k, g : Cardinality(OfGroup(R, k, g)) =
                     Cardinality(OfGroup(S, k, g))
                       - (IF x.Kind = k /\ x.ConcurrencyGroup = g
                          THEN 1 ELSE 0)
  BY <1>2, <1>3
<1> QED
  BY <1>4 DEF R

-----------------------------------------------------------------------------
GateInv ==
  /\ GateTypeOK
  /\ CountersMatchHolders
  /\ OverCapacityIsExact
  /\ ApplyExclusivePerStack

LEMMA ItemTypes ==
  ASSUME NEW i \in Items
  PROVE  /\ i.Kind \in {"Plan", "Apply"}
         /\ i.Stack \in Stacks
         /\ i.ConcurrencyGroup \in Groups \cup {NoGroup}
         /\ i.MaxConcurrentPlans \in Nat
         /\ i.MaxConcurrentApplies \in Nat
BY ItemsAssumption DEF WorkItem

(* AddToGroup moves the count of one group and of no other. *)
LEMMA AddToGroupValue ==
  ASSUME NEW counts \in [Groups -> Int], NEW group \in Groups \cup {NoGroup},
         NEW n \in Int
  PROVE  /\ AddToGroup(counts, group, n) \in [Groups -> Int]
         /\ \A g \in Groups : AddToGroup(counts, group, n)[g] =
                               counts[g] + (IF group = g THEN n ELSE 0)
BY GroupsAssumption DEF AddToGroup

(* What counting an item up or down does to each counter. *)
LEMMA CountEffect ==
  ASSUME GateTypeOK, NEW item \in Items, NEW n \in {1, -1}, Count(item, n)
  PROVE  /\ activePlans' = activePlans + (IF item.Kind = "Plan" THEN n ELSE 0)
         /\ activeApplies' =
              activeApplies + (IF item.Kind = "Apply" THEN n ELSE 0)
         /\ activeByStack' \in [Stacks -> Int]
         /\ \A s \in Stacks :
              activeByStack'[s] =
                activeByStack[s]
                  + (IF item.Kind = "Apply" /\ item.Stack = s THEN n ELSE 0)
         /\ activeByPlanGroup' \in [Groups -> Int]
         /\ \A g \in Groups :
              activeByPlanGroup'[g] =
                activeByPlanGroup[g]
                  + (IF item.Kind = "Plan" /\ item.ConcurrencyGroup = g
                     THEN n ELSE 0)
         /\ activeByApplyGroup' \in [Groups -> Int]
         /\ \A g \in Groups :
              activeByApplyGroup'[g] =
                activeByApplyGroup[g]
                  + (IF item.Kind = "Apply" /\ item.ConcurrencyGroup = g
                     THEN n ELSE 0)
<1>1. /\ activeByStack \in [Stacks -> Int]
      /\ activeByPlanGroup \in [Groups -> Int]
      /\ activeByApplyGroup \in [Groups -> Int]
      /\ activePlans \in Int /\ activeApplies \in Int
  BY DEF GateTypeOK
<1>2. item.Stack \in Stacks /\ item.ConcurrencyGroup \in Groups \cup {NoGroup}
  BY ItemTypes
<1>3. n \in Int
  OBVIOUS
<1>4. CASE item.Kind = "Plan"
  <2>1. /\ activePlans' = activePlans + n
        /\ activeByPlanGroup' =
             AddToGroup(activeByPlanGroup, item.ConcurrencyGroup, n)
        /\ activeApplies' = activeApplies
        /\ activeByStack' = activeByStack
        /\ activeByApplyGroup' = activeByApplyGroup
    BY <1>4 DEF Count
  <2>2. /\ activeByPlanGroup' \in [Groups -> Int]
        /\ \A g \in Groups : activeByPlanGroup'[g] = activeByPlanGroup[g]
                               + (IF item.ConcurrencyGroup = g THEN n ELSE 0)
    <3>1. LET moved == AddToGroup(activeByPlanGroup, item.ConcurrencyGroup, n)
          IN  /\ moved \in [Groups -> Int]
              /\ \A g \in Groups : moved[g] = activeByPlanGroup[g]
                               + (IF item.ConcurrencyGroup = g THEN n ELSE 0)
      BY <1>1, <1>2, <1>3, AddToGroupValue
    <3> QED
      BY <2>1, <3>1
  <2>3. item.Kind # "Apply"
    BY <1>4
  <2>4. /\ activeApplies' =
             activeApplies + (IF item.Kind = "Apply" THEN n ELSE 0)
        /\ \A s \in Stacks :
             activeByStack'[s] =
               activeByStack[s]
                 + (IF item.Kind = "Apply" /\ item.Stack = s THEN n ELSE 0)
        /\ \A g \in Groups :
             activeByApplyGroup'[g] =
               activeByApplyGroup[g]
                 + (IF item.Kind = "Apply" /\ item.ConcurrencyGroup = g
                    THEN n ELSE 0)
    BY <1>1, <2>1, <2>3
  <2> QED
    BY <1>1, <1>4, <2>1, <2>2, <2>4
<1>5. CASE item.Kind = "Apply"
  <2>1. /\ activeApplies' = activeApplies + n
        /\ activeByStack' = [activeByStack EXCEPT ![item.Stack] = @ + n]
        /\ activeByApplyGroup' =
             AddToGroup(activeByApplyGroup, item.ConcurrencyGroup, n)
        /\ activePlans' = activePlans
        /\ activeByPlanGroup' = activeByPlanGroup
    BY <1>5 DEF Count
  <2>2. /\ activeByApplyGroup' \in [Groups -> Int]
        /\ \A g \in Groups : activeByApplyGroup'[g] = activeByApplyGroup[g]
                               + (IF item.ConcurrencyGroup = g THEN n ELSE 0)
    <3>1. LET moved == AddToGroup(activeByApplyGroup, item.ConcurrencyGroup, n)
          IN  /\ moved \in [Groups -> Int]
              /\ \A g \in Groups : moved[g] = activeByApplyGroup[g]
                               + (IF item.ConcurrencyGroup = g THEN n ELSE 0)
      BY <1>1, <1>2, <1>3, AddToGroupValue
    <3> QED
      BY <2>1, <3>1
  <2>3. /\ activeByStack' \in [Stacks -> Int]
        /\ \A s \in Stacks : activeByStack'[s] = activeByStack[s]
                               + (IF item.Stack = s THEN n ELSE 0)
    BY <1>1, <1>2, <1>3, <2>1
  <2>4. item.Kind # "Plan"
    BY <1>5
  <2>5. /\ activePlans' = activePlans + (IF item.Kind = "Plan" THEN n ELSE 0)
        /\ \A g \in Groups :
             activeByPlanGroup'[g] =
               activeByPlanGroup[g]
                 + (IF item.Kind = "Plan" /\ item.ConcurrencyGroup = g
                    THEN n ELSE 0)
    BY <1>1, <2>1, <2>4
  <2> QED
    BY <1>1, <1>5, <2>1, <2>2, <2>3, <2>5
<1> QED
  BY <1>4, <1>5, ItemTypes

(* Counters that agree with the holders have the right type. *)
LEMMA CountersTyped ==
  ASSUME CountersMatchHolders', activeItems' \in SUBSET Items,
         activeByStack' \in [Stacks -> Int],
         activeByPlanGroup' \in [Groups -> Int],
         activeByApplyGroup' \in [Groups -> Int]
  PROVE  /\ activePlans' \in Nat /\ activeApplies' \in Nat
         /\ activeByStack' \in [Stacks -> Nat]
         /\ activeByPlanGroup' \in [Groups -> Nat]
         /\ activeByApplyGroup' \in [Groups -> Nat]
<1>1. /\ \A k : Cardinality(OfKind(activeItems', k)) \in Nat
      /\ \A s : Cardinality(AppliesOn(activeItems', s)) \in Nat
      /\ \A k, g : Cardinality(OfGroup(activeItems', k, g)) \in Nat
  BY CountedSets
<1>2. /\ activePlans' = Cardinality(OfKind(activeItems', "Plan"))
      /\ activeApplies' = Cardinality(OfKind(activeItems', "Apply"))
      /\ \A s \in Stacks :
           activeByStack'[s] = Cardinality(AppliesOn(activeItems', s))
      /\ \A g \in Groups :
           /\ activeByPlanGroup'[g] =
                Cardinality(OfGroup(activeItems', "Plan", g))
           /\ activeByApplyGroup'[g] =
                Cardinality(OfGroup(activeItems', "Apply", g))
  BY DEF CountersMatchHolders
<1>3. activePlans' \in Nat /\ activeApplies' \in Nat
  BY <1>1, <1>2
<1>4. activeByStack' \in [Stacks -> Nat]
  BY <1>1, <1>2
<1>5. activeByPlanGroup' \in [Groups -> Nat]
  BY <1>1, <1>2
<1>6. activeByApplyGroup' \in [Groups -> Nat]
  BY <1>1, <1>2
<1> QED
  BY <1>3, <1>4, <1>5, <1>6

(* What WithinMaximum says in terms of the limits. *)
LEMMA WithinMaximumMeaning ==
  ASSUME NEW plans \in Int, NEW applies \in Int
  PROVE  ~WithinMaximum(plans, applies)
           <=> (plans > MaxPlans \/ applies > MaxApplies)
BY LimitsAssumption DEF WithinMaximum

LEMMA EmptyCounts ==
  /\ \A k : Cardinality(OfKind({}, k)) = 0
  /\ \A s : Cardinality(AppliesOn({}, s)) = 0
  /\ \A k, g : Cardinality(OfGroup({}, k, g)) = 0
<1>1. \A k, s, g : OfKind({}, k) = {} /\ AppliesOn({}, s) = {}
                  /\ OfGroup({}, k, g) = {}
  BY DEF OfKind, AppliesOn, OfGroup
<1> QED
  BY <1>1, FS_EmptySet

(* The state in which every process starts satisfies the invariant. *)
LEMMA GateInitInv == GateInit => GateInv
<1> SUFFICES ASSUME GateInit PROVE GateInv
  OBVIOUS
<1>1. GateTypeOK
  BY DEF GateInit, GateTypeOK, UniqueIDs
<1>2. CountersMatchHolders
  BY EmptyCounts DEF GateInit, CountersMatchHolders
<1>3. OverCapacityIsExact
  BY LimitsAssumption DEF GateInit, OverCapacityIsExact
<1>4. ApplyExclusivePerStack
  BY DEF GateInit, ApplyExclusivePerStack
<1> QED
  BY <1>1, <1>2, <1>3, <1>4 DEF GateInv

LEMMA GateRestartInv == GateRestart => GateInv'
<1> SUFFICES ASSUME GateRestart PROVE GateInv'
  OBVIOUS
<1>1. GateTypeOK'
  BY DEF GateRestart, GateTypeOK, UniqueIDs
<1>2. CountersMatchHolders'
  BY EmptyCounts DEF GateRestart, CountersMatchHolders
<1>3. OverCapacityIsExact'
  BY LimitsAssumption DEF GateRestart, OverCapacityIsExact
<1>4. ApplyExclusivePerStack'
  BY DEF GateRestart, ApplyExclusivePerStack
<1> QED
  BY <1>1, <1>2, <1>3, <1>4 DEF GateInv

(* Reconstruct establishes the invariant from any state at all. *)
LEMMA ReconstructInv ==
  ASSUME NEW observed \in SUBSET Items, NEW unmatched \in BOOLEAN,
         UniqueIDs(observed), Reconstruct(observed, unmatched)
  PROVE  GateInv'
<1>1. /\ \A k : Cardinality(OfKind(observed, k)) \in Nat
      /\ \A s : Cardinality(AppliesOn(observed, s)) \in Nat
      /\ \A k, g : Cardinality(OfGroup(observed, k, g)) \in Nat
  BY CountedSets
<1>2. GateTypeOK'
  BY <1>1 DEF Reconstruct, GateTypeOK, Unsafe, WithinMaximum, UniqueIDs
<1>3. CountersMatchHolders'
  BY DEF Reconstruct, CountersMatchHolders
<1>4. OverCapacityIsExact'
  <2>1. activePlans' \in Int /\ activeApplies' \in Int
    BY <1>2 DEF GateTypeOK
  <2>2. ~WithinMaximum(activePlans', activeApplies')
          <=> (activePlans' > MaxPlans \/ activeApplies' > MaxApplies)
    BY <2>1, WithinMaximumMeaning
  <2>3. overCapacity' = ~WithinMaximum(activePlans', activeApplies')
    BY DEF Reconstruct
  <2> QED
    BY <2>2, <2>3, Zenon DEF OverCapacityIsExact
<1>5. ApplyExclusivePerStack'
  <2> SUFFICES ASSUME ~Unsafe(observed, unmatched), NEW s \in Stacks
               PROVE  Cardinality(AppliesOn(observed, s)) <= 1
    BY DEF Reconstruct, ApplyExclusivePerStack
  <2>1. \A i, j \in AppliesOn(observed, s) : i = j
    BY DEF Unsafe, AppliesOn
  <2>2. \/ AppliesOn(observed, s) = {}
        \/ \E i : AppliesOn(observed, s) = {i}
    BY <2>1
  <2> QED
    BY <2>2, FS_EmptySet, FS_Singleton
<1> QED
  BY <1>2, <1>3, <1>4, <1>5 DEF GateInv

(* A new reservation is counted once, in every counter that concerns it. *)
LEMMA ReserveInv ==
  ASSUME GateInv, NEW item \in Items, ~Active(item.ID),
         Admissible(item), Reserve(item)
  PROVE  GateInv'
<1> DEFINE after == activeItems \cup {item}
<1>1. item \notin activeItems /\ activeItems \in SUBSET Items
  BY DEF Active, GateInv, GateTypeOK
<1>2. activeItems' = after
  BY DEF Reserve
<1>3. /\ \A k : Cardinality(OfKind(after, k)) =
                  Cardinality(OfKind(activeItems, k))
                    + (IF item.Kind = k THEN 1 ELSE 0)
      /\ \A s : Cardinality(AppliesOn(after, s)) =
                  Cardinality(AppliesOn(activeItems, s))
                    + (IF item.Kind = "Apply" /\ item.Stack = s THEN 1 ELSE 0)
      /\ \A k, g : Cardinality(OfGroup(after, k, g)) =
                     Cardinality(OfGroup(activeItems, k, g))
                       + (IF item.Kind = k /\ item.ConcurrencyGroup = g
                          THEN 1 ELSE 0)
  BY <1>1, AddHolder
<1> HIDE DEF after
<1>4. CountersMatchHolders'
  <2>1. Count(item, 1)
    BY DEF Reserve
  <2>2. CountersMatchHolders /\ GateTypeOK
    BY DEF GateInv
  <2>3. /\ activePlans' = Cardinality(OfKind(after, "Plan"))
        /\ activeApplies' = Cardinality(OfKind(after, "Apply"))
    BY <1>3, <2>1, <2>2, CountEffect DEF CountersMatchHolders
  <2>4. \A s \in Stacks : activeByStack'[s] = Cardinality(AppliesOn(after, s))
    BY <1>3, <2>1, <2>2, CountEffect DEF CountersMatchHolders
  <2>5. \A g \in Groups :
          activeByPlanGroup'[g] = Cardinality(OfGroup(after, "Plan", g))
    BY <1>3, <2>1, <2>2, CountEffect DEF CountersMatchHolders
  <2>6. \A g \in Groups :
          activeByApplyGroup'[g] = Cardinality(OfGroup(after, "Apply", g))
    BY <1>3, <2>1, <2>2, CountEffect DEF CountersMatchHolders
  <2> QED
    BY <1>2, <2>3, <2>4, <2>5, <2>6 DEF CountersMatchHolders
<1>5. GateTypeOK'
  <2>1. activeItems' \in SUBSET Items /\ UniqueIDs(activeItems')
    BY <1>1 DEF Reserve, Active, UniqueIDs, GateInv, GateTypeOK
  <2>2. /\ activeByStack' \in [Stacks -> Int]
        /\ activeByPlanGroup' \in [Groups -> Int]
        /\ activeByApplyGroup' \in [Groups -> Int]
    BY CountEffect DEF Reserve, GateInv
  <2>3. /\ activePlans' \in Nat /\ activeApplies' \in Nat
        /\ activeByStack' \in [Stacks -> Nat]
        /\ activeByPlanGroup' \in [Groups -> Nat]
        /\ activeByApplyGroup' \in [Groups -> Nat]
    BY <1>4, <2>1, <2>2, CountersTyped
  <2> QED
    BY <2>1, <2>3 DEF Reserve, GateInv, GateTypeOK
<1>6. OverCapacityIsExact'
  BY LimitsAssumption
     DEF Reserve, Count, Admissible, Available, GateInv, GateTypeOK,
         OverCapacityIsExact
<1>7. ApplyExclusivePerStack'
  <2> SUFFICES ASSUME NEW s \in Stacks
               PROVE  Cardinality(AppliesOn(after, s)) <= 1
    BY <1>2 DEF ApplyExclusivePerStack
  <2>1. Cardinality(AppliesOn(activeItems, s)) <= 1
    BY DEF Admissible, GateInv, ApplyExclusivePerStack
  <2>2. Cardinality(AppliesOn(activeItems, s)) \in Nat
    BY <1>1, CountedSets
  <2>3. CASE item.Kind = "Apply" /\ item.Stack = s
    <3>1. Cardinality(AppliesOn(activeItems, s)) = 0
      BY <2>3 DEF Admissible, Available, GateInv, CountersMatchHolders
    <3> QED
      BY <1>3, <2>3, <3>1
  <2>4. CASE ~(item.Kind = "Apply" /\ item.Stack = s)
    BY <1>3, <2>1, <2>2, <2>4
  <2> QED
    BY <2>3, <2>4
<1> QED
  BY <1>4, <1>5, <1>6, <1>7 DEF GateInv

LEMMA AcquireInv ==
  ASSUME GateInv, NEW item \in Items, Acquire(item)
  PROVE  GateInv'
<1>1. CASE Active(item.ID)
  BY <1>1 DEF Acquire, gateVars, counterVars, GateInv, GateTypeOK, UniqueIDs,
              CountersMatchHolders, OverCapacityIsExact, ApplyExclusivePerStack
<1>2. CASE ~Active(item.ID)
  <2>1. ~SameWork(item)
    BY <1>2 DEF SameWork, Active
  <2> QED
    BY <1>2, <2>1, ReserveInv DEF Acquire, Acquires
<1> QED
  BY <1>1, <1>2

(* Release takes one holder out of every counter that concerns it. *)
LEMMA ReleaseInv ==
  ASSUME GateInv, NEW item \in Items, Release(item)
  PROVE  GateInv'
<1>1. CASE ~Active(item.ID)
  BY <1>1 DEF Release, gateVars, counterVars, GateInv, GateTypeOK, UniqueIDs,
              CountersMatchHolders, OverCapacityIsExact, ApplyExclusivePerStack
<1>2. CASE Active(item.ID)
  <2>1. PICK held \in activeItems :
          /\ Count(held, -1)
          /\ activeItems' = activeItems \ {held}
          /\ overCapacity' =
               (overCapacity /\ ~WithinMaximum(activePlans', activeApplies'))
          /\ UNCHANGED <<gateReady, safetyViolation>>
    BY <1>2 DEF Release
  <2>2. /\ CountersMatchHolders /\ GateTypeOK /\ OverCapacityIsExact
        /\ ApplyExclusivePerStack
        /\ activeItems \in SUBSET Items /\ held \in Items
    BY DEF GateInv, GateTypeOK
  <2> DEFINE after == activeItems \ {held}
  <2>3. /\ \A k : Cardinality(OfKind(after, k)) =
                    Cardinality(OfKind(activeItems, k))
                      - (IF held.Kind = k THEN 1 ELSE 0)
        /\ \A s : Cardinality(AppliesOn(after, s)) =
                    Cardinality(AppliesOn(activeItems, s))
                      - (IF held.Kind = "Apply" /\ held.Stack = s
                         THEN 1 ELSE 0)
        /\ \A k, g : Cardinality(OfGroup(after, k, g)) =
                       Cardinality(OfGroup(activeItems, k, g))
                         - (IF held.Kind = k /\ held.ConcurrencyGroup = g
                            THEN 1 ELSE 0)
    BY <2>2, RemoveHolder
  <2>4. activeItems' = after
    BY <2>1
  <2>5. activeItems' \in SUBSET Items /\ UniqueIDs(activeItems')
    BY <2>2, <2>4 DEF GateTypeOK, UniqueIDs
  <2>6. /\ \A k : Cardinality(OfKind(activeItems, k)) \in Nat
        /\ \A s : Cardinality(AppliesOn(activeItems, s)) \in Nat
        /\ \A k, g : Cardinality(OfGroup(activeItems, k, g)) \in Nat
    BY <2>2, CountedSets
  <2> HIDE DEF after
  <2>7. CountersMatchHolders'
    <3>1. Count(held, -1)
      BY <2>1
    <3>2. /\ activePlans' = Cardinality(OfKind(after, "Plan"))
          /\ activeApplies' = Cardinality(OfKind(after, "Apply"))
      BY <2>2, <2>3, <2>6, <3>1, CountEffect DEF CountersMatchHolders
    <3>3. \A s \in Stacks :
            activeByStack'[s] = Cardinality(AppliesOn(after, s))
      BY <2>2, <2>3, <2>6, <3>1, CountEffect DEF CountersMatchHolders
    <3>4. \A g \in Groups :
            activeByPlanGroup'[g] = Cardinality(OfGroup(after, "Plan", g))
      BY <2>2, <2>3, <2>6, <3>1, CountEffect DEF CountersMatchHolders
    <3>5. \A g \in Groups :
            activeByApplyGroup'[g] = Cardinality(OfGroup(after, "Apply", g))
      BY <2>2, <2>3, <2>6, <3>1, CountEffect DEF CountersMatchHolders
    <3> QED
      BY <2>4, <3>2, <3>3, <3>4, <3>5 DEF CountersMatchHolders
  <2>8. GateTypeOK'
    <3>1. /\ activeByStack' \in [Stacks -> Int]
          /\ activeByPlanGroup' \in [Groups -> Int]
          /\ activeByApplyGroup' \in [Groups -> Int]
      BY <2>1, <2>2, CountEffect
    <3>2. /\ activePlans' \in Nat /\ activeApplies' \in Nat
          /\ activeByStack' \in [Stacks -> Nat]
          /\ activeByPlanGroup' \in [Groups -> Nat]
          /\ activeByApplyGroup' \in [Groups -> Nat]
      BY <2>5, <2>7, <3>1, CountersTyped
    <3>3. overCapacity' \in BOOLEAN
      BY <2>1
    <3>4. gateReady' \in BOOLEAN /\ safetyViolation' \in BOOLEAN
      BY <2>1, <2>2 DEF GateTypeOK
    <3> QED
      BY <2>5, <3>2, <3>3, <3>4 DEF GateTypeOK
  <2>9. OverCapacityIsExact'
    <3>1. /\ activePlans' \in Int /\ activeApplies' \in Int
          /\ activePlans \in Int /\ activeApplies \in Int
      BY <2>2, <2>8 DEF GateTypeOK
    <3>2. activePlans' <= activePlans /\ activeApplies' <= activeApplies
      BY <2>1, <2>2, <3>1, CountEffect
    <3>3. ~WithinMaximum(activePlans', activeApplies')
            <=> (activePlans' > MaxPlans \/ activeApplies' > MaxApplies)
      BY <3>1, WithinMaximumMeaning
    <3>4. (activePlans' > MaxPlans \/ activeApplies' > MaxApplies)
            => (activePlans > MaxPlans \/ activeApplies > MaxApplies)
      BY <3>1, <3>2, LimitsAssumption
    <3> QED
      BY <2>1, <2>2, <3>3, <3>4, Zenon DEF OverCapacityIsExact
  <2>10. ApplyExclusivePerStack'
    <3> SUFFICES ASSUME gateReady, ~safetyViolation, NEW s \in Stacks
                 PROVE  Cardinality(AppliesOn(after, s)) <= 1
      BY <2>1, <2>4 DEF ApplyExclusivePerStack
    <3>1. Cardinality(AppliesOn(activeItems, s)) <= 1
      BY <2>2 DEF ApplyExclusivePerStack
    <3> QED
      BY <2>3, <2>6, <3>1
  <2> QED
    BY <2>7, <2>8, <2>9, <2>10 DEF GateInv
<1> QED
  BY <1>1, <1>2

(* Every step of the gate preserves the invariant. *)
LEMMA GateStepInv == GateInv /\ [GateNext]_gateVars => GateInv'
<1> SUFFICES ASSUME GateInv, [GateNext]_gateVars PROVE GateInv'
  OBVIOUS
<1>1. CASE GateRestart
  BY <1>1, GateRestartInv
<1>2. ASSUME NEW item \in Items, Acquire(item) PROVE GateInv'
  BY <1>2, AcquireInv
<1>3. ASSUME NEW item \in Items, Release(item) PROVE GateInv'
  BY <1>3, ReleaseInv
<1>4. ASSUME NEW observed \in SUBSET Items, NEW unmatched \in BOOLEAN,
             UniqueIDs(observed), Reconstruct(observed, unmatched)
      PROVE  GateInv'
  BY <1>4, ReconstructInv
<1>5. CASE UNCHANGED gateVars
  BY <1>5 DEF gateVars, counterVars, GateInv, GateTypeOK, UniqueIDs,
              CountersMatchHolders, OverCapacityIsExact, ApplyExclusivePerStack
<1> QED
  BY <1>1, <1>2, <1>3, <1>4, <1>5 DEF GateNext

(* The inductive invariant holds in every reachable state. *)
THEOREM GateInvariant == GateSpec => []GateInv
<1> QED
  BY GateInitInv, GateStepInv, PTL DEF GateSpec

(* The counters and the set of holders keep their types; in particular no    *)
(* counter is ever driven below zero by a Release.                           *)
THEOREM GateTypeCorrect == GateSpec => []GateTypeOK
<1>1. GateInv => GateTypeOK
  BY DEF GateInv
<1> QED
  BY <1>1, GateInvariant, PTL

(* The counters always agree with the set of holders. *)
THEOREM CountersNeverDrift == GateSpec => []CountersMatchHolders
<1>1. GateInv => CountersMatchHolders
  BY DEF GateInv
<1> QED
  BY <1>1, GateInvariant, PTL

(* Admission is closed exactly while the observed excess lasts. *)
THEOREM OverCapacityNeverStale == GateSpec => []OverCapacityIsExact
<1>1. GateInv => OverCapacityIsExact
  BY DEF GateInv
<1> QED
  BY <1>1, GateInvariant, PTL

(* While the gate admits, no stack has two Applies holding slots. *)
THEOREM AppliesExclude == GateSpec => []ApplyExclusivePerStack
<1>1. GateInv => ApplyExclusivePerStack
  BY DEF GateInv
<1> QED
  BY <1>1, GateInvariant, PTL

-----------------------------------------------------------------------------
(* The gate implements the abstract pool. *)

(* The pool counts the same sets, and counts them the same way. *)
LEMMA PoolSets ==
  /\ \A S : Pool!Cardinality(S) = Cardinality(S)
  /\ \A S, k : Pool!OfKind(S, k) = OfKind(S, k)
  /\ \A S, k, g : Pool!OfGroup(S, k, g) = OfGroup(S, k, g)
<1>1. \A S : Pool!Cardinality(S) = Cardinality(S)
  BY Zenon DEF Pool!Cardinality, Cardinality
<1>2. /\ \A S, k : Pool!OfKind(S, k) = OfKind(S, k)
      /\ \A S, k, g : Pool!OfGroup(S, k, g) = OfGroup(S, k, g)
  BY DEF Pool!OfKind, Pool!OfGroup, OfKind, OfGroup
<1> QED
  BY <1>1, <1>2

(* At most one Apply per stack, said with elements instead of counts. *)
LEMMA PoolExclusive ==
  ASSUME NEW S \in SUBSET Items,
         \A s \in Stacks : Cardinality(AppliesOn(S, s)) <= 1
  PROVE  Pool!Exclusive(S)
<1> SUFFICES ASSUME NEW i \in OfKind(S, "Apply"), NEW j \in OfKind(S, "Apply"),
                    i.Stack = j.Stack
             PROVE  i = j
  BY PoolSets DEF Pool!Exclusive
<1>1. i \in Items /\ j \in Items
  BY DEF OfKind
<1> DEFINE A == AppliesOn(S, i.Stack)
<1>2. i \in A /\ j \in A
  BY DEF AppliesOn
<1>3. IsFiniteSet(A)
  <2>1. A \subseteq Items
    BY DEF AppliesOn, OfKind
  <2> QED
    BY <2>1, FS_Subset, ItemsAssumption
<1>4. Cardinality(A) <= 1
  BY <1>1, ItemTypes
<1> HIDE DEF A
<1>5. Cardinality(A) = 1
  <2>1. Cardinality(A) \in Nat
    BY <1>3, FS_CardinalityType
  <2>2. Cardinality(A) # 0
    BY <1>2, <1>3, FS_EmptySet
  <2> QED
    BY <1>4, <2>1, <2>2
<1>6. \E x : A = {x}
  BY <1>3, <1>5, FS_Singleton
<1> QED
  BY <1>2, <1>6

LEMMA OneMore ==
  ASSUME NEW before \in Nat, NEW limit \in Nat, before < limit,
         NEW after, after = before + 1
  PROVE  after <= limit
OBVIOUS

(* A reservation is an admission of the pool. *)
LEMMA ReserveAdmits ==
  ASSUME GateInv, GateInv', NEW item \in Items, ~Active(item.ID),
         Admissible(item), Reserve(item)
  PROVE  Pool!Admit(item)
<1>1. /\ GateTypeOK /\ CountersMatchHolders /\ OverCapacityIsExact
      /\ GateTypeOK' /\ CountersMatchHolders' /\ OverCapacityIsExact'
      /\ ApplyExclusivePerStack'
  BY DEF GateInv
<1>2. /\ item \notin activeItems
      /\ activeItems' = activeItems \cup {item}
      /\ activeItems \in SUBSET Items /\ activeItems' \in SUBSET Items
  BY <1>1 DEF Active, Reserve, GateTypeOK
<1>3. gateReady /\ ~safetyViolation /\ gateReady' /\ ~safetyViolation'
  BY DEF Admissible, Reserve
<1>4. Pool!WithinLimits(activeItems')
  <2>1. ~overCapacity'
    BY DEF Admissible, Reserve
  <2>2. activePlans' <= MaxPlans /\ activeApplies' <= MaxApplies
    BY <1>1, <2>1, LimitsAssumption DEF OverCapacityIsExact, GateTypeOK
  <2> QED
    BY <1>1, <2>2, PoolSets DEF Pool!WithinLimits, CountersMatchHolders
<1>5. Pool!Exclusive(activeItems')
  BY <1>1, <1>2, <1>3, PoolExclusive DEF ApplyExclusivePerStack
<1>6. Pool!GroupRespected(item, activeItems')
  <2> SUFFICES ASSUME item.ConcurrencyGroup # "", Pool!GroupLimit(item) # 0
               PROVE  Cardinality(OfGroup(activeItems', item.Kind,
                                          item.ConcurrencyGroup))
                        <= Pool!GroupLimit(item)
    BY PoolSets DEF Pool!GroupRespected
  <2> DEFINE g == item.ConcurrencyGroup
             before == OfGroup(activeItems, item.Kind, g)
  <2>1. g \in Groups /\ g # NoGroup
    BY ItemTypes DEF NoGroup
  <2>2. /\ Pool!GroupLimit(item) \in Nat
        /\ Cardinality(before) \in Nat
    BY <1>2, ItemTypes, CountedSets DEF Pool!GroupLimit
  <2>3. Cardinality(before) < Pool!GroupLimit(item)
    <3>1. CASE item.Kind = "Plan"
      BY <1>1, <2>1, <3>1 DEF Admissible, Available, GroupHasRoom,
           Pool!GroupLimit, CountersMatchHolders
    <3>2. CASE item.Kind = "Apply"
      BY <1>1, <2>1, <3>2 DEF Admissible, Available, GroupHasRoom,
           Pool!GroupLimit, CountersMatchHolders
    <3> QED
      BY <3>1, <3>2, ItemTypes
  <2>4. Cardinality(OfGroup(activeItems', item.Kind, g)) =
          Cardinality(before) + 1
    BY <1>2, AddHolder
  <2> QED
    BY <2>2, <2>3, <2>4, OneMore
<1> QED
  BY <1>2, <1>3, <1>4, <1>5, <1>6 DEF Pool!Admit

(* Every step of the gate is a step of the pool, or changes nothing of it. *)
LEMMA GateStepRefines ==
  ASSUME GateInv, GateInv', [GateNext]_gateVars
  PROVE  [Pool!PoolNext]_(Pool!poolVars)
<1>1. CASE GateRestart
  BY <1>1 DEF GateRestart, Pool!Restart, Pool!PoolNext
<1>2. ASSUME NEW item \in Items, Acquire(item)
      PROVE  [Pool!PoolNext]_(Pool!poolVars)
  <2>1. CASE Active(item.ID)
    BY <1>2, <2>1 DEF Acquire, gateVars, counterVars, Pool!poolVars
  <2>2. CASE ~Active(item.ID)
    <3>1. ~SameWork(item)
      BY <2>2 DEF SameWork, Active
    <3>2. Pool!Admit(item)
      BY <1>2, <2>2, <3>1, ReserveAdmits DEF Acquire, Acquires
    <3> QED
      BY <3>2 DEF Pool!PoolNext
  <2> QED
    BY <2>1, <2>2
<1>3. ASSUME NEW item \in Items, Release(item)
      PROVE  [Pool!PoolNext]_(Pool!poolVars)
  <2>1. CASE ~Active(item.ID)
    BY <1>3, <2>1 DEF Release, gateVars, counterVars, Pool!poolVars
  <2>2. CASE Active(item.ID)
    <3>1. PICK held \in activeItems :
            /\ activeItems' = activeItems \ {held}
            /\ UNCHANGED <<gateReady, safetyViolation>>
      BY <1>3, <2>2 DEF Release
    <3>2. held \in Items
      BY DEF GateInv, GateTypeOK
    <3>3. Pool!Free(held)
      BY <3>1 DEF Pool!Free
    <3> QED
      BY <3>2, <3>3 DEF Pool!PoolNext
  <2> QED
    BY <2>1, <2>2
<1>4. ASSUME ~gateReady, NEW observed \in SUBSET Items,
             NEW unmatched \in BOOLEAN, Reconstruct(observed, unmatched)
      PROVE  [Pool!PoolNext]_(Pool!poolVars)
  <2>1. activeItems' = observed /\ gateReady'
    BY <1>4 DEF Reconstruct
  <2>2. ASSUME ~safetyViolation' PROVE Pool!Exclusive(observed)
    BY <2>1, <2>2, PoolExclusive DEF GateInv, ApplyExclusivePerStack
  <2>3. (gateReady' /\ ~safetyViolation') \in BOOLEAN
    OBVIOUS
  <2>4. Pool!Observe(observed)
    BY <1>4, <2>1, <2>2, <2>3 DEF Pool!Observe
  <2> QED
    BY <2>4 DEF Pool!PoolNext
<1>5. CASE UNCHANGED gateVars
  BY <1>5 DEF gateVars, counterVars, Pool!poolVars
<1> QED
  BY <1>1, <1>2, <1>3, <1>4, <1>5 DEF GateNext

(* The gate, whatever the order of its calls, keeps the promise of SlotPool: *)
(* it admits only what fits, only while it is open, and it is closed from    *)
(* the start of a process until the running executions are accounted for.    *)
THEOREM GateImplementsPool == GateSpec => ImplementsSlotPool
<1>1. GateInit => Pool!PoolInit
  BY DEF GateInit, Pool!PoolInit
<1>2. GateInv /\ GateInv' /\ [GateNext]_gateVars
        => [Pool!PoolNext]_(Pool!poolVars)
  BY GateStepRefines
<1> QED
  BY <1>1, <1>2, GateInvariant, PTL
     DEF GateSpec, ImplementsSlotPool, Pool!PoolSpec
=============================================================================
