--------------------------- MODULE InfraStackProofs ---------------------------
(***************************************************************************)
(* Theorems of InfraStack.  The invariant is stated of any stack, runs and *)
(* views of them, so that it can be shown separately what a step does and  *)
(* what it means that a cache catches up.                                  *)
(***************************************************************************)
EXTENDS InfraStack, SequenceTheorems, TLAPS

-----------------------------------------------------------------------------
(* A cache shows what was. *)

(* What a stack v was once, if s is what it is now. *)
EarlierStack(v, s) ==
  /\ v.gen <= s.gen
  /\ v.gen = s.gen =>
       /\ v.input = s.input /\ v.desired = s.desired
       /\ v.fence = s.fence /\ v.deleting = s.deleting
  /\ v.converged # None => s.converged # None
  /\ v.finalizer => s.finalizer \/ s.reason = "InfrastructureRemoved"

(* How far an Apply has come. *)
Ended == {"Succeeded", "Indeterminate", "Rejected"}
Ran == {"Started", "Succeeded", "Indeterminate"}

EarlierRun(a, b) ==
  /\ a.gen = b.gen /\ a.mode = b.mode /\ a.input = b.input
  /\ a.outcome # "" => b.outcome \in {a.outcome, "Superseded"}
  /\ a.outcome # "" => a.base = b.base
  /\ a.approved => b.approved
  /\ a.apply # None => b.apply # None
  /\ a.apply \in Ran => b.apply \in Ran
  /\ a.apply \in Ended => b.apply = a.apply

EarlierRuns(w, r) ==
  /\ Len(w) <= Len(r)
  /\ \A p \in DOMAIN w : EarlierRun(w[p], r[p])

-----------------------------------------------------------------------------
(* The parts of the invariant. *)

StackFacts(s) ==
  /\ s.observed <= s.gen
  /\ s.exists /\ s.deleting => s.finalizer
  /\ ~s.exists => ~s.finalizer

RunFacts(run) ==
  /\ run.outcome = "NoChange" => run.base = Goal(run)
  /\ run.outcome = "ChangesPresent" => run.base # Goal(run)
  /\ run.approved =>
       run.outcome \in {"ChangesPresent", "Superseded"} /\ run.base # Goal(run)
  /\ run.apply # None => run.approved

Leaves(s) == s.desired = "Destroy" \/ s.deleting

(* A Plan was made for a stack that was seen, and a Destroy Plan for one     *)
(* that was fenced and had converged before.                                 *)
MadeFor(run, s, v, k) ==
  /\ run.gen <= v.gen
  /\ run.mode = "Destroy" =>
       /\ k /\ s.converged # None
       /\ run.gen = v.gen => v.fence /\ Leaves(v)

(* An Apply is created for a Plan that is seen, and started when it is seen  *)
(* itself.                                                                   *)
ApplySeen(r, w) ==
  \A p \in DOMAIN r :
    /\ r[p].apply # None => p \in DOMAIN w
    /\ r[p].apply \in Ran => p \in DOMAIN w /\ w[p].apply # None

Alike(a, b) == a.gen = b.gen /\ a.mode = b.mode

(* Once a later attempt is seen, no Apply is created for an earlier one.     *)
LaterAttempts(r, w) ==
  \A p, q \in DOMAIN w :
    p < q /\ Alike(w[p], w[q]) /\ w[p].apply = None => r[p].apply = None

(* An attempt that is not seen was made because the last one that is seen    *)
(* was discarded.                                                            *)
UnseenAttempts(r, w) ==
  \A q \in DOMAIN r \ DOMAIN w : \A p \in DOMAIN w :
    /\ Alike(w[p], r[q])
    /\ \A p2 \in DOMAIN w : Alike(w[p2], r[q]) => p2 <= p
    => w[p].outcome = "Superseded"

(* One Apply at a time. *)
OneApply(r, w, a) ==
  /\ a # 0 =>
       /\ a \in DOMAIN w /\ r[a].apply = "Created" /\ w[a].apply = "Created"
       /\ \A q \in DOMAIN r : r[q].apply # "Started"
  /\ \A p, q \in DOMAIN r :
       r[p].apply = "Started" /\ r[q].apply = "Started" => p = q

(* Since there is a Destroy Plan, no other Apply was started. *)
Alone(s, r, a) ==
  \A p, q \in DOMAIN r :
    /\ r[p].mode = "Destroy" /\ r[p].gen = s.gen /\ r[q].mode = "Reconcile"
    => r[q].apply # "Started" /\ a # q

(* A Destroy Plan that found nothing, or whose Apply succeeded, still tells  *)
(* the truth, as long as its generation is that of the stack.                *)
Emptied(s, rr, i) ==
  \A p \in DOMAIN rr :
    /\ rr[p].mode = "Destroy" /\ rr[p].gen = s.gen
    /\ rr[p].outcome = "NoChange" \/ rr[p].apply = "Succeeded"
    => i = Absent

(* Infrastructure comes from an Apply that has ended. *)
Built(r, i) ==
  i # Absent => \E p \in DOMAIN r : r[p].apply \in {"Succeeded", "Indeterminate"}

(* A stack without finalizer has not been reconciled, or was released. *)
Untouched(s, r) ==
  ~s.finalizer => s.reason = "InfrastructureRemoved" \/ r = <<>>

(* An approved Plan whose Apply is not going to start any more. *)
Dead(p, s, v, r, w) ==
  \/ r[p].apply \notin {None, "Created"}
  \/ r[p].gen < v.gen
  \/ r[p].mode = "Reconcile" /\ r[p].gen <= s.observed
  \/ /\ r[p].apply = None
     /\ \E q \in DOMAIN w : p < q /\ Alike(w[q], r[p])

(* What is true of a stack that was reported as removed. *)
Gone(s, v, r, w, a, i) ==
  /\ i = Absent /\ a = 0
  /\ \A p \in DOMAIN r : r[p].apply # "Started"
  /\ s.observed <= v.gen
  /\ v.gen = s.observed => v.fence /\ Leaves(v)
  /\ \A p \in DOMAIN r : r[p].approved => Dead(p, s, v, r, w)
  /\ s.latest # 0 =>
       /\ r[s.latest].gen <= s.observed
       /\ r[s.latest].mode = "Destroy" /\ r[s.latest].gen = s.observed =>
            \/ r[s.latest].approved
            \/ r[s.latest].outcome \in {"NoChange", "Superseded"}

Types(s, v, r, w, a, i, k) ==
  /\ s \in Stack /\ v \in Stack /\ r \in Seq(Run) /\ w \in Seq(Run)
  /\ s.latest \in 0..Len(r) /\ a \in 0..Len(r)
  /\ i \in Inputs \cup {Absent, Partial} /\ k \in BOOLEAN

StackParts(s, v, k) ==
  /\ StackFacts(s) /\ StackFacts(v) /\ EarlierStack(v, s)
  /\ Leaves(s) \/ Leaves(v) => k

RunParts(s, v, r, w, k) ==
  /\ EarlierRuns(w, r)
  /\ \A p \in DOMAIN r : RunFacts(r[p]) /\ MadeFor(r[p], s, v, k)
  /\ \A p \in DOMAIN w : RunFacts(w[p])
  /\ ApplySeen(r, w) /\ LaterAttempts(r, w) /\ UnseenAttempts(r, w)

InfraParts(s, v, r, w, a, i) ==
  /\ OneApply(r, w, a) /\ Alone(s, r, a)
  /\ Emptied(s, r, i) /\ Emptied(s, w, i) /\ Built(r, i)
  /\ Untouched(s, r)
  /\ s.reason = "InfrastructureRemoved" => Gone(s, v, r, w, a, i)

StackInv(s, v, r, w, a, i, k) ==
  /\ Types(s, v, r, w, a, i, k) /\ StackParts(s, v, k)
  /\ RunParts(s, v, r, w, k) /\ InfraParts(s, v, r, w, a, i)

(* The inductive invariant of InfraStack. *)
StackInvariant ==
  /\ StackInv(stack, View, runs, RunsSeen, admitting, infra, asked)
  /\ stackView \in Stack /\ runsView \in Seq(Run)
  /\ edits \in 0..MaxEdits /\ faults \in 0..MaxFaults

-----------------------------------------------------------------------------
(* What the provers need to know of runs and stacks. *)

(* The runs are numbered from 1. *)
LEMMA RunsAreNumbered ==
  ASSUME NEW r \in Seq(Run)
  PROVE  /\ Len(r) \in Nat /\ DOMAIN r = 1..Len(r)
         /\ \A p \in DOMAIN r : r[p] \in Run /\ p \in Nat /\ p # 0
<1>1. Len(r) \in Nat /\ r \in [1..Len(r) -> Run]
  BY LenProperties
<1>2. DOMAIN r = 1..Len(r)
  BY <1>1
<1> QED
  BY <1>1, <1>2

(* The types of what a run says. *)
LEMMA RunTypes ==
  ASSUME NEW run \in Run
  PROVE  /\ run.gen \in Nat /\ run.mode \in {"Reconcile", "Destroy"}
         /\ run.input \in Inputs
         /\ run.outcome \in
              {"", "NoChange", "ChangesPresent", "Failed", "Superseded"}
         /\ run.base \in Inputs \cup {Absent, Partial}
         /\ run.expired \in BOOLEAN /\ run.approved \in BOOLEAN
         /\ run.apply \in {None, "Created", "Started", "Succeeded",
                           "Indeterminate", "Rejected"}
  BY DEF Run

(* The types of what a stack says. *)
LEMMA StackTypes ==
  ASSUME NEW s \in Stack
  PROVE  /\ s.exists \in BOOLEAN /\ s.deleting \in BOOLEAN
         /\ s.finalizer \in BOOLEAN /\ s.gen \in Nat /\ s.input \in Inputs
         /\ s.desired \in {"Present", "Destroy"} /\ s.fence \in BOOLEAN
         /\ s.reason \in Reasons /\ s.observed \in Nat /\ s.latest \in Nat
         /\ s.converged \in Inputs \cup {None} /\ s.applied \in BOOLEAN
  BY DEF Stack

(* Times passes in one direction. *)
LEMMA EarlierIsTransitive ==
  ASSUME NEW x, NEW y, NEW z, EarlierRun(x, y), EarlierRun(y, z)
  PROVE  EarlierRun(x, z)
  BY DEF EarlierRun, Ended, Ran

(* A run is as it is. *)
LEMMA EarlierIsReflexive ==
  ASSUME NEW x
  PROVE  EarlierRun(x, x)
  BY DEF EarlierRun

(* The generation of a stack tells its spec. *)
LEMMA CurrentView ==
  ASSUME NEW s, NEW v, NEW k, StackParts(s, v, k), v.gen = s.gen
  PROVE  (v.fence <=> s.fence) /\ (Leaves(v) <=> Leaves(s))
  BY DEF StackParts, EarlierStack, Leaves

-----------------------------------------------------------------------------
(* The caches catch up. *)

(* When the cache of the stack catches up, the invariant goes on. *)
LEMMA StackRefreshed ==
  ASSUME NEW s, NEW v, NEW r, NEW w, NEW a, NEW i, NEW k,
         StackInv(s, v, r, w, a, i, k)
  PROVE  StackInv(s, s, r, w, a, i, k)
<1>1. /\ Types(s, v, r, w, a, i, k) /\ StackParts(s, v, k)
      /\ RunParts(s, v, r, w, k) /\ InfraParts(s, v, r, w, a, i)
  BY DEF StackInv
<1>2. s \in Stack /\ v \in Stack /\ r \in Seq(Run)
  BY <1>1 DEF Types
<1>3. /\ s.gen \in Nat /\ v.gen \in Nat /\ s.observed \in Nat
      /\ v.gen <= s.gen
  BY <1>1, <1>2, StackTypes DEF StackParts, EarlierStack
<1>4. \A p \in DOMAIN r : r[p].gen \in Nat
  BY <1>2, RunsAreNumbered, RunTypes
<1>5. Types(s, s, r, w, a, i, k)
  BY <1>1 DEF Types
<1>6. StackParts(s, s, k)
  <2>1. EarlierStack(s, s)
    <3>1. s.gen <= s.gen
      BY <1>3
    <3> QED
      BY <3>1 DEF EarlierStack
  <2> QED
    BY <1>1, <2>1 DEF StackParts
<1>7. ASSUME NEW p \in DOMAIN r, MadeFor(r[p], s, v, k)
      PROVE  MadeFor(r[p], s, s, k)
  <2>1. r[p].gen <= v.gen
    BY <1>7 DEF MadeFor
  <2>2. r[p].gen <= s.gen /\ (r[p].gen = s.gen => r[p].gen = v.gen /\ v.gen = s.gen)
    BY <2>1, <1>3, <1>4
  <2>3. r[p].gen = s.gen => (v.fence <=> s.fence) /\ (Leaves(v) <=> Leaves(s))
    BY <2>2, <1>1, CurrentView
  <2> QED
    BY <1>7, <2>2, <2>3 DEF MadeFor
<1>8. RunParts(s, s, r, w, k)
  BY <1>1, <1>7 DEF RunParts
<1>9. ASSUME Gone(s, v, r, w, a, i) PROVE Gone(s, s, r, w, a, i)
  <2>1. s.observed <= v.gen /\ (v.gen = s.observed => v.fence /\ Leaves(v))
    BY <1>9 DEF Gone
  <2>2. s.observed <= s.gen
    BY <2>1, <1>3
  <2>3. s.gen = s.observed => v.gen = s.gen
    BY <2>1, <1>3
  <2>4. s.gen = s.observed => s.fence /\ Leaves(s)
    BY <2>1, <2>3, <1>1, CurrentView
  <2>5. ASSUME NEW p \in DOMAIN r, Dead(p, s, v, r, w)
        PROVE  Dead(p, s, s, r, w)
    <3>1. r[p].gen < v.gen => r[p].gen < s.gen
      BY <1>3, <1>4
    <3> QED
      BY <2>5, <3>1 DEF Dead
  <2>6. /\ i = Absent /\ a = 0
        /\ \A p \in DOMAIN r : r[p].apply # "Started"
        /\ \A p \in DOMAIN r : r[p].approved => Dead(p, s, s, r, w)
    BY <1>9, <2>5 DEF Gone
  <2>7. s.latest # 0 =>
          /\ r[s.latest].gen <= s.observed
          /\ r[s.latest].mode = "Destroy" /\ r[s.latest].gen = s.observed =>
               \/ r[s.latest].approved
               \/ r[s.latest].outcome \in {"NoChange", "Superseded"}
    BY <1>9 DEF Gone
  <2> QED
    BY <2>2, <2>4, <2>6, <2>7 DEF Gone
<1>10. InfraParts(s, s, r, w, a, i)
  BY <1>1, <1>9 DEF InfraParts
<1> QED
  BY <1>5, <1>6, <1>8, <1>10 DEF StackInv

(* When the cache of the runs catches up, the invariant goes on. *)
LEMMA RunsRefreshed ==
  ASSUME NEW s, NEW v, NEW r, NEW w, NEW a, NEW i, NEW k,
         StackInv(s, v, r, w, a, i, k)
  PROVE  StackInv(s, v, r, r, a, i, k)
<1>1. /\ Types(s, v, r, w, a, i, k) /\ StackParts(s, v, k)
      /\ RunParts(s, v, r, w, k) /\ InfraParts(s, v, r, w, a, i)
  BY DEF StackInv
<1>2. r \in Seq(Run) /\ w \in Seq(Run)
  BY <1>1 DEF Types
<1>3. Types(s, v, r, r, a, i, k)
  BY <1>1 DEF Types
<1>4. /\ Len(w) <= Len(r) /\ Len(w) \in Nat /\ Len(r) \in Nat
      /\ DOMAIN w = 1..Len(w) /\ DOMAIN r = 1..Len(r)
  BY <1>1, <1>2, RunsAreNumbered DEF RunParts, EarlierRuns
<1>5. DOMAIN w \subseteq DOMAIN r
  BY <1>4
<1>6. \A p \in DOMAIN w : EarlierRun(w[p], r[p])
  BY <1>1 DEF RunParts, EarlierRuns
<1>7. EarlierRuns(r, r)
  <2>1. Len(r) <= Len(r)
    BY <1>4
  <2> QED
    BY <2>1, EarlierIsReflexive DEF EarlierRuns
<1>8. ApplySeen(r, r)
  BY DEF ApplySeen, Ran, None
<1>9. LaterAttempts(r, r) /\ UnseenAttempts(r, r)
  BY DEF LaterAttempts, UnseenAttempts
<1>10. RunParts(s, v, r, r, k)
  BY <1>1, <1>7, <1>8, <1>9 DEF RunParts
<1>11. OneApply(r, r, a)
  BY <1>1, <1>5 DEF InfraParts, OneApply
<1>12. ASSUME NEW p \in DOMAIN r, Dead(p, s, v, r, w)
       PROVE  Dead(p, s, v, r, r)
  <2>1. \A q \in DOMAIN w : q \in DOMAIN r /\ r[q].gen = w[q].gen
                             /\ r[q].mode = w[q].mode
    BY <1>5, <1>6 DEF EarlierRun
  <2> QED
    BY <1>12, <2>1 DEF Dead, Alike
<1>13. Gone(s, v, r, w, a, i) => Gone(s, v, r, r, a, i)
  BY <1>12 DEF Gone
<1>14. InfraParts(s, v, r, r, a, i)
  BY <1>1, <1>11, <1>13 DEF InfraParts
<1> QED
  BY <1>1, <1>3, <1>10, <1>14 DEF StackInv

-----------------------------------------------------------------------------
(* The stack is written. *)

(* Every Plan is of a generation that the stack has had. *)
LEMMA PlansAreOfThePast ==
  ASSUME NEW s, NEW v, NEW r, NEW w, NEW a, NEW i, NEW k,
         StackInv(s, v, r, w, a, i, k)
  PROVE  /\ s.gen \in Nat /\ v.gen \in Nat /\ v.gen <= s.gen
         /\ DOMAIN w \subseteq DOMAIN r
         /\ \A p \in DOMAIN r :
              r[p].gen \in Nat /\ r[p].gen <= v.gen /\ r[p].gen <= s.gen
         /\ \A p \in DOMAIN w : w[p].gen = r[p].gen /\ w[p].mode = r[p].mode
<1>1. /\ Types(s, v, r, w, a, i, k) /\ StackParts(s, v, k)
      /\ RunParts(s, v, r, w, k)
  BY DEF StackInv
<1>2. s \in Stack /\ v \in Stack /\ r \in Seq(Run) /\ w \in Seq(Run)
  BY <1>1 DEF Types
<1>3. s.gen \in Nat /\ v.gen \in Nat /\ v.gen <= s.gen
  BY <1>1, <1>2, StackTypes DEF StackParts, EarlierStack
<1>4. DOMAIN w \subseteq DOMAIN r
  <2>1. /\ Len(w) <= Len(r) /\ Len(w) \in Nat /\ Len(r) \in Nat
        /\ DOMAIN w = 1..Len(w) /\ DOMAIN r = 1..Len(r)
    BY <1>1, <1>2, RunsAreNumbered DEF RunParts, EarlierRuns
  <2> QED
    BY <2>1
<1>5. \A p \in DOMAIN r : r[p].gen \in Nat /\ r[p].gen <= v.gen
  BY <1>1, <1>2, RunsAreNumbered, RunTypes DEF RunParts, MadeFor
<1>6. \A p \in DOMAIN r : r[p].gen <= s.gen
  BY <1>3, <1>5
<1>7. \A p \in DOMAIN w : w[p].gen = r[p].gen /\ w[p].mode = r[p].mode
  BY <1>1 DEF RunParts, EarlierRuns, EarlierRun
<1> QED
  BY <1>3, <1>4, <1>5, <1>6, <1>7

(* A status is written, or the finalizer, on the stack as it is: the         *)
(* generation and the spec stay.                                             *)
LEMMA SpecKept ==
  ASSUME NEW s, NEW r, NEW w, NEW a, NEW i, NEW k,
         StackInv(s, s, r, w, a, i, k),
         NEW n \in Stack, n.gen = s.gen, n.input = s.input,
         n.desired = s.desired, n.fence = s.fence, n.deleting = s.deleting,
         s.converged # None => n.converged # None,
         s.finalizer => n.finalizer \/ n.reason = "InfrastructureRemoved",
         StackFacts(n), n.latest \in 0..Len(r), Untouched(n, r),
         n.reason = "InfrastructureRemoved" => Gone(n, s, r, w, a, i)
  PROVE  StackInv(n, s, r, w, a, i, k)
<1>1. /\ Types(s, s, r, w, a, i, k) /\ StackParts(s, s, k)
      /\ RunParts(s, s, r, w, k) /\ InfraParts(s, s, r, w, a, i)
  BY DEF StackInv
<1>2. Types(n, s, r, w, a, i, k)
  BY <1>1 DEF Types
<1>3. StackParts(n, s, k)
  <2>1. s.gen <= n.gen
    BY PlansAreOfThePast
  <2>2. EarlierStack(s, n)
    BY <2>1 DEF EarlierStack
  <2>3. Leaves(n) <=> Leaves(s)
    BY DEF Leaves
  <2> QED
    BY <1>1, <2>2, <2>3 DEF StackParts
<1>4. \A p \in DOMAIN r : MadeFor(r[p], s, s, k) => MadeFor(r[p], n, s, k)
  BY DEF MadeFor
<1>5. RunParts(n, s, r, w, k)
  BY <1>1, <1>4 DEF RunParts
<1>6. Alone(n, r, a) /\ Emptied(n, r, i) /\ Emptied(n, w, i)
  BY <1>1 DEF InfraParts, Alone, Emptied
<1>7. InfraParts(n, s, r, w, a, i)
  BY <1>1, <1>6 DEF InfraParts
<1> QED
  BY <1>2, <1>3, <1>5, <1>7 DEF StackInv

(* The spec is written or the deletion is asked for: a new generation.       *)
LEMMA SpecChanged ==
  ASSUME NEW s, NEW v, NEW r, NEW w, NEW a, NEW i, NEW k, NEW k2 \in BOOLEAN,
         StackInv(s, v, r, w, a, i, k),
         NEW n \in Stack, n.gen = s.gen + 1, n.reason = s.reason,
         n.observed = s.observed, n.latest = s.latest,
         n.converged = s.converged, n.finalizer = s.finalizer,
         StackFacts(n), k \/ Leaves(n) => k2
  PROVE  StackInv(n, v, r, w, a, i, k2)
<1>1. /\ Types(s, v, r, w, a, i, k) /\ StackParts(s, v, k)
      /\ RunParts(s, v, r, w, k) /\ InfraParts(s, v, r, w, a, i)
  BY DEF StackInv
<1>2. Types(n, v, r, w, a, i, k2)
  BY <1>1 DEF Types
<1>3. /\ s.gen \in Nat /\ v.gen \in Nat /\ v.gen <= s.gen
      /\ DOMAIN w \subseteq DOMAIN r
      /\ \A p \in DOMAIN r : r[p].gen \in Nat /\ r[p].gen <= s.gen
      /\ \A p \in DOMAIN w : w[p].gen = r[p].gen
  BY PlansAreOfThePast
<1>4. v.gen < n.gen /\ v.gen # n.gen /\ v.gen <= n.gen
  BY <1>3
<1>5. StackParts(n, v, k2)
  <2>1. EarlierStack(v, n)
    BY <1>1, <1>4 DEF StackParts, EarlierStack
  <2> QED
    BY <1>1, <2>1 DEF StackParts
<1>6. \A p \in DOMAIN r : MadeFor(r[p], s, v, k) => MadeFor(r[p], n, v, k2)
  BY DEF MadeFor
<1>7. RunParts(n, v, r, w, k2)
  BY <1>1, <1>6 DEF RunParts
<1>8. \A p \in DOMAIN r : r[p].gen # n.gen
  BY <1>3
<1>9. \A p \in DOMAIN w : w[p].gen # n.gen
  BY <1>3, <1>8
<1>10. Alone(n, r, a) /\ Emptied(n, r, i) /\ Emptied(n, w, i)
  BY <1>8, <1>9 DEF Alone, Emptied
<1>11. Gone(s, v, r, w, a, i) => Gone(n, v, r, w, a, i)
  BY DEF Gone, Dead
<1>12. Untouched(n, r)
  BY <1>1 DEF InfraParts, Untouched
<1>13. InfraParts(n, v, r, w, a, i)
  BY <1>1, <1>10, <1>11, <1>12 DEF InfraParts
<1> QED
  BY <1>2, <1>5, <1>7, <1>13 DEF StackInv

-----------------------------------------------------------------------------
(* A run changes. *)

OnlyAt(r, n, p) ==
  /\ n \in Seq(Run) /\ Len(n) = Len(r) /\ DOMAIN n = DOMAIN r
  /\ p \in DOMAIN r
  /\ \A q \in DOMAIN r : q # p => n[q] = r[q]

(* Replacing one run keeps the others. *)
LEMMA ReplacedOnly ==
  ASSUME NEW r \in Seq(Run), NEW p \in DOMAIN r, NEW x \in Run
  PROVE  OnlyAt(r, [r EXCEPT ![p] = x], p) /\ [r EXCEPT ![p] = x][p] = x
<1>1. p \in 1..Len(r)
  BY RunsAreNumbered
<1>2. [r EXCEPT ![p] = x] \in Seq(Run) /\ Len([r EXCEPT ![p] = x]) = Len(r)
  BY <1>1, ExceptSeq
<1> QED
  BY <1>2 DEF OnlyAt

(* A run goes on in time; its Apply is created for the last attempt that is  *)
(* seen, and runs after it was seen itself.                                  *)
LEMMA RunGoesOn ==
  ASSUME NEW s, NEW v, NEW r, NEW w, NEW a, NEW i, NEW k, NEW n, NEW p,
         StackInv(s, v, r, w, a, i, k), OnlyAt(r, n, p),
         EarlierRun(r[p], n[p]), RunFacts(n[p]),
         n[p].apply # None => p \in DOMAIN w,
         n[p].apply \in Ran => w[p].apply # None,
         \A q \in DOMAIN w :
           p < q /\ Alike(w[p], w[q]) /\ w[p].apply = None =>
             n[p].apply = r[p].apply
  PROVE  RunParts(s, v, n, w, k) /\ Types(s, v, n, w, a, i, k)
<1>1. /\ Types(s, v, r, w, a, i, k) /\ RunParts(s, v, r, w, k)
  BY DEF StackInv
<1>2. DOMAIN w \subseteq DOMAIN r
  BY PlansAreOfThePast
<1>3. Types(s, v, n, w, a, i, k)
  BY <1>1 DEF Types, OnlyAt
<1>4. EarlierRuns(w, n)
  <2>1. Len(w) <= Len(n)
    BY <1>1 DEF RunParts, EarlierRuns, OnlyAt
  <2>2. ASSUME NEW q \in DOMAIN w
        PROVE  EarlierRun(w[q], n[q])
    <3>1. EarlierRun(w[q], r[q])
      BY <1>1 DEF RunParts, EarlierRuns
    <3>2. CASE q = p
      BY <3>1, <3>2, EarlierIsTransitive
    <3>3. CASE q # p
      BY <1>2, <3>1, <3>3 DEF OnlyAt
    <3> QED
      BY <3>2, <3>3
  <2> QED
    BY <2>1, <2>2 DEF EarlierRuns
<1>5. ASSUME NEW q \in DOMAIN n
      PROVE  RunFacts(n[q]) /\ MadeFor(n[q], s, v, k)
  <2>1. q \in DOMAIN r /\ RunFacts(r[q]) /\ MadeFor(r[q], s, v, k)
    BY <1>1, <1>5 DEF OnlyAt, RunParts
  <2>2. n[q].gen = r[q].gen /\ n[q].mode = r[q].mode
    BY <2>1 DEF OnlyAt, EarlierRun
  <2>3. MadeFor(n[q], s, v, k)
    BY <2>1, <2>2 DEF MadeFor
  <2>4. RunFacts(n[q])
    BY <2>1 DEF OnlyAt
  <2> QED
    BY <2>3, <2>4
<1>6. ApplySeen(n, w)
  BY <1>1 DEF OnlyAt, RunParts, ApplySeen
<1>7. LaterAttempts(n, w)
  <2> SUFFICES ASSUME NEW x \in DOMAIN w, NEW q \in DOMAIN w,
                      x < q, Alike(w[x], w[q]), w[x].apply = None
               PROVE  n[x].apply = None
    BY DEF LaterAttempts
  <2>1. r[x].apply = None
    BY <1>1 DEF RunParts, LaterAttempts
  <2>2. CASE x = p
    BY <2>1, <2>2
  <2>3. CASE x # p
    BY <1>2, <2>1, <2>3 DEF OnlyAt
  <2> QED
    BY <2>2, <2>3
<1>8. UnseenAttempts(n, w)
  <2>1. \A q \in DOMAIN n : q \in DOMAIN r /\ n[q].gen = r[q].gen
                             /\ n[q].mode = r[q].mode
    BY DEF OnlyAt, EarlierRun
  <2>2. UnseenAttempts(r, w)
    BY <1>1 DEF RunParts
  <2> QED
    BY <2>1, <2>2 DEF UnseenAttempts, Alike, OnlyAt
<1> QED
  BY <1>1, <1>3, <1>4, <1>5, <1>6, <1>7, <1>8 DEF RunParts

(* What does not depend on the Applies: a Plan goes on. *)
LEMMA PlanChanged ==
  ASSUME NEW s, NEW v, NEW r, NEW w, NEW a, NEW i, NEW k, NEW n, NEW p,
         StackInv(s, v, r, w, a, i, k), OnlyAt(r, n, p),
         EarlierRun(r[p], n[p]), RunFacts(n[p]),
         n[p].apply = r[p].apply,
         n[p].outcome = "NoChange" =>
           r[p].outcome = "NoChange" \/ i = Goal(n[p]),
         n[p].approved =>
           r[p].approved \/ s.reason # "InfrastructureRemoved"
  PROVE  StackInv(s, v, n, w, a, i, k)
<1>1. /\ Types(s, v, r, w, a, i, k) /\ StackParts(s, v, k)
      /\ RunParts(s, v, r, w, k) /\ InfraParts(s, v, r, w, a, i)
  BY DEF StackInv
<1>2. DOMAIN w \subseteq DOMAIN r
  BY PlansAreOfThePast
<1>3. RunParts(s, v, n, w, k) /\ Types(s, v, n, w, a, i, k)
  <2>1. ApplySeen(r, w) /\ p \in DOMAIN r
    BY <1>1 DEF RunParts, OnlyAt
  <2>2. /\ n[p].apply # None => p \in DOMAIN w
        /\ n[p].apply \in Ran => w[p].apply # None
    BY <2>1 DEF ApplySeen
  <2> QED
    BY <2>2, RunGoesOn
<1>4. /\ DOMAIN n = DOMAIN r /\ p \in DOMAIN r
      /\ \A q \in DOMAIN r :
           /\ n[q].apply = r[q].apply /\ n[q].gen = r[q].gen
           /\ n[q].mode = r[q].mode
           /\ r[q].approved => n[q].approved
           /\ r[q].outcome \in {"NoChange", "Superseded"} =>
                n[q].outcome \in {"NoChange", "Superseded"}
  BY DEF OnlyAt, EarlierRun
<1>5. OneApply(n, w, a)
  BY <1>1, <1>2, <1>4 DEF InfraParts, OneApply
<1>6. Alone(s, n, a)
  BY <1>1, <1>4 DEF InfraParts, Alone
<1>7. Emptied(s, n, i)
  <2> SUFFICES ASSUME NEW q \in DOMAIN n, n[q].mode = "Destroy",
                      n[q].gen = s.gen,
                      n[q].outcome = "NoChange" \/ n[q].apply = "Succeeded"
               PROVE  i = Absent
    BY DEF Emptied
  <2>1. \/ r[q].outcome = "NoChange" \/ r[q].apply = "Succeeded"
        \/ q = p /\ i = Goal(n[p])
    BY <1>4 DEF OnlyAt
  <2>2. CASE q = p /\ i = Goal(n[p])
    BY <2>2 DEF Goal
  <2>3. CASE r[q].outcome = "NoChange" \/ r[q].apply = "Succeeded"
    BY <1>1, <1>4, <2>3 DEF InfraParts, Emptied
  <2> QED
    BY <2>1, <2>2, <2>3
<1>8. Built(n, i)
  BY <1>1, <1>4 DEF InfraParts, Built
<1>9. Untouched(s, n)
  <2>1. CASE r = <<>>
    BY <2>1, <1>4
  <2>2. CASE r # <<>>
    BY <2>2, <1>1 DEF InfraParts, Untouched
  <2> QED
    BY <2>1, <2>2
<1>10. ASSUME s.reason = "InfrastructureRemoved"
       PROVE  Gone(s, v, n, w, a, i)
  <2>1. Gone(s, v, r, w, a, i)
    BY <1>1, <1>10 DEF InfraParts
  <2>2. ASSUME NEW q \in DOMAIN n, n[q].approved
        PROVE  Dead(q, s, v, n, w)
    <3>1. q \in DOMAIN r /\ r[q].approved
      BY <1>4, <1>10, <2>2 DEF OnlyAt
    <3>2. Dead(q, s, v, r, w)
      BY <2>1, <3>1 DEF Gone
    <3> QED
      BY <3>1, <3>2, <1>4 DEF Dead, Alike
  <2>3. s.latest # 0 => s.latest \in DOMAIN r
    BY <1>1, RunsAreNumbered DEF Types
  <2>4. s.latest # 0 =>
          /\ n[s.latest].gen = r[s.latest].gen
          /\ n[s.latest].mode = r[s.latest].mode
          /\ r[s.latest].approved => n[s.latest].approved
          /\ r[s.latest].outcome \in {"NoChange", "Superseded"} =>
               n[s.latest].outcome \in {"NoChange", "Superseded"}
    BY <1>4, <2>3
  <2>5. s.latest # 0 =>
       /\ n[s.latest].gen <= s.observed
       /\ n[s.latest].mode = "Destroy" /\ n[s.latest].gen = s.observed =>
            \/ n[s.latest].approved
            \/ n[s.latest].outcome \in {"NoChange", "Superseded"}
    BY <2>1, <2>4 DEF Gone
  <2>6. \A q \in DOMAIN n : n[q].apply # "Started"
    BY <2>1, <1>4 DEF Gone
  <2> QED
    BY <2>1, <2>2, <2>5, <2>6 DEF Gone
<1>11. InfraParts(s, v, n, w, a, i)
  BY <1>1, <1>5, <1>6, <1>7, <1>8, <1>9, <1>10 DEF InfraParts
<1> QED
  BY <1>1, <1>3, <1>11 DEF StackInv

-----------------------------------------------------------------------------
(* An Apply goes on. *)

(* A Plan that can still be applied belongs to a stack that is not gone.     *)
LEMMA LiveIsNotGone ==
  ASSUME NEW s, NEW v, NEW r, NEW w, NEW a, NEW i, NEW k, NEW p \in DOMAIN r,
         StackInv(s, v, r, w, a, i, k),
         r[p].approved, r[p].apply \in {None, "Created"}, r[p].gen = v.gen,
         r[p].mode = "Reconcile" => ~(v.fence /\ Leaves(v)),
         r[p].apply = None => \A q \in DOMAIN w : ~(p < q /\ Alike(w[q], r[p]))
  PROVE  s.reason # "InfrastructureRemoved"
<1> SUFFICES ASSUME s.reason = "InfrastructureRemoved" PROVE FALSE
  OBVIOUS
<1>1. Gone(s, v, r, w, a, i)
  BY DEF StackInv, InfraParts
<1>2. Dead(p, s, v, r, w)
  BY <1>1 DEF Gone
<1>3. v.gen \in Nat /\ s.observed \in Nat
  BY PlansAreOfThePast, StackTypes DEF StackInv, Types
<1>4. ~(r[p].gen < v.gen)
  BY <1>3
<1>5. r[p].mode = "Reconcile" /\ r[p].gen <= s.observed
  BY <1>2, <1>4 DEF Dead
<1>6. v.gen <= s.observed /\ s.observed <= v.gen
  BY <1>1, <1>5 DEF Gone
<1>7. v.gen = s.observed
  BY <1>3, <1>6
<1> QED
  BY <1>1, <1>5, <1>7 DEF Gone

(* The Apply of p changes, and nothing else of it. *)
OnlyApply(r, n, p) ==
  /\ OnlyAt(r, n, p)
  /\ n[p].gen = r[p].gen /\ n[p].mode = r[p].mode /\ n[p].input = r[p].input
  /\ n[p].outcome = r[p].outcome /\ n[p].base = r[p].base
  /\ n[p].approved = r[p].approved

(* What an Apply does leaves the Plans as they are. *)
LEMMA PlansStay ==
  ASSUME NEW r, NEW n, NEW p, OnlyApply(r, n, p)
  PROVE  /\ DOMAIN n = DOMAIN r /\ p \in DOMAIN r /\ (n = <<>> => r = <<>>)
         /\ \A q \in DOMAIN r :
              /\ n[q].gen = r[q].gen /\ n[q].mode = r[q].mode
              /\ n[q].outcome = r[q].outcome /\ n[q].base = r[q].base
              /\ n[q].approved = r[q].approved
              /\ q # p => n[q].apply = r[q].apply
  BY DEF OnlyApply, OnlyAt

(* The Apply of the last attempt that is seen is created. *)
LEMMA ApplyCreated ==
  ASSUME NEW s, NEW v, NEW r, NEW w, NEW a, NEW i, NEW k, NEW n, NEW p,
         StackInv(s, v, r, w, a, i, k), OnlyApply(r, n, p),
         r[p].apply = None, n[p].apply = "Created", r[p].approved,
         p \in DOMAIN w, s.reason # "InfrastructureRemoved",
         \A q \in DOMAIN w : ~(p < q /\ Alike(w[p], w[q]))
  PROVE  StackInv(s, v, n, w, a, i, k)
<1>1. /\ Types(s, v, r, w, a, i, k) /\ StackParts(s, v, k)
      /\ RunParts(s, v, r, w, k) /\ InfraParts(s, v, r, w, a, i)
  BY DEF StackInv
<1>2. /\ DOMAIN n = DOMAIN r /\ p \in DOMAIN r /\ (n = <<>> => r = <<>>)
      /\ \A q \in DOMAIN r :
           /\ n[q].gen = r[q].gen /\ n[q].mode = r[q].mode
           /\ n[q].outcome = r[q].outcome
           /\ q # p => n[q].apply = r[q].apply
  BY PlansStay
<1>3. RunParts(s, v, n, w, k) /\ Types(s, v, n, w, a, i, k)
  <2>1. EarlierRun(r[p], n[p])
    BY DEF OnlyApply, EarlierRun, Ran, Ended, None
  <2>2. RunFacts(n[p])
    <3>1. RunFacts(r[p])
      BY <1>1, <1>2 DEF RunParts
    <3> QED
      BY <3>1 DEF OnlyApply, RunFacts, Goal
  <2>3. n[p].apply \notin Ran
    BY DEF Ran
  <2> QED
    BY <2>1, <2>2, <2>3, RunGoesOn DEF OnlyApply
<1>4. DOMAIN w \subseteq DOMAIN r
  BY PlansAreOfThePast
<1>5. a # p
  BY <1>1 DEF InfraParts, OneApply, None, Types
<1>6. OneApply(n, w, a)
  BY <1>1, <1>2, <1>4, <1>5 DEF InfraParts, OneApply
<1>7. Alone(s, n, a)
  BY <1>1, <1>2 DEF InfraParts, Alone
<1>8. Emptied(s, n, i) /\ Emptied(s, w, i)
  BY <1>1, <1>2 DEF InfraParts, Emptied
<1>9. Built(n, i)
  <2>1. CASE i = Absent
    BY <2>1 DEF Built
  <2>2. CASE i # Absent
    <3>1. PICK q \in DOMAIN r : r[q].apply \in {"Succeeded", "Indeterminate"}
      BY <1>1, <2>2 DEF InfraParts, Built
    <3>2. q # p
      BY <3>1 DEF None
    <3> QED
      BY <1>2, <3>1, <3>2 DEF Built
  <2> QED
    BY <2>1, <2>2
<1>10. Untouched(s, n)
  BY <1>1, <1>2 DEF InfraParts, Untouched, OnlyApply, OnlyAt
<1> QED
  BY <1>1, <1>3, <1>6, <1>7, <1>8, <1>9, <1>10 DEF StackInv, InfraParts

(* An Apply that was created is rejected. *)
LEMMA ApplyRejected ==
  ASSUME NEW s, NEW v, NEW r, NEW w, NEW i, NEW k, NEW n, NEW p,
         StackInv(s, v, r, w, 0, i, k), OnlyApply(r, n, p),
         r[p].apply = "Created", n[p].apply = "Rejected", p \in DOMAIN w
  PROVE  StackInv(s, v, n, w, 0, i, k)
<1>1. /\ Types(s, v, r, w, 0, i, k) /\ StackParts(s, v, k)
      /\ RunParts(s, v, r, w, k) /\ InfraParts(s, v, r, w, 0, i)
  BY DEF StackInv
<1>2. /\ DOMAIN n = DOMAIN r /\ p \in DOMAIN r /\ (n = <<>> => r = <<>>)
      /\ \A q \in DOMAIN r :
           /\ n[q].gen = r[q].gen /\ n[q].mode = r[q].mode
           /\ n[q].outcome = r[q].outcome /\ n[q].approved = r[q].approved
           /\ q # p => n[q].apply = r[q].apply
  BY PlansStay
<1>3. RunParts(s, v, n, w, k) /\ Types(s, v, n, w, 0, i, k)
  <2>1. EarlierRun(r[p], n[p])
    BY DEF OnlyApply, EarlierRun, Ran, Ended, None
  <2>2. RunFacts(n[p])
    <3>1. RunFacts(r[p])
      BY <1>1, <1>2 DEF RunParts
    <3> QED
      BY <3>1 DEF OnlyApply, RunFacts, Goal, None
  <2>3. n[p].apply \notin Ran
    BY DEF Ran
  <2>4. ASSUME NEW q \in DOMAIN w, p < q /\ Alike(w[p], w[q]) /\ w[p].apply = None
        PROVE  FALSE
    BY <1>1, <2>4 DEF RunParts, LaterAttempts, None
  <2> QED
    BY <2>1, <2>2, <2>3, <2>4, RunGoesOn DEF OnlyApply
<1>4. DOMAIN w \subseteq DOMAIN r
  BY PlansAreOfThePast
<1>6. OneApply(n, w, 0)
  BY <1>1, <1>2, <1>4 DEF InfraParts, OneApply
<1>7. Alone(s, n, 0)
  BY <1>1, <1>2 DEF InfraParts, Alone
<1>8. Emptied(s, n, i) /\ Emptied(s, w, i)
  BY <1>1, <1>2 DEF InfraParts, Emptied
<1>9. Built(n, i)
  <2>1. CASE i = Absent
    BY <2>1 DEF Built
  <2>2. CASE i # Absent
    <3>1. PICK q \in DOMAIN r : r[q].apply \in {"Succeeded", "Indeterminate"}
      BY <1>1, <2>2 DEF InfraParts, Built
    <3>2. q # p
      BY <3>1
    <3> QED
      BY <1>2, <3>1, <3>2 DEF Built
  <2> QED
    BY <2>1, <2>2
<1>10. Untouched(s, n)
  BY <1>1, <1>2 DEF InfraParts, Untouched, OnlyApply, OnlyAt
<1>11. ASSUME s.reason = "InfrastructureRemoved"
       PROVE  Gone(s, v, n, w, 0, i)
  <2>1. Gone(s, v, r, w, 0, i)
    BY <1>1, <1>11 DEF InfraParts
  <2>2. ASSUME NEW q \in DOMAIN n, n[q].approved
        PROVE  Dead(q, s, v, n, w)
    <3>1. q \in DOMAIN r /\ Dead(q, s, v, r, w)
      BY <1>2, <2>1, <2>2 DEF Gone
    <3>2. CASE q = p
      BY <3>2 DEF Dead, None
    <3>3. CASE q # p
      BY <3>1, <3>3, <1>2 DEF Dead, Alike
    <3> QED
      BY <3>2, <3>3
  <2>3. s.latest # 0 => s.latest \in DOMAIN r
    BY <1>1, RunsAreNumbered DEF Types
  <2>4. \A q \in DOMAIN n : n[q].apply # "Started"
    BY <2>1, <1>2 DEF Gone
  <2>5. s.latest # 0 =>
       /\ n[s.latest].gen <= s.observed
       /\ n[s.latest].mode = "Destroy" /\ n[s.latest].gen = s.observed =>
            \/ n[s.latest].approved
            \/ n[s.latest].outcome \in {"NoChange", "Superseded"}
    BY <2>1, <2>3, <1>2 DEF Gone
  <2> QED
    BY <2>1, <2>2, <2>4, <2>5 DEF Gone
<1> QED
  BY <1>1, <1>3, <1>6, <1>7, <1>8, <1>9, <1>10, <1>11 DEF StackInv, InfraParts

(* An Apply that is seen passes admission. *)
LEMMA ApplyAdmitted ==
  ASSUME NEW s, NEW v, NEW r, NEW w, NEW i, NEW k, NEW p,
         StackInv(s, v, r, w, 0, i, k),
         p \in DOMAIN w, w[p].apply = "Created", r[p].apply = "Created",
         \A q \in DOMAIN r : r[q].apply # "Started",
         r[p].gen = v.gen, r[p].mode = "Reconcile" => ~v.fence
  PROVE  StackInv(s, v, r, w, p, i, k)
<1>1. /\ Types(s, v, r, w, 0, i, k) /\ StackParts(s, v, k)
      /\ RunParts(s, v, r, w, k) /\ InfraParts(s, v, r, w, 0, i)
  BY DEF StackInv
<1>2. p \in DOMAIN r
  BY PlansAreOfThePast
<1>3. Types(s, v, r, w, p, i, k)
  <2>1. p \in 0..Len(r)
    BY <1>1, <1>2, RunsAreNumbered DEF Types
  <2> QED
    BY <1>1, <2>1 DEF Types
<1>4. OneApply(r, w, p)
  BY <1>1 DEF InfraParts, OneApply
<1>5. Alone(s, r, p)
  <2> SUFFICES ASSUME NEW d \in DOMAIN r, NEW q \in DOMAIN r,
                      r[d].mode = "Destroy", r[d].gen = s.gen,
                      r[q].mode = "Reconcile", q = p
               PROVE  FALSE
    BY <1>1 DEF InfraParts, Alone
  <2>1. /\ r[d].gen <= v.gen /\ v.gen <= s.gen
        /\ v.gen \in Nat /\ s.gen \in Nat
    BY PlansAreOfThePast
  <2>2. r[d].gen = v.gen
    BY <2>1
  <2>3. v.fence
    BY <1>1, <2>2 DEF RunParts, MadeFor
  <2> QED
    BY <2>3
<1>6. s.reason # "InfrastructureRemoved"
  <2>1. RunFacts(r[p])
    BY <1>1, <1>2 DEF RunParts
  <2>2. r[p].approved /\ r[p].apply # None
    BY <2>1 DEF RunFacts, None
  <2> QED
    BY <1>2, <2>2, LiveIsNotGone
<1> QED
  BY <1>1, <1>3, <1>4, <1>5, <1>6 DEF StackInv, InfraParts

(* The manager forgets which Apply it was about to start. *)
LEMMA AdmissionForgotten ==
  ASSUME NEW s, NEW v, NEW r, NEW w, NEW a, NEW i, NEW k,
         StackInv(s, v, r, w, a, i, k)
  PROVE  StackInv(s, v, r, w, 0, i, k)
<1>1. /\ Types(s, v, r, w, a, i, k) /\ StackParts(s, v, k)
      /\ RunParts(s, v, r, w, k) /\ InfraParts(s, v, r, w, a, i)
  BY DEF StackInv
<1>2. r \in Seq(Run) /\ Len(r) \in Nat
  BY <1>1, RunsAreNumbered DEF Types
<1>3. Types(s, v, r, w, 0, i, k)
  <2>1. 0 \in 0..Len(r)
    BY <1>2
  <2> QED
    BY <1>1, <2>1 DEF Types
<1>4. OneApply(r, w, 0)
  BY <1>1 DEF InfraParts, OneApply
<1>5. Alone(s, r, 0)
  <2>1. \A q \in DOMAIN r : q # 0
    BY <1>2, RunsAreNumbered
  <2> QED
    BY <1>1, <2>1 DEF InfraParts, Alone
<1>6. Gone(s, v, r, w, a, i) => Gone(s, v, r, w, 0, i)
  BY DEF Gone
<1> QED
  BY <1>1, <1>3, <1>4, <1>5, <1>6 DEF StackInv, InfraParts

(* The Apply that passed admission is started. *)
LEMMA ApplyStarted ==
  ASSUME NEW s, NEW v, NEW r, NEW w, NEW i, NEW k, NEW n, NEW p,
         StackInv(s, v, r, w, p, i, k), OnlyApply(r, n, p),
         n[p].apply = "Started"
  PROVE  StackInv(s, v, n, w, 0, i, k)
<1>1. /\ Types(s, v, r, w, p, i, k) /\ StackParts(s, v, k)
      /\ RunParts(s, v, r, w, k) /\ InfraParts(s, v, r, w, p, i)
  BY DEF StackInv
<1>2. /\ DOMAIN n = DOMAIN r /\ p \in DOMAIN r /\ (n = <<>> => r = <<>>)
      /\ \A q \in DOMAIN r :
           /\ n[q].gen = r[q].gen /\ n[q].mode = r[q].mode
           /\ n[q].outcome = r[q].outcome
           /\ q # p => n[q].apply = r[q].apply
  BY PlansStay
<1>3. p # 0 /\ p \in Nat
  BY <1>1, <1>2, RunsAreNumbered DEF Types
<1>4. /\ p \in DOMAIN w /\ r[p].apply = "Created" /\ w[p].apply = "Created"
      /\ \A q \in DOMAIN r : r[q].apply # "Started"
  BY <1>1, <1>3 DEF InfraParts, OneApply
<1>5. StackInv(s, v, r, w, 0, i, k)
  BY AdmissionForgotten
<1>6. Types(s, v, r, w, 0, i, k) /\ InfraParts(s, v, r, w, 0, i)
  BY <1>5 DEF StackInv
<1>7. RunParts(s, v, n, w, k) /\ Types(s, v, n, w, 0, i, k)
  <2>1. EarlierRun(r[p], n[p])
    BY <1>4 DEF OnlyApply, EarlierRun, Ran, Ended, None
  <2>2. RunFacts(n[p])
    <3>1. RunFacts(r[p])
      BY <1>1, <1>2 DEF RunParts
    <3> QED
      BY <1>4, <3>1 DEF OnlyApply, RunFacts, Goal, None
  <2>3. w[p].apply # None
    BY <1>4 DEF None
  <2> QED
    BY <1>4, <1>5, <2>1, <2>2, <2>3, RunGoesOn DEF OnlyApply
<1>8. OneApply(n, w, 0)
  <2> SUFFICES ASSUME NEW x \in DOMAIN n, NEW y \in DOMAIN n,
                      n[x].apply = "Started", n[y].apply = "Started"
               PROVE  x = y
    BY DEF OneApply
  <2>1. x = p /\ y = p
    BY <1>2, <1>4
  <2> QED
    BY <2>1
<1>9. Alone(s, n, 0)
  <2> SUFFICES ASSUME NEW d \in DOMAIN n, NEW q \in DOMAIN n,
                      n[d].mode = "Destroy", n[d].gen = s.gen,
                      n[q].mode = "Reconcile"
               PROVE  n[q].apply # "Started" /\ 0 # q
    BY DEF Alone
  <2>1. /\ r[d].mode = "Destroy" /\ r[d].gen = s.gen
        /\ r[q].mode = "Reconcile" /\ d \in DOMAIN r /\ q \in DOMAIN r
    BY <1>2
  <2>2. r[q].apply # "Started" /\ p # q /\ 0 # q
    BY <1>1, <1>6, <2>1 DEF InfraParts, Alone
  <2> QED
    BY <1>2, <2>1, <2>2
<1>10. Emptied(s, n, i) /\ Emptied(s, w, i)
  BY <1>1, <1>2 DEF InfraParts, Emptied
<1>11. Built(n, i)
  <2>1. CASE i = Absent
    BY <2>1 DEF Built
  <2>2. CASE i # Absent
    <3>1. PICK q \in DOMAIN r : r[q].apply \in {"Succeeded", "Indeterminate"}
      BY <1>1, <2>2 DEF InfraParts, Built
    <3>2. q # p
      BY <1>4, <3>1
    <3> QED
      BY <1>2, <3>1, <3>2 DEF Built
  <2> QED
    BY <2>1, <2>2
<1>12. Untouched(s, n)
  BY <1>1, <1>2 DEF InfraParts, Untouched, OnlyApply, OnlyAt
<1>13. s.reason # "InfrastructureRemoved"
  BY <1>1, <1>3 DEF InfraParts, Gone
<1> QED
  BY <1>1, <1>7, <1>8, <1>9, <1>10, <1>11, <1>12, <1>13
  DEF StackInv, InfraParts

(* What an Apply leaves behind when it ends. *)
Leftover(run, x, i, j) ==
  IF x = "Succeeded" THEN i = run.base /\ j = Goal(run)
  ELSE j \in {i} \cup (IF i = run.base THEN {Partial, Goal(run)} ELSE {})

(* A running Apply ends. *)
LEMMA ApplyEnded ==
  ASSUME NEW s, NEW v, NEW r, NEW w, NEW a, NEW i, NEW k, NEW n, NEW p, NEW j,
         StackInv(s, v, r, w, a, i, k), OnlyApply(r, n, p),
         r[p].apply = "Started", n[p].apply \in {"Succeeded", "Indeterminate"},
         Leftover(r[p], n[p].apply, i, j)
  PROVE  StackInv(s, v, n, w, a, j, k)
<1>1. /\ Types(s, v, r, w, a, i, k) /\ StackParts(s, v, k)
      /\ RunParts(s, v, r, w, k) /\ InfraParts(s, v, r, w, a, i)
  BY DEF StackInv
<1>2. /\ DOMAIN n = DOMAIN r /\ p \in DOMAIN r /\ (n = <<>> => r = <<>>)
      /\ \A q \in DOMAIN r :
           /\ n[q].gen = r[q].gen /\ n[q].mode = r[q].mode
           /\ n[q].outcome = r[q].outcome
           /\ q # p => n[q].apply = r[q].apply
  BY PlansStay
<1>3. r[p] \in Run
  BY <1>1, <1>2, RunsAreNumbered DEF Types
<1>4. p \in DOMAIN w /\ w[p].apply # None
  BY <1>1, <1>2 DEF RunParts, ApplySeen, Ran
<1>5. RunFacts(r[p])
  BY <1>1, <1>2 DEF RunParts
<1>6. r[p].base # Goal(r[p])
  BY <1>5 DEF RunFacts, None
<1>7. j \in Inputs \cup {Absent, Partial}
  <2>1. Goal(r[p]) \in Inputs \cup {Absent, Partial}
    BY <1>3, RunTypes DEF Goal
  <2>2. i \in Inputs \cup {Absent, Partial}
    BY <1>1 DEF Types
  <2> QED
    BY <2>1, <2>2 DEF Leftover
<1>8. RunParts(s, v, n, w, k) /\ Types(s, v, n, w, a, j, k)
  <2>1. EarlierRun(r[p], n[p])
    BY DEF OnlyApply, EarlierRun, Ran, Ended, None
  <2>2. RunFacts(n[p])
    BY <1>5 DEF OnlyApply, RunFacts, Goal, None
  <2>3. ASSUME NEW q \in DOMAIN w, p < q /\ Alike(w[p], w[q]) /\ w[p].apply = None
        PROVE  n[p].apply = r[p].apply
    BY <1>4, <2>3
  <2>4. RunParts(s, v, n, w, k) /\ Types(s, v, n, w, a, i, k)
    BY <1>4, <2>1, <2>2, <2>3, RunGoesOn DEF OnlyApply
  <2> QED
    BY <1>7, <2>4 DEF Types
<1>9. a = 0
  BY <1>1, <1>2 DEF InfraParts, OneApply
<1>10. OneApply(n, w, a)
  <2>1. \A q \in DOMAIN r : r[q].apply = "Started" => q = p
    BY <1>1, <1>2 DEF InfraParts, OneApply
  <2>2. \A q \in DOMAIN n : n[q].apply # "Started"
    BY <1>2, <2>1
  <2> QED
    BY <1>9, <2>2 DEF OneApply
<1>11. Alone(s, n, a)
  BY <1>1, <1>2 DEF InfraParts, Alone
<1>12. ASSUME NEW d \in DOMAIN r, r[d].mode = "Destroy", r[d].gen = s.gen
       PROVE  /\ r[p].mode = "Destroy" /\ Goal(r[p]) = Absent
              /\ n[p].apply = "Succeeded" => j = Absent
              /\ i = Absent => j = Absent
  <2>1. r[p].mode # "Reconcile"
    BY <1>1, <1>2, <1>12 DEF InfraParts, Alone
  <2>2. r[p].mode = "Destroy" /\ Goal(r[p]) = Absent
    BY <1>3, <2>1, RunTypes DEF Goal
  <2> QED
    BY <1>6, <2>2 DEF Leftover
<1>13. Emptied(s, n, j)
  <2> SUFFICES ASSUME NEW q \in DOMAIN n, n[q].mode = "Destroy",
                      n[q].gen = s.gen,
                      n[q].outcome = "NoChange" \/ n[q].apply = "Succeeded"
               PROVE  j = Absent
    BY DEF Emptied
  <2>1. q \in DOMAIN r /\ r[q].mode = "Destroy" /\ r[q].gen = s.gen
    BY <1>2
  <2>2. \/ r[q].outcome = "NoChange" \/ r[q].apply = "Succeeded"
        \/ n[p].apply = "Succeeded"
    BY <1>2
  <2>3. CASE n[p].apply = "Succeeded"
    BY <1>12, <2>1, <2>3
  <2>4. CASE r[q].outcome = "NoChange" \/ r[q].apply = "Succeeded"
    <3>1. i = Absent
      BY <1>1, <2>1, <2>4 DEF InfraParts, Emptied
    <3> QED
      BY <1>12, <2>1, <3>1
  <2> QED
    BY <2>2, <2>3, <2>4
<1>14. Emptied(s, w, j)
  <2> SUFFICES ASSUME NEW q \in DOMAIN w, w[q].mode = "Destroy",
                      w[q].gen = s.gen,
                      w[q].outcome = "NoChange" \/ w[q].apply = "Succeeded"
               PROVE  j = Absent
    BY DEF Emptied
  <2>1. q \in DOMAIN r /\ r[q].mode = "Destroy" /\ r[q].gen = s.gen
    BY PlansAreOfThePast
  <2>2. i = Absent
    BY <1>1 DEF InfraParts, Emptied
  <2> QED
    BY <1>12, <2>1, <2>2
<1>15. Built(n, j)
  BY <1>2 DEF Built
<1>16. Untouched(s, n)
  BY <1>1, <1>2 DEF InfraParts, Untouched, OnlyApply, OnlyAt
<1>17. s.reason # "InfrastructureRemoved"
  BY <1>1, <1>2 DEF InfraParts, Gone
<1> QED
  BY <1>1, <1>8, <1>10, <1>11, <1>13, <1>14, <1>15, <1>16, <1>17
  DEF StackInv, InfraParts

-----------------------------------------------------------------------------
(* A Plan is made. *)

(* One more run at the end. *)
LEMMA OneMore ==
  ASSUME NEW r \in Seq(Run), NEW x \in Run
  PROVE  /\ Append(r, x) \in Seq(Run) /\ Len(Append(r, x)) = Len(r) + 1
         /\ DOMAIN Append(r, x) = DOMAIN r \cup {Len(r) + 1}
         /\ Len(r) + 1 \notin DOMAIN r
         /\ \A q \in DOMAIN r : Append(r, x)[q] = r[q]
         /\ Append(r, x)[Len(r) + 1] = x
<1>1. Len(r) \in Nat /\ DOMAIN r = 1..Len(r)
  BY RunsAreNumbered
<1>2. Append(r, x) \in Seq(Run) /\ Len(Append(r, x)) = Len(r) + 1
  OBVIOUS
<1>3. DOMAIN Append(r, x) = 1..(Len(r) + 1)
  BY <1>2, RunsAreNumbered
<1>4. 1..(Len(r) + 1) = 1..Len(r) \cup {Len(r) + 1}
  BY <1>1
<1>5. Len(r) + 1 \notin 1..Len(r)
  BY <1>1
<1> QED
  BY <1>1, <1>2, <1>3, <1>4, <1>5

(* What is seen of the runs before a Destroy tells that no Apply is under    *)
(* way, and which have ended.                                                *)
LEMMA SettledInfra ==
  ASSUME NEW s, NEW v, NEW r, NEW w, NEW a, NEW i, NEW k,
         StackInv(s, v, r, w, a, i, k),
         \A p \in DOMAIN w :
           w[p].apply \notin {"Indeterminate", "Created", "Started"}
  PROVE  /\ a = 0
         /\ \A p \in DOMAIN r :
              /\ r[p].apply \notin {"Started", "Indeterminate"}
              /\ r[p].apply = "Succeeded" =>
                   p \in DOMAIN w /\ w[p].apply = "Succeeded"
              /\ r[p].apply = "Created" => p \in DOMAIN w /\ w[p].apply = None
<1>1. /\ Types(s, v, r, w, a, i, k)
      /\ RunParts(s, v, r, w, k) /\ InfraParts(s, v, r, w, a, i)
  BY DEF StackInv
<1>2. a = 0
  BY <1>1 DEF InfraParts, OneApply
<1>3. ASSUME NEW p \in DOMAIN r
      PROVE  /\ r[p].apply \notin {"Started", "Indeterminate"}
             /\ r[p].apply = "Succeeded" =>
                  p \in DOMAIN w /\ w[p].apply = "Succeeded"
             /\ r[p].apply = "Created" => p \in DOMAIN w /\ w[p].apply = None
  <2>1. CASE p \notin DOMAIN w
    <3>1. r[p].apply = None
      BY <1>1, <1>3, <2>1 DEF RunParts, ApplySeen
    <3> QED
      BY <3>1 DEF None
  <2>2. CASE p \in DOMAIN w
    <3>1. w[p].apply \in Ended => r[p].apply = w[p].apply
      BY <1>1, <2>2 DEF RunParts, EarlierRuns, EarlierRun
    <3>2. r[p].apply \in Ran => w[p].apply # None
      BY <1>1, <1>3 DEF RunParts, ApplySeen
    <3>3. w[p] \in Run
      BY <1>1, <2>2, RunsAreNumbered DEF Types
    <3>4. w[p].apply \in {None, "Succeeded", "Rejected"}
      BY <2>2, <3>3, RunTypes
    <3> QED
      BY <2>2, <3>1, <3>2, <3>4 DEF Ran, Ended, None
  <2> QED
    BY <2>1, <2>2
<1> QED
  BY <1>2, <1>3

(* Counting upwards from 0. *)
LEMMA Upwards ==
  /\ \A y \in Nat : \A q \in 0..y : q \in 0..(y + 1) /\ q # y + 1
  /\ \A y, z \in Nat : y <= z => y <= z + 1
  /\ \A y \in Nat : \A q \in 0..y : q # 0 => q \in 1..y
  OBVIOUS

(* A Plan is made for the stack as it is seen. *)
LEMMA PlanMade ==
  ASSUME NEW s, NEW v, NEW r, NEW w, NEW a, NEW i, NEW k, NEW x \in Run,
         StackInv(s, v, r, w, a, i, k),
         x.outcome = "", ~x.approved, x.apply = None,
         MadeFor(x, s, v, k), v.finalizer,
         x.mode = "Destroy" =>
           a = 0 /\ \A p \in DOMAIN r : r[p].apply # "Started",
         \A p \in DOMAIN w :
           /\ Alike(w[p], x) /\ \A q \in DOMAIN w : Alike(w[q], x) => q <= p
           => w[p].outcome = "Superseded"
  PROVE  StackInv(s, v, Append(r, x), w, a, i, k)
<1>1. /\ Types(s, v, r, w, a, i, k) /\ StackParts(s, v, k)
      /\ RunParts(s, v, r, w, k) /\ InfraParts(s, v, r, w, a, i)
  BY DEF StackInv
<1> DEFINE n == Append(r, x)
<1> DEFINE l == Len(r) + 1
<1>2. /\ n \in Seq(Run) /\ Len(n) = l /\ DOMAIN n = DOMAIN r \cup {l}
      /\ l \notin DOMAIN r /\ n[l] = x
      /\ \A q \in DOMAIN r : n[q] = r[q]
  BY <1>1, OneMore DEF Types
<1>3. Len(r) \in Nat /\ DOMAIN r = 1..Len(r)
  BY <1>1, RunsAreNumbered DEF Types
<1>4. DOMAIN w \subseteq DOMAIN r
  BY PlansAreOfThePast
<1>5. \A q \in 0..Len(r) : q \in 0..l /\ q # l
  BY <1>3, Upwards
<1>6. Len(w) \in Nat /\ Len(w) <= Len(r)
  BY <1>1, RunsAreNumbered DEF Types, RunParts, EarlierRuns
<1>7. Len(w) <= l
  BY <1>3, <1>6, Upwards
<1> HIDE DEF n, l
<1>8. Types(s, v, n, w, a, i, k)
  BY <1>1, <1>2, <1>5 DEF Types
<1>9. EarlierRuns(w, n)
  BY <1>1, <1>2, <1>4, <1>7 DEF RunParts, EarlierRuns
<1>10. \A q \in DOMAIN n : RunFacts(n[q]) /\ MadeFor(n[q], s, v, k)
  <2>1. RunFacts(x)
    BY DEF RunFacts
  <2> QED
    BY <1>1, <1>2, <2>1 DEF RunParts
<1>11. ApplySeen(n, w)
  <2>1. x.apply = None /\ x.apply \notin Ran
    BY DEF Ran, None
  <2> QED
    BY <1>1, <1>2, <2>1 DEF RunParts, ApplySeen
<1>12. LaterAttempts(n, w)
  BY <1>1, <1>2, <1>4 DEF RunParts, LaterAttempts
<1>13. UnseenAttempts(n, w)
  <2> SUFFICES ASSUME NEW q \in DOMAIN n \ DOMAIN w, NEW p \in DOMAIN w,
                      Alike(w[p], n[q]),
                      \A p2 \in DOMAIN w : Alike(w[p2], n[q]) => p2 <= p
               PROVE  w[p].outcome = "Superseded"
    BY DEF UnseenAttempts
  <2>1. CASE q = l
    BY <1>2, <2>1
  <2>2. CASE q # l
    <3>1. q \in DOMAIN r \ DOMAIN w /\ n[q] = r[q]
      BY <1>2, <2>2
    <3> QED
      BY <1>1, <3>1 DEF RunParts, UnseenAttempts
  <2> QED
    BY <2>1, <2>2
<1>14. OneApply(n, w, a)
  <2>1. x.apply # "Started"
    BY DEF None
  <2>2. \A q \in DOMAIN n :
          n[q].apply = "Started" => q \in DOMAIN r /\ r[q].apply = "Started"
    BY <1>2, <2>1
  <2>3. a # 0 => n[a].apply = r[a].apply
    BY <1>1, <1>2, <1>4 DEF InfraParts, OneApply
  <2> QED
    BY <1>1, <2>2, <2>3 DEF InfraParts, OneApply
<1>15. Alone(s, n, a)
  <2> SUFFICES ASSUME NEW d \in DOMAIN n, NEW q \in DOMAIN n,
                      n[d].mode = "Destroy", n[d].gen = s.gen,
                      n[q].mode = "Reconcile"
               PROVE  n[q].apply # "Started" /\ a # q
    BY DEF Alone
  <2>1. CASE q = l
    <3>1. a # l
      BY <1>1, <1>5 DEF Types
    <3> QED
      BY <1>2, <2>1, <3>1 DEF None
  <2>2. CASE q # l /\ d # l
    BY <1>1, <1>2, <2>2 DEF InfraParts, Alone
  <2>3. CASE q # l /\ d = l
    <3>1. x.mode = "Destroy" /\ q \in DOMAIN r /\ n[q] = r[q]
      BY <1>2, <2>3
    <3>2. a = 0 /\ r[q].apply # "Started"
      BY <3>1
    <3>3. q # 0
      <4>1. r \in Seq(Run)
        BY <1>1 DEF Types
      <4> QED
        BY <3>1, <4>1, RunsAreNumbered
    <3> QED
      BY <3>1, <3>2, <3>3
  <2> QED
    BY <2>1, <2>2, <2>3
<1>16. Emptied(s, n, i)
  BY <1>1, <1>2 DEF InfraParts, Emptied, None
<1>17. Built(n, i)
  BY <1>1, <1>2 DEF InfraParts, Built
<1>18. Untouched(s, n)
  <2>1. s.finalizer \/ s.reason = "InfrastructureRemoved"
    BY <1>1 DEF StackParts, EarlierStack
  <2> QED
    BY <2>1 DEF Untouched
<1>19. ASSUME s.reason = "InfrastructureRemoved"
       PROVE  Gone(s, v, n, w, a, i)
  <2>1. Gone(s, v, r, w, a, i)
    BY <1>1, <1>19 DEF InfraParts
  <2>2. ASSUME NEW q \in DOMAIN n, n[q].approved
        PROVE  Dead(q, s, v, n, w)
    <3>1. q \in DOMAIN r /\ n[q] = r[q]
      BY <1>2, <2>2
    <3>2. Dead(q, s, v, r, w)
      BY <2>1, <2>2, <3>1 DEF Gone
    <3> QED
      BY <3>1, <3>2 DEF Dead
  <2>3. s.latest # 0 => s.latest \in DOMAIN r
    <3>1. s.latest \in 0..Len(r)
      BY <1>1 DEF Types
    <3> QED
      BY <1>3, <3>1, Upwards
  <2>4. \A q \in DOMAIN n : n[q].apply # "Started"
    BY <2>1, <1>2 DEF Gone, None
  <2>5. s.latest # 0 => n[s.latest] = r[s.latest]
    BY <2>3, <1>2
  <2>6. s.latest # 0 =>
       /\ n[s.latest].gen <= s.observed
       /\ n[s.latest].mode = "Destroy" /\ n[s.latest].gen = s.observed =>
            \/ n[s.latest].approved
            \/ n[s.latest].outcome \in {"NoChange", "Superseded"}
    BY <2>1, <2>5 DEF Gone
  <2> QED
    BY <2>1, <2>2, <2>4, <2>6 DEF Gone
<1>20. InfraParts(s, v, n, w, a, i)
  BY <1>1, <1>14, <1>15, <1>16, <1>17, <1>18, <1>19 DEF InfraParts
<1>21. RunParts(s, v, n, w, k)
  BY <1>1, <1>9, <1>10, <1>11, <1>12, <1>13 DEF RunParts
<1>22. StackInv(s, v, n, w, a, i, k)
  BY <1>1, <1>8, <1>20, <1>21 DEF StackInv
<1> QED
  BY <1>22 DEF n

-----------------------------------------------------------------------------
(* The stack is reported as removed. *)

(* The report is repeated. *)
LEMMA StillGone ==
  ASSUME NEW s, NEW r, NEW w, NEW a, NEW i, NEW k, NEW n,
         StackInv(s, s, r, w, a, i, k), s.reason = "InfrastructureRemoved",
         s.fence, Leaves(s),
         n.observed = s.gen, n.latest = s.latest
  PROVE  Gone(n, s, r, w, a, i)
<1>1. Gone(s, s, r, w, a, i)
  BY DEF StackInv, InfraParts
<1>2. /\ s.gen \in Nat /\ s.observed \in Nat /\ s.observed <= s.gen
      /\ s.latest \in 0..Len(r) /\ r \in Seq(Run)
  BY <1>1, StackTypes DEF StackInv, Types, Gone
<1>3. \A p \in DOMAIN r : r[p].gen \in Nat /\ r[p].gen <= s.gen
  BY PlansAreOfThePast
<1>4. s.gen <= s.gen
  BY <1>2
<1>5. ASSUME NEW p \in DOMAIN r, r[p].approved
      PROVE  Dead(p, n, s, r, w)
  <2>1. Dead(p, s, s, r, w)
    BY <1>1, <1>5 DEF Gone
  <2> QED
    BY <1>3, <2>1 DEF Dead
<1>6. s.latest # 0 => s.latest \in DOMAIN r
  BY <1>2, RunsAreNumbered, Upwards
<1>7. s.latest # 0 => r[s.latest].gen <= s.observed /\ r[s.latest].gen \in Nat
  BY <1>1, <1>3, <1>6 DEF Gone
<1>8. s.latest # 0 /\ r[s.latest].gen = s.gen => s.observed = s.gen
  BY <1>2, <1>7
<1>9. s.latest # 0 =>
        /\ r[s.latest].gen <= s.gen
        /\ r[s.latest].mode = "Destroy" /\ r[s.latest].gen = s.gen =>
             \/ r[s.latest].approved
             \/ r[s.latest].outcome \in {"NoChange", "Superseded"}
  BY <1>1, <1>3, <1>6, <1>8 DEF Gone
<1> QED
  BY <1>1, <1>4, <1>5, <1>9 DEF Gone

(* Nothing was ever built. *)
LEMMA NothingIsGone ==
  ASSUME NEW s, NEW r, NEW w, NEW a, NEW i, NEW k, NEW n,
         StackInv(s, s, r, w, a, i, k), s.fence, Leaves(s),
         s.converged = None,
         \A p \in DOMAIN w :
           w[p].apply \notin {"Indeterminate", "Created", "Started"},
         \A p \in DOMAIN w : w[p].apply # "Succeeded",
         n.observed = s.gen, n.latest = s.latest
  PROVE  Gone(n, s, r, w, a, i)
<1>1. /\ Types(s, s, r, w, a, i, k)
      /\ RunParts(s, s, r, w, k) /\ InfraParts(s, s, r, w, a, i)
  BY DEF StackInv
<1>2. /\ a = 0
      /\ \A p \in DOMAIN r :
           /\ r[p].apply \notin {"Started", "Indeterminate"}
           /\ r[p].apply = "Succeeded" =>
                p \in DOMAIN w /\ w[p].apply = "Succeeded"
  BY SettledInfra
<1>3. i = Absent
  <2>1. \A p \in DOMAIN r : r[p].apply \notin {"Succeeded", "Indeterminate"}
    BY <1>2
  <2> QED
    BY <1>1, <2>1 DEF InfraParts, Built
<1>4. /\ s.gen \in Nat
      /\ \A p \in DOMAIN r : r[p].gen <= s.gen /\ r[p].mode = "Reconcile"
  <2>1. s.gen \in Nat /\ \A p \in DOMAIN r : r[p].gen <= s.gen
    BY PlansAreOfThePast
  <2>2. \A p \in DOMAIN r : r[p].mode # "Destroy"
    BY <1>1 DEF RunParts, MadeFor
  <2>3. \A p \in DOMAIN r : r[p].mode \in {"Reconcile", "Destroy"}
    BY <1>1, RunsAreNumbered, RunTypes DEF Types
  <2> QED
    BY <2>1, <2>2, <2>3
<1>5. s.gen <= s.gen
  BY <1>4
<1>6. s.latest # 0 => s.latest \in DOMAIN r
  BY <1>1, RunsAreNumbered, Upwards DEF Types
<1>7. \A p \in DOMAIN r : r[p].approved => Dead(p, n, s, r, w)
  BY <1>4 DEF Dead
<1>8. s.latest # 0 =>
        r[s.latest].gen <= s.gen /\ r[s.latest].mode = "Reconcile"
  BY <1>4, <1>6
<1>9. \A p \in DOMAIN r : r[p].apply # "Started"
  BY <1>2
<1> QED
  BY <1>2, <1>3, <1>5, <1>7, <1>8, <1>9 DEF Gone

(* The last attempt to remove it found nothing or removed everything. *)
LEMMA RemovedIsGone ==
  ASSUME NEW s, NEW r, NEW w, NEW a, NEW i, NEW k, NEW n, NEW p \in DOMAIN w,
         StackInv(s, s, r, w, a, i, k), s.fence, Leaves(s),
         \A q \in DOMAIN w :
           w[q].apply \notin {"Indeterminate", "Created", "Started"},
         w[p].gen = s.gen, w[p].mode = "Destroy",
         \A q \in DOMAIN w : Alike(w[q], w[p]) => q <= p,
         w[p].outcome # "Superseded",
         w[p].outcome = "NoChange" \/ w[p].apply = "Succeeded",
         n.observed = s.gen, n.latest = p
  PROVE  Gone(n, s, r, w, a, i)
<1>1. /\ Types(s, s, r, w, a, i, k)
      /\ RunParts(s, s, r, w, k) /\ InfraParts(s, s, r, w, a, i)
  BY DEF StackInv
<1>2. /\ a = 0
      /\ \A q \in DOMAIN r :
           /\ r[q].apply \notin {"Started", "Indeterminate"}
           /\ r[q].apply = "Created" => q \in DOMAIN w /\ w[q].apply = None
  BY SettledInfra
<1>3. i = Absent
  BY <1>1 DEF InfraParts, Emptied
<1>4. /\ s.gen \in Nat /\ DOMAIN w \subseteq DOMAIN r
      /\ \A q \in DOMAIN r : r[q].gen \in Nat /\ r[q].gen <= s.gen
      /\ \A q \in DOMAIN w : w[q].gen = r[q].gen /\ w[q].mode = r[q].mode
  BY PlansAreOfThePast
<1>5. p \in DOMAIN r /\ r[p].gen = s.gen /\ r[p].mode = "Destroy"
  BY <1>4
<1>6. EarlierRun(w[p], r[p]) /\ RunFacts(w[p]) /\ RunFacts(r[p])
  BY <1>1, <1>5 DEF RunParts, EarlierRuns
<1>7. w[p].outcome = "NoChange" =>
        r[p].outcome \in {"NoChange", "Superseded"} /\ ~r[p].approved
  <2>1. Goal(w[p]) = Goal(r[p])
    BY <1>6 DEF Goal, EarlierRun
  <2>2. w[p].outcome = "NoChange" =>
          /\ r[p].outcome \in {"NoChange", "Superseded"}
          /\ r[p].base = Goal(r[p])
    BY <1>6, <2>1 DEF EarlierRun, RunFacts
  <2> QED
    BY <1>6, <2>2 DEF RunFacts
<1>8. w[p].apply = "Succeeded" => r[p].apply = "Succeeded" /\ r[p].approved
  BY <1>6 DEF EarlierRun, Ended, RunFacts, None
<1>9. ASSUME NEW q \in DOMAIN r, r[q].approved
      PROVE  Dead(q, n, s, r, w)
  <2>1. CASE r[q].gen # s.gen
    <3>1. r[q].gen < s.gen
      BY <1>4, <2>1
    <3> QED
      BY <3>1 DEF Dead
  <2>2. CASE r[q].mode = "Reconcile"
    BY <1>4, <2>2 DEF Dead
  <2>3. CASE r[q].gen = s.gen /\ r[q].mode # "Reconcile"
    <3>1. r[q].mode = "Destroy"
      <4>1. r[q] \in Run
        BY <1>1, <1>9, RunsAreNumbered DEF Types
      <4> QED
        BY <2>3, <4>1, RunTypes
    <3>2. Alike(w[p], r[q])
      BY <2>3, <3>1 DEF Alike
    <3>3. q \in DOMAIN w
      <4> SUFFICES ASSUME q \notin DOMAIN w PROVE FALSE
        OBVIOUS
      <4>1. \A p2 \in DOMAIN w : Alike(w[p2], r[q]) => p2 <= p
        BY <2>3, <3>1 DEF Alike
      <4>2. q \in DOMAIN r \ DOMAIN w
        BY <1>9
      <4>3. w[p].outcome = "Superseded"
        BY <1>1, <3>2, <4>1, <4>2 DEF RunParts, UnseenAttempts
      <4> QED
        BY <4>3
    <3>4. Alike(w[q], w[p]) /\ Alike(w[p], r[q])
      BY <1>4, <2>3, <3>1, <3>3 DEF Alike
    <3>5. q <= p
      BY <3>3, <3>4
    <3>6. q \in Nat /\ p \in Nat
      BY <1>1, <1>5, <1>9, RunsAreNumbered DEF Types
    <3>7. CASE q = p
      BY <1>7, <1>8, <1>9, <3>7 DEF Dead, None
    <3>8. CASE q # p
      <4>1. q < p
        BY <3>5, <3>6, <3>8
      <4>2. r[q].apply = "Created" => r[q].apply = None
        BY <1>1, <1>2, <3>3, <3>4, <4>1 DEF RunParts, LaterAttempts
      <4>3. r[q].apply # "Created"
        BY <4>2 DEF None
      <4> QED
        BY <3>4, <4>1, <4>3 DEF Dead
    <3> QED
      BY <3>7, <3>8
  <2> QED
    BY <2>1, <2>2, <2>3
<1>10. s.gen <= s.gen
  BY <1>4
<1>11. /\ r[n.latest].gen <= n.observed
       /\ r[n.latest].approved
            \/ r[n.latest].outcome \in {"NoChange", "Superseded"}
  BY <1>5, <1>7, <1>8, <1>10
<1>12. \A q \in DOMAIN r : r[q].apply # "Started"
  BY <1>2
<1> QED
  BY <1>2, <1>3, <1>9, <1>10, <1>11, <1>12 DEF Gone

-----------------------------------------------------------------------------
(* The steps of the stack reconciler that only write its status. *)

(* The invariant holds, and holds after a step with the caches as they were. *)
Before == StackInv(stack, View, runs, RunsSeen, admitting, infra, asked)

After == StackInv(stack', View, runs', RunsSeen, admitting', infra', asked')

(* n reports on s: metadata and spec are the same. *)
Reports(n, s, r) ==
  /\ n \in Stack /\ n.exists = s.exists /\ n.deleting = s.deleting
  /\ n.finalizer = s.finalizer /\ n.gen = s.gen /\ n.input = s.input
  /\ n.desired = s.desired /\ n.fence = s.fence
  /\ n.observed = s.gen /\ n.latest \in 0..Len(r)
  /\ s.converged # None => n.converged # None

(* A report of anything but the removal. *)
LEMMA ReportKept ==
  ASSUME NEW s, NEW r, NEW w, NEW a, NEW i, NEW k, NEW n,
         StackInv(s, s, r, w, a, i, k), s.finalizer, Reports(n, s, r),
         n.reason # "InfrastructureRemoved"
  PROVE  StackInv(n, s, r, w, a, i, k)
<1>1. StackFacts(s) /\ s \in Stack
  BY DEF StackInv, StackParts, Types
<1>2. s.gen \in Nat
  BY <1>1, StackTypes
<1>3. n.observed <= n.gen
  <2>1. s.gen <= s.gen
    BY <1>2
  <2> QED
    BY <2>1 DEF Reports
<1>4. StackFacts(n)
  BY <1>1, <1>3 DEF StackFacts, Reports
<1>5. Untouched(n, r)
  BY DEF Untouched, Reports
<1> QED
  BY <1>4, <1>5, SpecKept DEF Reports

(* The removal is reported, and the finalizer may go with it. *)
LEMMA RemovalKept ==
  ASSUME NEW s, NEW r, NEW w, NEW a, NEW i, NEW k, NEW n, NEW m \in Releases(n),
         StackInv(s, s, r, w, a, i, k), s.exists, Reports(n, s, r),
         n.reason = "InfrastructureRemoved", Gone(n, s, r, w, a, i)
  PROVE  StackInv(m, s, r, w, a, i, k)
<1>1. StackFacts(s) /\ s \in Stack /\ n \in Stack
  BY DEF StackInv, StackParts, Types, Reports
<1>2. s.gen \in Nat
  BY <1>1, StackTypes
<1>3. n.observed <= n.gen
  <2>1. s.gen <= s.gen
    BY <1>2
  <2> QED
    BY <2>1 DEF Reports
<1>4. /\ m \in Stack /\ m.gen = n.gen /\ m.input = n.input
      /\ m.desired = n.desired /\ m.fence = n.fence /\ m.deleting = n.deleting
      /\ m.reason = n.reason /\ m.observed = n.observed /\ m.latest = n.latest
      /\ m.converged = n.converged
  BY <1>1 DEF Releases, Stack
<1>5. \/ m = n
      \/ m.finalizer = FALSE /\ m.exists = ~n.deleting
  BY <1>1 DEF Releases, Stack
<1>6. StackFacts(m)
  <2>1. CASE m = n
    BY <1>1, <1>3, <2>1 DEF StackFacts, Reports
  <2>2. CASE m.finalizer = FALSE /\ m.exists = ~n.deleting
    BY <1>3, <1>4, <2>2 DEF StackFacts
  <2> QED
    BY <1>5, <2>1, <2>2
<1>7. Untouched(m, r)
  BY <1>4 DEF Untouched
<1>8. Gone(m, s, r, w, a, i)
  BY <1>4 DEF Gone, Dead
<1> QED
  BY <1>4, <1>6, <1>7, <1>8, SpecKept DEF Reports

(* A reconciled stack that is seen as it is has its finalizer. *)
LEMMA ReconciledHasFinalizer ==
  ASSUME Before, Reconciled
  PROVE  /\ View.finalizer /\ View.exists
         /\ View \in Stack /\ stack \in Stack
  BY DEF Before, Reconciled, StackInv, StackParts, StackFacts, Types

(* A write that conflicts changes nothing. *)
LEMMA Writes ==
  ASSUME Before, NEW n, UpdateOnly(n),
         View = stack =>
           StackInv(n, stack, runs, RunsSeen, admitting, infra, asked)
  PROVE  After
<1>1. UNCHANGED <<runs, admitting, infra, asked>>
  BY DEF UpdateOnly, worldVars
<1>2. CASE View = stack
  BY <1>1, <1>2 DEF UpdateOnly, Update, After
<1>3. CASE View # stack
  BY <1>1, <1>3 DEF UpdateOnly, Update, After, Before
<1> QED
  BY <1>2, <1>3

(* Nothing but the status of a stack that stays. *)
LEMMA ReportOnly ==
  ASSUME Before, Reconciled, NEW n, UpdateOnly(n),
         View = stack => Reports(n, stack, runs)
                           /\ n.reason # "InfrastructureRemoved"
  PROVE  After
<1>1. ASSUME View = stack
      PROVE  StackInv(n, stack, runs, RunsSeen, admitting, infra, asked)
  <2>1. StackInv(stack, stack, runs, RunsSeen, admitting, infra, asked)
    BY <1>1 DEF Before
  <2>2. stack.finalizer
    BY <1>1, ReconciledHasFinalizer
  <2> QED
    BY <1>1, <2>1, <2>2, ReportKept
<1> QED
  BY <1>1, Writes

(* What is removed is reported and released. *)
LEMMA RemovalOnly ==
  ASSUME Before, Reconciled, NEW n, NEW m \in Releases(n), UpdateOnly(m),
         View = stack =>
           /\ Reports(n, stack, runs) /\ n.reason = "InfrastructureRemoved"
           /\ Gone(n, stack, runs, RunsSeen, admitting, infra)
  PROVE  After
<1>1. ASSUME View = stack
      PROVE  StackInv(m, stack, runs, RunsSeen, admitting, infra, asked)
  <2>1. StackInv(stack, stack, runs, RunsSeen, admitting, infra, asked)
    BY <1>1 DEF Before
  <2>2. stack.exists
    BY <1>1, ReconciledHasFinalizer
  <2> QED
    BY <1>1, <2>1, <2>2, RemovalKept
<1> QED
  BY <1>1, Writes

(* The condition of a stack that is seen as it is. *)
LEMMA ConditionReports ==
  ASSUME Before, View = stack, NEW reason \in Reasons
  PROVE  /\ Reports(Condition(reason), stack, runs)
         /\ Condition(reason).reason = reason
         /\ Condition(reason).latest = stack.latest
<1>1. stack \in Stack /\ stack.latest \in 0..Len(runs)
  BY DEF Before, StackInv, Types
<1>2. stack.gen \in Nat
  BY <1>1, StackTypes
<1>3. /\ Condition(reason) \in Stack /\ Condition(reason).reason = reason
      /\ Condition(reason).exists = stack.exists
      /\ Condition(reason).deleting = stack.deleting
      /\ Condition(reason).finalizer = stack.finalizer
      /\ Condition(reason).gen = stack.gen
      /\ Condition(reason).input = stack.input
      /\ Condition(reason).desired = stack.desired
      /\ Condition(reason).fence = stack.fence
      /\ Condition(reason).observed = stack.gen
      /\ Condition(reason).latest = stack.latest
      /\ Condition(reason).converged = stack.converged
  BY <1>1, <1>2 DEF Condition, Stack
<1> QED
  BY <1>1, <1>3 DEF Reports

(* The condition after a Plan was followed. *)
LEMMA FollowingReports ==
  ASSUME Before, View = stack, NEW reason \in Reasons, NEW p \in Plans
  PROVE  /\ Reports(Following(p, reason), stack, runs)
         /\ Following(p, reason).reason = reason
         /\ Following(p, reason).latest = p
<1>1. stack \in Stack /\ runs \in Seq(Run)
  BY DEF Before, StackInv, Types
<1>2. stack.gen \in Nat
  BY <1>1, StackTypes
<1>3. p \in DOMAIN runs
  BY PlansAreOfThePast DEF Before, Plans
<1>4. p \in 0..Len(runs) /\ p \in Nat
  BY <1>1, <1>3, RunsAreNumbered
<1>5. /\ Following(p, reason) \in Stack /\ Following(p, reason).reason = reason
      /\ Following(p, reason).exists = stack.exists
      /\ Following(p, reason).deleting = stack.deleting
      /\ Following(p, reason).finalizer = stack.finalizer
      /\ Following(p, reason).gen = stack.gen
      /\ Following(p, reason).input = stack.input
      /\ Following(p, reason).desired = stack.desired
      /\ Following(p, reason).fence = stack.fence
      /\ Following(p, reason).observed = stack.gen
      /\ Following(p, reason).latest = p
      /\ Following(p, reason).converged = stack.converged
  BY <1>1, <1>2, <1>4 DEF Condition, Following, Stack
<1> QED
  BY <1>4, <1>5 DEF Reports

(* The status after convergence. *)
LEMMA ConvergedReports ==
  ASSUME Before, View = stack, NEW p \in Plans
  PROVE  /\ Reports(Converged(p), stack, runs)
         /\ Converged(p).reason = "InfrastructureReady"
<1>1. "InfrastructureReady" \in Reasons
  BY DEF Reasons
<1> DEFINE n == Following(p, "InfrastructureReady")
<1>2. Reports(n, stack, runs) /\ n.reason = "InfrastructureReady"
  BY <1>1, FollowingReports
<1>3. RunsSeen[p].input \in Inputs
  BY RunsAreNumbered, RunTypes DEF Plans, Before, StackInv, Types
<1>4. RunsSeen[p].input # None
  BY <1>3, InputsAssumption DEF None
<1>5. Converged(p) = [n EXCEPT !.converged = RunsSeen[p].input]
  BY DEF Converged
<1> HIDE DEF n
<1>6. n \in Stack
  BY <1>2 DEF Reports
<1>7. /\ Converged(p) \in Stack /\ Converged(p).reason = n.reason
      /\ Converged(p).exists = n.exists
      /\ Converged(p).deleting = n.deleting
      /\ Converged(p).finalizer = n.finalizer
      /\ Converged(p).gen = n.gen
      /\ Converged(p).input = n.input
      /\ Converged(p).desired = n.desired
      /\ Converged(p).fence = n.fence
      /\ Converged(p).observed = n.observed
      /\ Converged(p).latest = n.latest
      /\ Converged(p).converged # None
  BY <1>3, <1>4, <1>5, <1>6 DEF Stack
<1> QED
  BY <1>2, <1>7 DEF Reports

(* The finalizer is set. *)
LEMMA FinalizerAdded ==
  ASSUME Before, AddFinalizer
  PROVE  After
<1> DEFINE n == [View EXCEPT !.finalizer = TRUE]
<1>1. UpdateOnly(n) /\ View.exists
  BY DEF AddFinalizer
<1>2. ASSUME View = stack
      PROVE  StackInv(n, stack, runs, RunsSeen, admitting, infra, asked)
  <2>1. StackInv(stack, stack, runs, RunsSeen, admitting, infra, asked)
    BY <1>2 DEF Before
  <2>2. /\ stack \in Stack /\ stack.latest \in 0..Len(runs)
        /\ StackFacts(stack) /\ stack.exists
    BY <2>1, <1>1, <1>2 DEF StackInv, Types, StackParts
  <2>3. /\ n \in Stack /\ n.finalizer /\ n.exists = stack.exists
        /\ n.gen = stack.gen /\ n.input = stack.input
        /\ n.desired = stack.desired /\ n.fence = stack.fence
        /\ n.deleting = stack.deleting /\ n.reason = stack.reason
        /\ n.observed = stack.observed /\ n.latest = stack.latest
        /\ n.converged = stack.converged
    BY <1>2, <2>2 DEF Stack
  <2> HIDE DEF n
  <2>4. StackFacts(n)
    BY <2>2, <2>3 DEF StackFacts
  <2>5. Untouched(n, runs)
    BY <2>3 DEF Untouched
  <2>6. n.reason = "InfrastructureRemoved" =>
          Gone(n, stack, runs, RunsSeen, admitting, infra)
    <3>1. stack.reason = "InfrastructureRemoved" =>
            Gone(stack, stack, runs, RunsSeen, admitting, infra)
      BY <2>1 DEF StackInv, InfraParts
    <3> QED
      BY <2>3, <3>1 DEF Gone, Dead
  <2> QED
    BY <2>1, <2>2, <2>3, <2>4, <2>5, <2>6, SpecKept
<1> QED
  BY <1>1, <1>2, Writes

(* The fence is set. *)
LEMMA FenceIsSet ==
  ASSUME Before, SetFence
  PROVE  After
<1> DEFINE n == [View EXCEPT !.fence = TRUE, !.gen = @ + 1]
<1>1. UpdateOnly(n) /\ Destroying
  BY DEF SetFence
<1>2. ASSUME View = stack
      PROVE  StackInv(n, stack, runs, RunsSeen, admitting, infra, asked)
  <2>1. StackInv(stack, stack, runs, RunsSeen, admitting, infra, asked)
    BY <1>2 DEF Before
  <2>2. /\ stack \in Stack /\ StackFacts(stack) /\ Leaves(stack)
        /\ asked \in BOOLEAN /\ (Leaves(stack) => asked)
    BY <2>1, <1>1, <1>2 DEF StackInv, Types, StackParts, Leaves, Destroying
  <2>3. stack.gen \in Nat /\ stack.observed \in Nat
    BY <2>2, StackTypes
  <2>4. stack.gen + 1 \in Nat
    BY <2>3
  <2>5. /\ n \in Stack /\ n.finalizer = stack.finalizer
        /\ n.exists = stack.exists /\ n.gen = stack.gen + 1
        /\ n.desired = stack.desired
        /\ n.deleting = stack.deleting /\ n.reason = stack.reason
        /\ n.observed = stack.observed /\ n.latest = stack.latest
        /\ n.converged = stack.converged
    BY <1>2, <2>2, <2>4 DEF Stack
  <2> HIDE DEF n
  <2>6. n.observed <= n.gen
    <3>1. stack.observed <= stack.gen
      BY <2>2 DEF StackFacts
    <3>2. stack.observed <= stack.gen + 1
      BY <2>3, <3>1, Upwards
    <3> QED
      BY <2>5, <3>2
  <2>7. StackFacts(n)
    BY <2>2, <2>5, <2>6 DEF StackFacts
  <2>8. asked \/ Leaves(n) => asked
    BY <2>2
  <2> QED
    BY <2>1, <2>2, <2>5, <2>7, <2>8, SpecChanged
<1> QED
  BY <1>1, <1>2, Writes

(* Where a Plan is made or followed. *)
LEMMA PlansRunWhen ==
  ASSUME PlansRun
  PROVE  /\ Reconciled
         /\ Mode \in {"Reconcile", "Destroy"}
         /\ Mode = "Destroy" =>
              Settled /\ View.converged # None /\ View.fence /\ Destroying
         /\ Mode = "Reconcile" => ~Destroying /\ ~View.fence
  BY DEF PlansRun, Settled, Remains, Destroys, Mode

(* No Apply is seen to be under way. *)
LEMMA SettledSees ==
  ASSUME Settled
  PROVE  \A p \in DOMAIN RunsSeen :
           RunsSeen[p].apply \notin {"Indeterminate", "Created", "Started"}
  BY DEF Settled, Applies, Plans

(* The last attempt that is seen. *)
LEMMA CandidateIsLast ==
  ASSUME NEW p \in Plans, Candidate(p)
  PROVE  /\ p \in DOMAIN RunsSeen
         /\ RunsSeen[p].gen = View.gen /\ RunsSeen[p].mode = Mode
         /\ \A q \in DOMAIN RunsSeen :
              Alike(RunsSeen[q], RunsSeen[p]) => q <= p
  BY DEF Candidate, Attempts, OfView, Alike, Plans

(* The conditions before any Plan. *)
LEMMA ConditionSteps ==
  ASSUME Before,
         HoldPresent \/ RequireRecovery \/ HoldDeletion \/ RefuseToGuess
  PROVE  After
<1>1. PICK reason \in Reasons \ {"InfrastructureRemoved"} :
        Reconciled /\ UpdateOnly(Condition(reason))
  <2>1. /\ "MutationFence" \in Reasons \ {"InfrastructureRemoved"}
        /\ "RecoveryRequired" \in Reasons \ {"InfrastructureRemoved"}
        /\ "DeletionHeld" \in Reasons \ {"InfrastructureRemoved"}
    BY DEF Reasons
  <2> QED
    BY <2>1 DEF HoldPresent, RequireRecovery, HoldDeletion, RefuseToGuess,
                Settled, Remains, Destroys
<1>2. View = stack => /\ Reports(Condition(reason), stack, runs)
                      /\ Condition(reason).reason # "InfrastructureRemoved"
  BY <1>1, ConditionReports
<1> QED
  BY <1>1, <1>2, ReportOnly

(* A removal is reported again. *)
LEMMA ReleaseStep ==
  ASSUME Before, ReleaseRemoved
  PROVE  After
<1> DEFINE n == Condition("InfrastructureRemoved")
<1>1. /\ Reconciled /\ Destroying /\ View.fence
      /\ View.reason = "InfrastructureRemoved"
  BY DEF ReleaseRemoved, Destroys
<1>2. PICK m \in Releases(n) : UpdateOnly(m)
  BY DEF ReleaseRemoved
<1>3. ASSUME View = stack
      PROVE  /\ Reports(n, stack, runs) /\ n.reason = "InfrastructureRemoved"
             /\ Gone(n, stack, runs, RunsSeen, admitting, infra)
  <2>1. "InfrastructureRemoved" \in Reasons
    BY DEF Reasons
  <2>2. /\ Reports(n, stack, runs) /\ n.reason = "InfrastructureRemoved"
        /\ n.latest = stack.latest
    BY <1>3, <2>1, ConditionReports
  <2>3. StackInv(stack, stack, runs, RunsSeen, admitting, infra, asked)
    BY <1>3 DEF Before
  <2>4. stack.fence /\ Leaves(stack) /\ stack.reason = "InfrastructureRemoved"
    BY <1>1, <1>3 DEF Leaves, Destroying
  <2>5. n.observed = stack.gen
    BY <2>2 DEF Reports
  <2> HIDE DEF n
  <2>6. Gone(n, stack, runs, RunsSeen, admitting, infra)
    BY <2>2, <2>3, <2>4, <2>5, StillGone
  <2> QED
    BY <2>2, <2>6
<1> HIDE DEF n
<1> QED
  BY <1>1, <1>2, <1>3, RemovalOnly

(* Nothing was built. *)
LEMMA NothingStep ==
  ASSUME Before, RemoveNothing
  PROVE  After
<1> DEFINE n == Condition("InfrastructureRemoved")
<1>1. /\ Settled /\ Reconciled /\ Destroying /\ View.fence
      /\ View.converged = None /\ NothingApplied
  BY DEF RemoveNothing, Settled, Remains, Destroys
<1>2. PICK m \in Releases(n) : UpdateOnly(m)
  BY DEF RemoveNothing
<1>3. ASSUME View = stack
      PROVE  /\ Reports(n, stack, runs) /\ n.reason = "InfrastructureRemoved"
             /\ Gone(n, stack, runs, RunsSeen, admitting, infra)
  <2>1. "InfrastructureRemoved" \in Reasons
    BY DEF Reasons
  <2>2. /\ Reports(n, stack, runs) /\ n.reason = "InfrastructureRemoved"
        /\ n.latest = stack.latest
    BY <1>3, <2>1, ConditionReports
  <2>3. StackInv(stack, stack, runs, RunsSeen, admitting, infra, asked)
    BY <1>3 DEF Before
  <2>4. stack.fence /\ Leaves(stack) /\ stack.converged = None
    BY <1>1, <1>3 DEF Leaves, Destroying
  <2>5. n.observed = stack.gen
    BY <2>2 DEF Reports
  <2> HIDE DEF n
  <2>6. \A p \in DOMAIN RunsSeen : RunsSeen[p].apply # "Succeeded"
    BY <1>1 DEF NothingApplied, Applies, Plans
  <2>7. \A p \in DOMAIN RunsSeen :
          RunsSeen[p].apply \notin {"Indeterminate", "Created", "Started"}
    BY <1>1, SettledSees
  <2>8. Gone(n, stack, runs, RunsSeen, admitting, infra)
    BY <2>2, <2>3, <2>4, <2>5, <2>6, <2>7, NothingIsGone
  <2> QED
    BY <2>2, <2>8
<1> HIDE DEF n
<1> QED
  BY <1>1, <1>2, <1>3, RemovalOnly

(* The last attempt to remove everything has done so. *)
LEMMA RemovedStep ==
  ASSUME Before, NEW p \in Plans, Follows(p), Mode = "Destroy",
         RunsSeen[p].outcome = "NoChange" \/ RunsSeen[p].apply = "Succeeded",
         NEW m \in Removed(p), UpdateOnly(m)
  PROVE  After
<1> DEFINE n == Following(p, "InfrastructureRemoved")
<1>1. PlansRun /\ Candidate(p) /\ ~Stale(p)
  BY DEF Follows
<1>2. /\ Settled /\ Reconciled /\ Destroying /\ View.fence
  BY <1>1, PlansRunWhen
<1>3. m \in Releases(n)
  BY DEF Removed, Releases
<1>4. ASSUME View = stack
      PROVE  /\ Reports(n, stack, runs) /\ n.reason = "InfrastructureRemoved"
             /\ Gone(n, stack, runs, RunsSeen, admitting, infra)
  <2>1. "InfrastructureRemoved" \in Reasons
    BY DEF Reasons
  <2>2. /\ Reports(n, stack, runs) /\ n.reason = "InfrastructureRemoved"
        /\ n.latest = p
    BY <1>4, <2>1, FollowingReports
  <2>3. StackInv(stack, stack, runs, RunsSeen, admitting, infra, asked)
    BY <1>4 DEF Before
  <2>4. stack.fence /\ Leaves(stack)
    BY <1>2, <1>4 DEF Leaves, Destroying
  <2>5. n.observed = stack.gen
    BY <2>2 DEF Reports
  <2> HIDE DEF n
  <2>6. /\ p \in DOMAIN RunsSeen /\ RunsSeen[p].gen = stack.gen
        /\ RunsSeen[p].mode = "Destroy"
        /\ \A q \in DOMAIN RunsSeen :
             Alike(RunsSeen[q], RunsSeen[p]) => q <= p
    BY <1>1, <1>4, CandidateIsLast
  <2>7. \A q \in DOMAIN RunsSeen :
          RunsSeen[q].apply \notin {"Indeterminate", "Created", "Started"}
    BY <1>2, SettledSees
  <2>8. RunsSeen[p].outcome # "Superseded"
    BY <1>1 DEF Stale
  <2>9. Gone(n, stack, runs, RunsSeen, admitting, infra)
    BY <2>2, <2>3, <2>4, <2>5, <2>6, <2>7, <2>8, RemovedIsGone
  <2> QED
    BY <2>2, <2>9
<1> HIDE DEF n
<1> QED
  BY <1>2, <1>3, <1>4, RemovalOnly

(* A report after a Plan was followed. *)
LEMMA FollowingStep ==
  ASSUME Before, NEW p \in Plans, Follows(p),
         NEW reason \in Reasons \ {"InfrastructureRemoved"},
         UpdateOnly(Following(p, reason))
  PROVE  After
<1>1. Reconciled
  BY PlansRunWhen DEF Follows
<1>2. View = stack => /\ Reports(Following(p, reason), stack, runs)
                      /\ Following(p, reason).reason # "InfrastructureRemoved"
  BY FollowingReports
<1> QED
  BY <1>1, <1>2, ReportOnly

(* The verdict on a target that a run has found. *)
LEMMA DiscoveredReports ==
  ASSUME Before, View = stack, NEW p \in Plans, NEW n \in Discovered(p)
  PROVE  Reports(n, stack, runs) /\ n.reason # "InfrastructureRemoved"
<1>1. CASE n = Converged(p)
  BY <1>1, ConvergedReports
<1>2. CASE n = Following(p, "TargetDiscoveryRejected")
  <2>1. "TargetDiscoveryRejected" \in Reasons
    BY DEF Reasons
  <2> QED
    BY <1>2, <2>1, FollowingReports
<1> QED
  BY <1>1, <1>2 DEF Discovered

(* A Plan without changes. *)
LEMMA NoChangeStep ==
  ASSUME Before, NEW p \in Plans, FollowNoChange(p)
  PROVE  After
<1>1. /\ Follows(p) /\ RunsSeen[p].outcome = "NoChange"
      /\ Reconciled
  BY PlansRunWhen DEF Follows, FollowNoChange
<1>2. CASE Mode = "Destroy"
  <2>1. PICK m \in Removed(p) : UpdateOnly(m)
    BY <1>2 DEF FollowNoChange
  <2> QED
    BY <1>1, <1>2, <2>1, RemovedStep
<1>3. CASE Mode # "Destroy"
  <2>1. PICK m \in Discovered(p) : UpdateOnly(m)
    BY <1>3 DEF FollowNoChange
  <2> QED
    BY <1>1, <2>1, DiscoveredReports, ReportOnly
<1> QED
  BY <1>2, <1>3

(* An Apply that exists is followed. *)
LEMMA FollowApplyStep ==
  ASSUME Before, NEW p \in Plans, FollowApply(p)
  PROVE  After
<1>1. /\ Follows(p) /\ Reconciled /\ Mode \in {"Reconcile", "Destroy"}
  BY PlansRunWhen DEF Follows, FollowApply, Approved
<1>2. PICK m \in AfterApply(p, RunsSeen[p].apply) : UpdateOnly(m)
  BY DEF FollowApply
<1>3. CASE RunsSeen[p].apply = "Succeeded" /\ Mode = "Destroy"
  <2>1. m \in Removed(p)
    BY <1>2, <1>3 DEF AfterApply
  <2> QED
    BY <1>1, <1>2, <1>3, <2>1, RemovedStep
<1>4. CASE RunsSeen[p].apply = "Succeeded" /\ Mode = "Reconcile"
  <2>1. PICK n \in Discovered(p) : m = [n EXCEPT !.applied = TRUE]
    BY <1>2, <1>4 DEF AfterApply
  <2>2. ASSUME View = stack
        PROVE  Reports(m, stack, runs) /\ m.reason # "InfrastructureRemoved"
    <3>1. Reports(n, stack, runs) /\ n.reason # "InfrastructureRemoved"
      BY <2>1, <2>2, DiscoveredReports
    <3>2. n \in Stack
      BY <3>1 DEF Reports
    <3>3. /\ m \in Stack /\ m.reason = n.reason /\ m.exists = n.exists
          /\ m.deleting = n.deleting /\ m.finalizer = n.finalizer
          /\ m.gen = n.gen /\ m.input = n.input /\ m.desired = n.desired
          /\ m.fence = n.fence /\ m.observed = n.observed
          /\ m.latest = n.latest /\ m.converged = n.converged
      BY <2>1, <3>2 DEF Stack
    <3> QED
      BY <3>1, <3>3 DEF Reports
  <2> QED
    BY <1>1, <1>2, <2>2, ReportOnly
<1>5. CASE RunsSeen[p].apply # "Succeeded"
  <2>1. PICK reason \in {"ApplyIndeterminate", "ApplyFailed", "Applying"} :
          m = Following(p, reason)
    BY <1>2, <1>5 DEF AfterApply
  <2>2. reason \in Reasons \ {"InfrastructureRemoved"}
    BY DEF Reasons
  <2> QED
    BY <1>1, <1>2, <2>1, <2>2, FollowingStep
<1> QED
  BY <1>1, <1>3, <1>4, <1>5

(* A Plan that has not ended or is not approved. *)
LEMMA AwaitSteps ==
  ASSUME Before, NEW p \in Plans, AwaitPlan(p) \/ AwaitApproval(p)
  PROVE  After
<1>1. Follows(p)
  BY DEF AwaitPlan, AwaitApproval
<1>2. PICK reason \in {"PlanPending", "WaitingApproval"} :
        UpdateOnly(Following(p, reason))
  BY DEF AwaitPlan, AwaitApproval
<1>3. reason \in Reasons \ {"InfrastructureRemoved"}
  BY DEF Reasons
<1> QED
  BY <1>1, <1>2, <1>3, FollowingStep

-----------------------------------------------------------------------------
(* The steps of the stack reconciler that make runs. *)

(* The changed record of one run. *)
LEMMA ApplyReplaced ==
  ASSUME NEW r \in Seq(Run), NEW p \in DOMAIN r, NEW n,
         NEW x \in {"Created", "Started", "Succeeded", "Indeterminate",
                    "Rejected"},
         n = [r EXCEPT ![p].apply = x]
  PROVE  OnlyApply(r, n, p) /\ n[p].apply = x
<1> DEFINE y == [r[p] EXCEPT !.apply = x]
<1>1. r[p] \in Run
  BY RunsAreNumbered
<1>2. /\ y \in Run /\ y.apply = x /\ y.gen = r[p].gen /\ y.mode = r[p].mode
      /\ y.input = r[p].input /\ y.outcome = r[p].outcome
      /\ y.base = r[p].base /\ y.approved = r[p].approved
  BY <1>1 DEF Run
<1>3. n = [r EXCEPT ![p] = y]
  OBVIOUS
<1> HIDE DEF y
<1>4. OnlyAt(r, n, p) /\ n[p] = y
  <2>1. y \in Run
    BY <1>2
  <2>2. OnlyAt(r, [r EXCEPT ![p] = y], p) /\ [r EXCEPT ![p] = y][p] = y
    BY <2>1, ReplacedOnly
  <2> QED
    BY <1>3, <2>2
<1> QED
  BY <1>2, <1>4 DEF OnlyApply

(* The status is written after another request, or not any more. *)
LEMMA ThenWrites ==
  ASSUME NEW n, ThenUpdate(n), UNCHANGED worldVars, Reconciled, Before,
         StackInv(stack, View, runs', RunsSeen, admitting, infra, asked),
         View = stack => Reports(n, stack, runs')
                           /\ n.reason # "InfrastructureRemoved"
  PROVE  After
<1>1. admitting' = admitting /\ infra' = infra /\ asked' = asked
  BY DEF worldVars
<1>2. CASE stack' = stack
  BY <1>1, <1>2 DEF After
<1>3. CASE stack' # stack
  <2>1. View = stack /\ stack' = n
    BY <1>3 DEF ThenUpdate, Update
  <2>2. stack.finalizer
    BY <2>1, ReconciledHasFinalizer
  <2>3. StackInv(stack, stack, runs', RunsSeen, admitting, infra, asked)
    BY <2>1
  <2>4. StackInv(n, stack, runs', RunsSeen, admitting, infra, asked)
    BY <2>1, <2>2, <2>3, ReportKept
  <2> QED
    BY <1>1, <2>1, <2>4 DEF After
<1> QED
  BY <1>2, <1>3

(* What a new Plan says. *)
LEMMA NewRunSays ==
  ASSUME Before, PlansRun
  PROVE  /\ NewRun \in Run /\ NewRun.gen = View.gen /\ NewRun.mode = Mode
         /\ NewRun.outcome = "" /\ NewRun.approved = FALSE
         /\ NewRun.apply = None
         /\ MadeFor(NewRun, stack, View, asked)
<1>1. /\ View \in Stack /\ asked \in BOOLEAN
      /\ StackParts(stack, View, asked)
  BY DEF Before, StackInv, Types
<1>2. View.gen \in Nat /\ View.input \in Inputs
        /\ View.converged \in Inputs \cup {None}
  BY <1>1, StackTypes
<1>3. /\ Mode \in {"Reconcile", "Destroy"}
      /\ Mode = "Destroy" =>
           View.converged # None /\ View.fence /\ Destroying
  BY PlansRunWhen
<1>4. (IF Mode = "Destroy" THEN View.converged ELSE View.input) \in Inputs
  BY <1>2, <1>3
<1>5. /\ NewRun \in Run /\ NewRun.gen = View.gen /\ NewRun.mode = Mode
      /\ NewRun.outcome = "" /\ NewRun.approved = FALSE
      /\ NewRun.apply = None
  BY <1>2, <1>3, <1>4 DEF NewRun, Run
<1>6. NewRun.gen <= View.gen
  <2>1. View.gen <= View.gen
    BY <1>2
  <2> QED
    BY <1>5, <2>1
<1>7. Mode = "Destroy" => asked /\ stack.converged # None /\ Leaves(View)
  BY <1>1, <1>3 DEF StackParts, EarlierStack, Leaves, Destroying
<1>8. MadeFor(NewRun, stack, View, asked)
  BY <1>3, <1>5, <1>6, <1>7 DEF MadeFor
<1> QED
  BY <1>5, <1>8

(* The report about a new Plan. *)
LEMMA PendingReports ==
  ASSUME Before, View = stack, NewRun \in Run
  PROVE  LET n == [Condition("PlanPending") EXCEPT !.latest = Len(runs) + 1]
         IN  /\ Reports(n, stack, Append(runs, NewRun))
             /\ n.reason # "InfrastructureRemoved"
<1> DEFINE c == Condition("PlanPending")
<1> DEFINE n == [c EXCEPT !.latest = Len(runs) + 1]
<1>1. "PlanPending" \in Reasons
  BY DEF Reasons
<1>2. Reports(c, stack, runs) /\ c.reason = "PlanPending"
  BY <1>1, ConditionReports
<1>3. c \in Stack
  BY <1>2 DEF Reports
<1>4. runs \in Seq(Run)
  BY DEF Before, StackInv, Types
<1>5. Len(runs) \in Nat /\ Len(Append(runs, NewRun)) = Len(runs) + 1
  BY <1>4, RunsAreNumbered, OneMore
<1>6. \A y \in Nat : y + 1 \in Nat /\ y + 1 \in 0..(y + 1)
  OBVIOUS
<1>7. /\ Len(runs) + 1 \in Nat
      /\ Len(runs) + 1 \in 0..Len(Append(runs, NewRun))
  BY <1>5, <1>6
<1> HIDE DEF c
<1>8. /\ n \in Stack /\ n.reason = c.reason /\ n.exists = c.exists
      /\ n.deleting = c.deleting /\ n.finalizer = c.finalizer
      /\ n.gen = c.gen /\ n.input = c.input /\ n.desired = c.desired
      /\ n.fence = c.fence /\ n.observed = c.observed
      /\ n.latest = Len(runs) + 1 /\ n.converged = c.converged
  BY <1>3, <1>7 DEF Stack
<1> HIDE DEF n
<1>9. Reports(n, stack, Append(runs, NewRun))
  BY <1>2, <1>7, <1>8 DEF Reports
<1>10. n.reason # "InfrastructureRemoved"
  BY <1>2, <1>8
<1> QED
  BY <1>9, <1>10 DEF n, c

(* A Plan is created. *)
LEMMA PlanCreated ==
  ASSUME Before, PlansRun, CreatePlan,
         \A p \in DOMAIN RunsSeen :
           /\ RunsSeen[p].gen = View.gen /\ RunsSeen[p].mode = Mode
           /\ \A q \in DOMAIN RunsSeen :
                Alike(RunsSeen[q], RunsSeen[p]) => q <= p
           => RunsSeen[p].outcome = "Superseded"
  PROVE  After
<1>1. /\ NewRun \in Run /\ NewRun.gen = View.gen /\ NewRun.mode = Mode
      /\ NewRun.outcome = "" /\ ~NewRun.approved
      /\ NewRun.apply = None
      /\ MadeFor(NewRun, stack, View, asked)
  BY NewRunSays
<1>2. Reconciled /\ (Mode = "Destroy" => Settled)
  BY PlansRunWhen
<1>3. View.finalizer
  BY <1>2, ReconciledHasFinalizer
<1>4. NewRun.mode = "Destroy" =>
        admitting = 0 /\ \A p \in DOMAIN runs : runs[p].apply # "Started"
  <2> SUFFICES ASSUME Settled
               PROVE  /\ admitting = 0
                      /\ \A p \in DOMAIN runs : runs[p].apply # "Started"
    BY <1>1, <1>2
  <2>1. \A p \in DOMAIN RunsSeen :
          RunsSeen[p].apply \notin {"Indeterminate", "Created", "Started"}
    BY SettledSees
  <2>2. /\ admitting = 0
        /\ \A p \in DOMAIN runs :
             runs[p].apply \notin {"Started", "Indeterminate"}
    BY <2>1, SettledInfra DEF Before
  <2> QED
    BY <2>2
<1>5. \A p \in DOMAIN RunsSeen :
        /\ Alike(RunsSeen[p], NewRun)
        /\ \A q \in DOMAIN RunsSeen : Alike(RunsSeen[q], NewRun) => q <= p
        => RunsSeen[p].outcome = "Superseded"
  BY <1>1 DEF Alike
<1>6. StackInv(stack, View, Append(runs, NewRun), RunsSeen, admitting, infra,
               asked)
  <2> HIDE DEF NewRun
  <2> QED
    BY <1>1, <1>3, <1>4, <1>5, PlanMade DEF Before
<1> DEFINE n == [Condition("PlanPending") EXCEPT !.latest = Len(runs) + 1]
<1>7. /\ runs' = Append(runs, NewRun) /\ ThenUpdate(n)
      /\ UNCHANGED worldVars
  BY DEF CreatePlan
<1>8. View = stack => Reports(n, stack, runs')
                        /\ n.reason # "InfrastructureRemoved"
  BY <1>1, <1>7, PendingReports
<1>9. StackInv(stack, View, runs', RunsSeen, admitting, infra, asked)
  BY <1>6, <1>7
<1> HIDE DEF n
<1> QED
  BY <1>2, <1>7, <1>8, <1>9, ThenWrites

(* The first attempt, or the next one. *)
LEMMA PlanSteps ==
  ASSUME Before, FirstPlan \/ NextPlan
  PROVE  After
<1>1. PlansRun /\ CreatePlan
  BY DEF FirstPlan, NextPlan
<1>2. ASSUME NEW p \in DOMAIN RunsSeen,
             RunsSeen[p].gen = View.gen, RunsSeen[p].mode = Mode,
             \A q \in DOMAIN RunsSeen :
               Alike(RunsSeen[q], RunsSeen[p]) => q <= p
      PROVE  RunsSeen[p].outcome = "Superseded"
  <2>1. p \in Attempts
    BY <1>2 DEF Attempts, OfView, Plans
  <2>2. CASE FirstPlan
    BY <2>1, <2>2 DEF FirstPlan
  <2>3. CASE NextPlan
    <3>1. PICK c \in Attempts :
            Candidate(c) /\ RunsSeen[c].outcome = "Superseded"
      BY <2>3 DEF NextPlan
    <3>2. c \in DOMAIN RunsSeen
      BY <3>1 DEF Attempts, Plans
    <3>3. Alike(RunsSeen[c], RunsSeen[p])
      BY <1>2, <3>1 DEF Attempts, OfView, Alike
    <3>4. c <= p /\ p <= c
      BY <1>2, <2>1, <3>1, <3>2, <3>3 DEF Candidate
    <3>5. c \in Nat /\ p \in Nat
      BY <1>2, <3>2, RunsAreNumbered DEF Before, StackInv, Types
    <3>6. c = p
      BY <3>4, <3>5
    <3> QED
      BY <3>1, <3>6
  <2> QED
    BY <2>2, <2>3
<1> QED
  BY <1>1, <1>2, PlanCreated

(* An attempt is marked as discarded. *)
LEMMA SupersedeStep ==
  ASSUME Before, Supersede
  PROVE  After
<1>1. PICK p \in Attempts :
        /\ Candidate(p) /\ Stale(p)
        /\ RunsSeen[p].outcome # "Superseded"
        /\ RunsSeen[p].outcome = runs[p].outcome
        /\ runs' = [runs EXCEPT ![p].outcome = "Superseded"]
  BY DEF Supersede
<1>2. stack' = stack /\ admitting' = admitting /\ infra' = infra
        /\ asked' = asked
  BY DEF Supersede, worldVars
<1>3. p \in DOMAIN runs
  BY <1>1, PlansAreOfThePast DEF Before, Attempts, Plans
<1>4. runs \in Seq(Run) /\ runs[p] \in Run /\ RunFacts(runs[p])
  BY <1>3, RunsAreNumbered DEF Before, StackInv, Types, RunParts
<1> DEFINE y == [runs[p] EXCEPT !.outcome = "Superseded"]
<1>5. /\ y \in Run /\ y.outcome = "Superseded" /\ y.gen = runs[p].gen
      /\ y.mode = runs[p].mode /\ y.input = runs[p].input
      /\ y.base = runs[p].base /\ y.approved = runs[p].approved
      /\ y.apply = runs[p].apply
  BY <1>4 DEF Run
<1>6. runs' = [runs EXCEPT ![p] = y]
  BY <1>1
<1> HIDE DEF y
<1>7. OnlyAt(runs, runs', p) /\ runs'[p] = y
  <2>1. OnlyAt(runs, [runs EXCEPT ![p] = y], p)
          /\ [runs EXCEPT ![p] = y][p] = y
    BY <1>3, <1>4, <1>5, ReplacedOnly
  <2> QED
    BY <1>6, <2>1
<1>8. EarlierRun(runs[p], runs'[p])
  BY <1>5, <1>7 DEF EarlierRun
<1>9. RunFacts(runs'[p])
  BY <1>4, <1>5, <1>7 DEF RunFacts, Goal
<1>10. /\ runs'[p].apply = runs[p].apply /\ runs'[p].outcome # "NoChange"
       /\ runs'[p].approved => runs[p].approved
  BY <1>5, <1>7
<1> QED
  BY <1>2, <1>7, <1>8, <1>9, <1>10, PlanChanged DEF Before, After

(* The Apply of an approved Plan is created. *)
LEMMA CreateApplyStep ==
  ASSUME Before, NEW p \in Plans, CreateApply(p)
  PROVE  After
<1>1. /\ Follows(p) /\ RunsSeen[p].approved /\ RunsSeen[p].apply = None
      /\ PlansRun /\ Candidate(p)
  BY DEF CreateApply, Approved, Follows
<1>2. Reconciled /\ (Mode = "Reconcile" => ~View.fence)
  BY <1>1, PlansRunWhen
<1>3. CASE runs[p].apply # None
  <2>1. "ApplyBlocked" \in Reasons \ {"InfrastructureRemoved"}
    BY DEF Reasons
  <2>2. UpdateOnly(Following(p, "ApplyBlocked"))
    BY <1>3 DEF CreateApply, UpdateOnly
  <2> QED
    BY <1>1, <2>1, <2>2, FollowingStep
<1>4. CASE runs[p].apply = None
  <2>1. /\ runs' = [runs EXCEPT ![p].apply = "Created"]
        /\ ThenUpdate(Following(p, "Applying")) /\ UNCHANGED worldVars
    BY <1>4 DEF CreateApply
  <2>2. /\ p \in DOMAIN RunsSeen
        /\ RunsSeen[p].gen = View.gen /\ RunsSeen[p].mode = Mode
        /\ \A q \in DOMAIN RunsSeen :
             Alike(RunsSeen[q], RunsSeen[p]) => q <= p
    BY <1>1, CandidateIsLast
  <2>3. /\ p \in DOMAIN runs /\ EarlierRun(RunsSeen[p], runs[p])
        /\ runs \in Seq(Run) /\ RunsSeen \in Seq(Run)
        /\ DOMAIN RunsSeen \subseteq DOMAIN runs
    BY <2>2, PlansAreOfThePast
    DEF Before, StackInv, Types, RunParts, EarlierRuns
  <2>4. runs[p].approved /\ runs[p].gen = View.gen /\ runs[p].mode = Mode
    BY <1>1, <2>2, <2>3 DEF EarlierRun
  <2>5. \A q \in DOMAIN RunsSeen :
          ~(p < q /\ Alike(RunsSeen[p], RunsSeen[q]))
    <3> SUFFICES ASSUME NEW q \in DOMAIN RunsSeen, p < q,
                        Alike(RunsSeen[p], RunsSeen[q])
                 PROVE  FALSE
      OBVIOUS
    <3>1. q <= p
      BY <2>2 DEF Alike
    <3>2. p \in Nat /\ q \in Nat
      BY <2>2, <2>3, RunsAreNumbered
    <3> QED
      BY <3>1, <3>2
  <2>6. \A q \in DOMAIN RunsSeen : ~(p < q /\ Alike(RunsSeen[q], runs[p]))
    BY <2>2, <2>4, <2>5 DEF Alike
  <2>7. stack.reason # "InfrastructureRemoved"
    BY <1>2, <1>4, <2>3, <2>4, <2>6, LiveIsNotGone DEF Before
  <2>8. OnlyApply(runs, runs', p) /\ runs'[p].apply = "Created"
    BY <2>1, <2>3, ApplyReplaced
  <2>9. StackInv(stack, View, runs', RunsSeen, admitting, infra, asked)
    BY <1>4, <2>2, <2>4, <2>5, <2>7, <2>8, ApplyCreated DEF Before
  <2>10. ASSUME View = stack
         PROVE  /\ Reports(Following(p, "Applying"), stack, runs')
                /\ Following(p, "Applying").reason # "InfrastructureRemoved"
    <3>1. "Applying" \in Reasons
      BY DEF Reasons
    <3>2. /\ Reports(Following(p, "Applying"), stack, runs)
          /\ Following(p, "Applying").reason = "Applying"
      BY <2>10, <3>1, FollowingReports
    <3>3. Len(runs') = Len(runs)
      BY <2>8 DEF OnlyApply, OnlyAt
    <3> QED
      BY <3>2, <3>3 DEF Reports
  <2> QED
    BY <1>2, <2>1, <2>9, <2>10, ThenWrites
<1> QED
  BY <1>3, <1>4

(* Every step of the stack reconciler. *)
LEMMA ReconcilerSteps ==
  ASSUME Before, ReconcileStack
  PROVE  After
<1>1. CASE \E p \in Plans :
             \/ AwaitPlan(p) \/ FollowNoChange(p) \/ AwaitApproval(p)
             \/ CreateApply(p) \/ FollowApply(p)
  BY <1>1, AwaitSteps, NoChangeStep, CreateApplyStep, FollowApplyStep
<1>2. CASE AddFinalizer \/ SetFence
  BY <1>2, FinalizerAdded, FenceIsSet
<1>3. CASE HoldPresent \/ RequireRecovery \/ HoldDeletion \/ RefuseToGuess
  BY <1>3, ConditionSteps
<1>4. CASE ReleaseRemoved \/ RemoveNothing
  BY <1>4, ReleaseStep, NothingStep
<1>5. CASE FirstPlan \/ NextPlan \/ Supersede
  BY <1>5, PlanSteps, SupersedeStep
<1> QED
  BY <1>1, <1>2, <1>3, <1>4, <1>5 DEF ReconcileStack

-----------------------------------------------------------------------------
(* The steps of the runs. *)

(* A Plan is replaced by a later state of it. *)
LEMMA PlanReplaced ==
  ASSUME Before, NEW p \in DOMAIN runs, NEW y \in Run,
         runs' = [runs EXCEPT ![p] = y],
         UNCHANGED <<stack, admitting, infra, asked>>,
         EarlierRun(runs[p], y), RunFacts(y), y.apply = runs[p].apply,
         y.outcome = "NoChange" =>
           runs[p].outcome = "NoChange" \/ infra = Goal(y),
         y.approved =>
           runs[p].approved \/ stack.reason # "InfrastructureRemoved"
  PROVE  After
<1>1. runs \in Seq(Run)
  BY DEF Before, StackInv, Types
<1>2. OnlyAt(runs, runs', p) /\ runs'[p] = y
  <2>1. OnlyAt(runs, [runs EXCEPT ![p] = y], p)
          /\ [runs EXCEPT ![p] = y][p] = y
    BY <1>1, ReplacedOnly
  <2> QED
    BY <2>1
<1>3. /\ EarlierRun(runs[p], runs'[p]) /\ RunFacts(runs'[p])
      /\ runs'[p].apply = runs[p].apply
      /\ runs'[p].outcome = "NoChange" =>
           runs[p].outcome = "NoChange" \/ infra = Goal(runs'[p])
      /\ runs'[p].approved =>
           runs[p].approved \/ stack.reason # "InfrastructureRemoved"
  BY <1>2
<1>4. StackInv(stack, View, runs', RunsSeen, admitting, infra, asked)
  BY <1>2, <1>3, PlanChanged DEF Before
<1> QED
  BY <1>4 DEF After

(* What is known of one run. *)
LEMMA OneRun ==
  ASSUME Before, NEW p \in DOMAIN runs
  PROVE  /\ runs \in Seq(Run) /\ runs[p] \in Run /\ RunFacts(runs[p])
         /\ infra \in Inputs \cup {Absent, Partial}
  BY RunsAreNumbered DEF Before, StackInv, Types, RunParts

(* A Plan ends. *)
LEMMA FinishStep ==
  ASSUME Before, NEW p \in DOMAIN runs, FinishPlan(p)
  PROVE  After
<1> DEFINE o == IF infra = Goal(runs[p]) THEN "NoChange" ELSE "ChangesPresent"
<1> DEFINE y == [runs[p] EXCEPT !.outcome = o, !.base = infra]
<1>1. /\ runs \in Seq(Run) /\ runs[p] \in Run /\ RunFacts(runs[p])
      /\ infra \in Inputs \cup {Absent, Partial}
  BY OneRun
<1>2. /\ runs[p].outcome = "" /\ runs' = [runs EXCEPT ![p] = y]
      /\ UNCHANGED <<stack, admitting, infra, asked>>
  BY DEF FinishPlan, worldVars
<1>3. /\ y \in Run /\ y.outcome = o /\ y.gen = runs[p].gen
      /\ y.mode = runs[p].mode /\ y.input = runs[p].input
      /\ y.base = infra /\ y.approved = runs[p].approved
      /\ y.apply = runs[p].apply
  BY <1>1 DEF Run
<1> HIDE DEF y
<1>4. Goal(y) = Goal(runs[p])
  BY <1>3 DEF Goal
<1>5. ~runs[p].approved /\ runs[p].apply = None
  BY <1>1, <1>2 DEF RunFacts
<1>6. EarlierRun(runs[p], y)
  BY <1>2, <1>3 DEF EarlierRun
<1>7. RunFacts(y)
  BY <1>3, <1>4, <1>5 DEF RunFacts
<1>8. /\ y.outcome = "NoChange" => infra = Goal(y)
      /\ y.approved => runs[p].approved
  BY <1>3, <1>4
<1> QED
  BY <1>2, <1>3, <1>6, <1>7, <1>8, PlanReplaced

(* A Plan fails. *)
LEMMA FailPlanStep ==
  ASSUME Before, NEW p \in DOMAIN runs, FailPlan(p)
  PROVE  After
<1> DEFINE y == [runs[p] EXCEPT !.outcome = "Failed"]
<1>1. /\ runs \in Seq(Run) /\ runs[p] \in Run /\ RunFacts(runs[p])
  BY OneRun
<1>2. /\ runs[p].outcome = "" /\ runs' = [runs EXCEPT ![p] = y]
      /\ UNCHANGED <<stack, admitting, infra, asked>>
  BY DEF FailPlan
<1>3. /\ y \in Run /\ y.outcome = "Failed" /\ y.gen = runs[p].gen
      /\ y.mode = runs[p].mode /\ y.input = runs[p].input
      /\ y.base = runs[p].base /\ y.approved = runs[p].approved
      /\ y.apply = runs[p].apply
  BY <1>1 DEF Run
<1> HIDE DEF y
<1>4. ~runs[p].approved /\ runs[p].apply = None
  BY <1>1, <1>2 DEF RunFacts
<1>5. EarlierRun(runs[p], y)
  BY <1>2, <1>3 DEF EarlierRun
<1>6. RunFacts(y)
  BY <1>3, <1>4 DEF RunFacts
<1>7. y.outcome # "NoChange" /\ (y.approved => runs[p].approved)
  BY <1>3
<1> QED
  BY <1>2, <1>3, <1>5, <1>6, <1>7, PlanReplaced

(* A Plan expires. *)
LEMMA ExpireStep ==
  ASSUME Before, NEW p \in DOMAIN runs, Expire(p)
  PROVE  After
<1> DEFINE y == [runs[p] EXCEPT !.expired = TRUE]
<1>1. /\ runs \in Seq(Run) /\ runs[p] \in Run /\ RunFacts(runs[p])
  BY OneRun
<1>2. /\ runs' = [runs EXCEPT ![p] = y]
      /\ UNCHANGED <<stack, admitting, infra, asked>>
  BY DEF Expire
<1>3. /\ y \in Run /\ y.outcome = runs[p].outcome /\ y.gen = runs[p].gen
      /\ y.mode = runs[p].mode /\ y.input = runs[p].input
      /\ y.base = runs[p].base /\ y.approved = runs[p].approved
      /\ y.apply = runs[p].apply
  BY <1>1 DEF Run
<1> HIDE DEF y
<1>4. EarlierRun(runs[p], y)
  BY <1>3 DEF EarlierRun
<1>5. RunFacts(y)
  BY <1>1, <1>3 DEF RunFacts, Goal
<1>6. /\ y.outcome = "NoChange" => runs[p].outcome = "NoChange"
      /\ y.approved => runs[p].approved
  BY <1>3
<1> QED
  BY <1>2, <1>3, <1>4, <1>5, <1>6, PlanReplaced

(* A Plan that can be approved does not belong to a stack that is gone. *)
LEMMA ApprovableIsNotGone ==
  ASSUME NEW s, NEW v, NEW r, NEW w, NEW a, NEW i, NEW k, NEW p \in DOMAIN r,
         StackInv(s, v, r, w, a, i, k),
         s.latest = p, s.gen = r[p].gen, s.fence => r[p].mode = "Destroy",
         r[p].outcome = "ChangesPresent", ~r[p].approved
  PROVE  s.reason # "InfrastructureRemoved"
<1> SUFFICES ASSUME s.reason = "InfrastructureRemoved" PROVE FALSE
  OBVIOUS
<1>1. Gone(s, v, r, w, a, i) /\ r \in Seq(Run) /\ StackParts(s, v, k)
  BY DEF StackInv, InfraParts, Types
<1>2. p # 0
  BY <1>1, RunsAreNumbered
<1>3. /\ r[p].gen <= s.observed /\ s.observed <= v.gen
      /\ v.gen = s.observed => v.fence
      /\ r[p].mode = "Destroy" /\ r[p].gen = s.observed =>
           \/ r[p].approved
           \/ r[p].outcome \in {"NoChange", "Superseded"}
  BY <1>1, <1>2 DEF Gone
<1>4. /\ s.gen \in Nat /\ v.gen \in Nat /\ v.gen <= s.gen
      /\ s.observed \in Nat
  BY PlansAreOfThePast, StackTypes DEF StackInv, Types
<1>5. v.gen = s.gen /\ v.gen = s.observed
  BY <1>3, <1>4
<1>6. s.fence
  BY <1>1, <1>3, <1>5, CurrentView
<1> QED
  BY <1>3, <1>5, <1>6

(* A Plan is approved. *)
LEMMA ApproveStep ==
  ASSUME Before, NEW p \in DOMAIN runs, ApprovePlan(p)
  PROVE  After
<1> DEFINE y == [runs[p] EXCEPT !.approved = TRUE]
<1>1. /\ runs \in Seq(Run) /\ runs[p] \in Run /\ RunFacts(runs[p])
  BY OneRun
<1>2. /\ runs[p].outcome = "ChangesPresent" /\ ~runs[p].approved
      /\ stack.latest = p /\ stack.gen = runs[p].gen
      /\ stack.fence => runs[p].mode = "Destroy"
      /\ runs' = [runs EXCEPT ![p] = y]
      /\ UNCHANGED <<stack, admitting, infra, asked>>
  BY DEF ApprovePlan, worldVars
<1>3. /\ y \in Run /\ y.outcome = runs[p].outcome /\ y.gen = runs[p].gen
      /\ y.mode = runs[p].mode /\ y.input = runs[p].input
      /\ y.base = runs[p].base /\ y.approved = TRUE
      /\ y.apply = runs[p].apply
  BY <1>1 DEF Run
<1> HIDE DEF y
<1>4. EarlierRun(runs[p], y)
  BY <1>3 DEF EarlierRun
<1>5. RunFacts(y)
  BY <1>1, <1>2, <1>3 DEF RunFacts, Goal
<1>6. y.outcome # "NoChange"
  BY <1>2, <1>3
<1>7. stack.reason # "InfrastructureRemoved"
  BY <1>2, ApprovableIsNotGone DEF Before
<1> QED
  BY <1>2, <1>3, <1>4, <1>5, <1>6, <1>7, PlanReplaced

(* What the worker of the runs sees of an Apply it takes up. *)
LEMMA TakesUpSees ==
  ASSUME Before, NEW p \in DOMAIN runs, p \in Plans
  PROVE  /\ p \in DOMAIN RunsSeen
         /\ RunsSeen[p].gen = runs[p].gen /\ RunsSeen[p].mode = runs[p].mode
  BY PlansAreOfThePast DEF Before, Plans

(* An Apply passes admission. *)
LEMMA AdmitStep ==
  ASSUME Before, NEW p \in DOMAIN runs, p \in Plans, AdmitApply(p)
  PROVE  After
<1>1. /\ admitting = 0 /\ RunsSeen[p].apply = "Created"
      /\ runs[p].apply = "Created"
      /\ \A q \in DOMAIN runs : runs[q].apply # "Started"
      /\ RunsSeen[p].gen = View.gen
      /\ RunsSeen[p].mode = "Destroy" \/ ~View.fence
      /\ admitting' = p /\ UNCHANGED <<stack, runs, infra, asked>>
  BY DEF AdmitApply, TakesUp, Admissible
<1>2. /\ p \in DOMAIN RunsSeen
      /\ RunsSeen[p].gen = runs[p].gen /\ RunsSeen[p].mode = runs[p].mode
  BY TakesUpSees
<1>3. runs[p].gen = View.gen /\ (runs[p].mode = "Reconcile" => ~View.fence)
  BY <1>1, <1>2
<1>4. StackInv(stack, View, runs, RunsSeen, 0, infra, asked)
  BY <1>1 DEF Before
<1>5. StackInv(stack, View, runs, RunsSeen, p, infra, asked)
  BY <1>1, <1>2, <1>3, <1>4, ApplyAdmitted
<1> QED
  BY <1>1, <1>5 DEF After

(* An Apply is rejected. *)
LEMMA RejectStep ==
  ASSUME Before, NEW p \in DOMAIN runs, p \in Plans, RejectApply(p)
  PROVE  After
<1>1. /\ admitting = 0 /\ runs[p].apply = "Created"
      /\ runs' = [runs EXCEPT ![p].apply = "Rejected"]
      /\ UNCHANGED <<stack, admitting, infra, asked>>
  BY DEF RejectApply, TakesUp
<1>2. p \in DOMAIN RunsSeen
  BY TakesUpSees
<1>3. runs \in Seq(Run)
  BY OneRun
<1>4. OnlyApply(runs, runs', p) /\ runs'[p].apply = "Rejected"
  BY <1>1, <1>3, ApplyReplaced
<1>5. StackInv(stack, View, runs, RunsSeen, 0, infra, asked)
  BY <1>1 DEF Before
<1>6. StackInv(stack, View, runs', RunsSeen, 0, infra, asked)
  BY <1>1, <1>2, <1>4, <1>5, ApplyRejected
<1> QED
  BY <1>1, <1>6 DEF After

(* An Apply starts. *)
LEMMA StartStep ==
  ASSUME Before, NEW p \in DOMAIN runs, StartApply(p)
  PROVE  After
<1>1. /\ admitting = p /\ runs' = [runs EXCEPT ![p].apply = "Started"]
      /\ admitting' = 0 /\ UNCHANGED <<stack, infra, asked>>
  BY DEF StartApply
<1>2. runs \in Seq(Run)
  BY OneRun
<1>3. OnlyApply(runs, runs', p) /\ runs'[p].apply = "Started"
  BY <1>1, <1>2, ApplyReplaced
<1>4. StackInv(stack, View, runs, RunsSeen, p, infra, asked)
  BY <1>1 DEF Before
<1>5. StackInv(stack, View, runs', RunsSeen, 0, infra, asked)
  BY <1>3, <1>4, ApplyStarted
<1> QED
  BY <1>1, <1>5 DEF After

(* An Apply ends. *)
LEMMA EndStep ==
  ASSUME Before, NEW p \in DOMAIN runs, EndsApply(p)
  PROVE  After
<1>1. PICK x \in {"Succeeded", "Indeterminate"} :
        /\ runs[p].apply = "Started"
        /\ runs' = [runs EXCEPT ![p].apply = x]
        /\ Leftover(runs[p], x, infra, infra')
        /\ UNCHANGED <<stack, admitting, asked>>
  <2>1. CASE SucceedApply(p)
    BY <2>1 DEF SucceedApply, Leftover
  <2>2. CASE FailApply(p)
    BY <2>2 DEF FailApply, Leftover
  <2> QED
    BY <2>1, <2>2 DEF EndsApply
<1>2. runs \in Seq(Run)
  BY OneRun
<1>3. OnlyApply(runs, runs', p) /\ runs'[p].apply = x
  <2>1. x \in {"Created", "Started", "Succeeded", "Indeterminate", "Rejected"}
    OBVIOUS
  <2>2. runs' = [runs EXCEPT ![p].apply = x]
    BY <1>1
  <2> QED
    BY <1>2, <2>1, <2>2, ApplyReplaced
<1>4. /\ Leftover(runs[p], runs'[p].apply, infra, infra')
      /\ runs'[p].apply \in {"Succeeded", "Indeterminate"}
  BY <1>1, <1>3
<1>5. runs[p].apply = "Started" /\ UNCHANGED <<stack, admitting, asked>>
  BY <1>1
<1>6. OnlyApply(runs, runs', p)
  BY <1>3
<1>7. StackInv(stack, View, runs, RunsSeen, admitting, infra, asked)
  BY DEF Before
<1>8. StackInv(stack, View, runs', RunsSeen, admitting, infra', asked)
  BY <1>4, <1>5, <1>6, <1>7, ApplyEnded
<1> QED
  BY <1>5, <1>8 DEF After

(* The owner of the stack edits it. *)
LEMMA EditStep ==
  ASSUME Before, EditStack
  PROVE  After
<1>1. stack \in Stack /\ StackFacts(stack) /\ asked \in BOOLEAN
  BY DEF Before, StackInv, StackParts, Types
<1>2. PICK n \in Stack :
        /\ Edit(n) /\ n.gen = stack.gen
        /\ n.reason = stack.reason /\ n.observed = stack.observed
        /\ n.latest = stack.latest /\ n.converged = stack.converged
        /\ n.finalizer = stack.finalizer
        /\ StackFacts(n)
  <2>1. CASE \E input \in Inputs : EditSpec(input)
    <3>1. PICK input \in Inputs : EditSpec(input)
      BY <2>1
    <3> DEFINE n == [stack EXCEPT !.input = input, !.desired = "Present",
                                  !.fence = FALSE]
    <3>2. Edit(n)
      BY <3>1 DEF EditSpec
    <3>3. /\ n \in Stack /\ n.gen = stack.gen /\ n.reason = stack.reason
          /\ n.observed = stack.observed /\ n.latest = stack.latest
          /\ n.converged = stack.converged /\ n.finalizer = stack.finalizer
          /\ n.exists = stack.exists /\ n.deleting = stack.deleting
      BY <1>1 DEF Stack
    <3> HIDE DEF n
    <3>4. StackFacts(n)
      BY <1>1, <3>3 DEF StackFacts
    <3> QED
      BY <3>2, <3>3, <3>4
  <2>2. CASE EditFence
    <3> DEFINE n == [stack EXCEPT !.fence = TRUE]
    <3>2. Edit(n)
      BY <2>2 DEF EditFence
    <3>3. /\ n \in Stack /\ n.gen = stack.gen /\ n.reason = stack.reason
          /\ n.observed = stack.observed /\ n.latest = stack.latest
          /\ n.converged = stack.converged /\ n.finalizer = stack.finalizer
          /\ n.exists = stack.exists /\ n.deleting = stack.deleting
      BY <1>1 DEF Stack
    <3> HIDE DEF n
    <3>4. StackFacts(n)
      BY <1>1, <3>3 DEF StackFacts
    <3> QED
      BY <3>2, <3>3, <3>4
  <2>3. CASE EditDesired
    <3> DEFINE n == [stack EXCEPT !.desired = "Destroy"]
    <3>2. Edit(n)
      BY <2>3 DEF EditDesired
    <3>3. /\ n \in Stack /\ n.gen = stack.gen /\ n.reason = stack.reason
          /\ n.observed = stack.observed /\ n.latest = stack.latest
          /\ n.converged = stack.converged /\ n.finalizer = stack.finalizer
          /\ n.exists = stack.exists /\ n.deleting = stack.deleting
      BY <1>1 DEF Stack
    <3> HIDE DEF n
    <3>4. StackFacts(n)
      BY <1>1, <3>3 DEF StackFacts
    <3> QED
      BY <3>2, <3>3, <3>4
  <2>4. CASE DeleteStack
    <3> DEFINE n == [stack EXCEPT !.deleting = TRUE,
                                  !.exists = stack.finalizer]
    <3>2. Edit(n)
      BY <2>4 DEF DeleteStack
    <3>3. /\ n \in Stack /\ n.gen = stack.gen /\ n.reason = stack.reason
          /\ n.observed = stack.observed /\ n.latest = stack.latest
          /\ n.converged = stack.converged /\ n.finalizer = stack.finalizer
          /\ n.exists = stack.finalizer /\ n.deleting
      BY <1>1 DEF Stack
    <3> HIDE DEF n
    <3>4. StackFacts(n)
      BY <1>1, <3>3 DEF StackFacts
    <3> QED
      BY <3>2, <3>3, <3>4
  <2> QED
    BY <2>1, <2>2, <2>3, <2>4 DEF EditStack
<1>3. /\ stack' = [n EXCEPT !.gen = @ + 1]
      /\ asked' = (asked \/ n.desired = "Destroy" \/ n.deleting)
      /\ UNCHANGED <<runs, admitting, infra>>
  BY <1>2 DEF Edit
<1>4. n.gen \in Nat /\ n.observed \in Nat
  BY StackTypes
<1>5. n.gen + 1 \in Nat
  BY <1>4
<1>6. /\ stack' \in Stack /\ stack'.gen = stack.gen + 1
      /\ stack'.reason = n.reason /\ stack'.observed = n.observed
      /\ stack'.latest = n.latest /\ stack'.converged = n.converged
      /\ stack'.finalizer = n.finalizer /\ stack'.exists = n.exists
      /\ stack'.deleting = n.deleting /\ stack'.desired = n.desired
  BY <1>2, <1>3, <1>5 DEF Stack
<1>7. stack'.observed <= stack'.gen
  <2>1. n.observed <= n.gen
    BY <1>2 DEF StackFacts
  <2>2. n.observed <= n.gen + 1
    BY <1>4, <2>1, Upwards
  <2> QED
    BY <1>2, <1>6, <2>2
<1>8. StackFacts(stack')
  BY <1>2, <1>6, <1>7 DEF StackFacts
<1>9. asked' \in BOOLEAN
  BY <1>3
<1>10. asked \/ Leaves(stack') => asked'
  BY <1>3, <1>6 DEF Leaves
<1>11. StackInv(stack', View, runs, RunsSeen, admitting, infra, asked')
  BY <1>2, <1>6, <1>8, <1>9, <1>10, SpecChanged DEF Before
<1> QED
  BY <1>3, <1>11 DEF After

-----------------------------------------------------------------------------
(* The invariant, step by step. *)

(* What the caches show is not touched by a step that is none of theirs.     *)
LEMMA SeenAgain ==
  ASSUME After, UNCHANGED viewVars
  PROVE  StackInv(stack', View', runs', RunsSeen', admitting', infra', asked')
<1>1. CASE StaleReads
  <2>1. View' = View /\ RunsSeen' = RunsSeen
    BY <1>1 DEF View, RunsSeen, viewVars
  <2> QED
    BY <2>1 DEF After
<1>2. CASE ~StaleReads
  <2>1. View' = stack' /\ RunsSeen' = runs'
    BY <1>2 DEF View, RunsSeen
  <2>2. StackInv(stack', stack', runs', RunsSeen, admitting', infra', asked')
    BY StackRefreshed DEF After
  <2>3. StackInv(stack', stack', runs', runs', admitting', infra', asked')
    BY <2>2, RunsRefreshed
  <2> QED
    BY <2>1, <2>3
<1> QED
  BY <1>1, <1>2

(* The steps that are none of the caches. *)
Acts ==
  \/ ReconcileStack
  \/ \E p \in DOMAIN runs :
       \/ FinishPlan(p) \/ FailPlan(p) \/ Expire(p) \/ ApprovePlan(p)
       \/ StartsApply(p) \/ EndsApply(p)
  \/ EditStack

(* They leave the caches alone. *)
LEMMA ActsKeepViews ==
  ASSUME Acts
  PROVE  UNCHANGED viewVars
<1>1. CASE ReconcileStack
  BY <1>1 DEF ReconcileStack, AddFinalizer, SetFence, HoldPresent,
     ReleaseRemoved, RequireRecovery, HoldDeletion, RemoveNothing,
     RefuseToGuess, FirstPlan, Supersede, NextPlan, CreatePlan, AwaitPlan,
     FollowNoChange, AwaitApproval, CreateApply, FollowApply, UpdateOnly
<1>2. CASE \E p \in DOMAIN runs :
             \/ FinishPlan(p) \/ FailPlan(p) \/ Expire(p) \/ ApprovePlan(p)
             \/ StartsApply(p) \/ EndsApply(p)
  BY <1>2 DEF FinishPlan, FailPlan, Expire, ApprovePlan, StartsApply,
     AdmitApply, RejectApply, StartApply, EndsApply, SucceedApply, FailApply
<1>3. CASE EditStack
  BY <1>3 DEF EditStack, EditSpec, EditFence, EditDesired, DeleteStack, Edit
<1> QED
  BY <1>1, <1>2, <1>3 DEF Acts

(* Every one of them preserves the invariant. *)
LEMMA ActsPreserve ==
  ASSUME Before, Acts
  PROVE  After
<1>1. CASE \E p \in DOMAIN runs :
             \/ FinishPlan(p) \/ FailPlan(p) \/ Expire(p) \/ ApprovePlan(p)
             \/ StartsApply(p) \/ EndsApply(p)
  BY <1>1, FinishStep, FailPlanStep, ExpireStep, ApproveStep, AdmitStep,
     RejectStep, StartStep, EndStep DEF StartsApply
<1> QED
  BY <1>1, ReconcilerSteps, EditStep DEF Acts

(* The counters stay within their bounds. *)
LEMMA CountersStep ==
  ASSUME edits \in 0..MaxEdits, faults \in 0..MaxFaults, StackNext
  PROVE  edits' \in 0..MaxEdits /\ faults' \in 0..MaxFaults
<1>1. edits \in Nat /\ faults \in Nat
  OBVIOUS
<1>2. /\ edits < MaxEdits => edits + 1 \in 0..MaxEdits
      /\ faults < MaxFaults => faults + 1 \in 0..MaxFaults
  BY <1>1, BoundsAssumption
<1>3. \/ UNCHANGED <<edits, faults>>
      \/ UNCHANGED faults /\ edits < MaxEdits /\ edits' = edits + 1
      \/ UNCHANGED edits /\ faults < MaxFaults /\ faults' = faults + 1
  <2>1. CASE ReconcileStack
    BY <2>1 DEF ReconcileStack, AddFinalizer, SetFence, HoldPresent,
       ReleaseRemoved, RequireRecovery, HoldDeletion, RemoveNothing,
       RefuseToGuess, FirstPlan, Supersede, NextPlan, CreatePlan, AwaitPlan,
       FollowNoChange, AwaitApproval, CreateApply, FollowApply, UpdateOnly,
       worldVars
  <2>2. CASE \E p \in DOMAIN runs :
               \/ FinishPlan(p) \/ FailPlan(p) \/ Expire(p) \/ ApprovePlan(p)
               \/ StartsApply(p) \/ EndsApply(p)
    BY <2>2 DEF FinishPlan, FailPlan, Expire, ApprovePlan, StartsApply,
       AdmitApply, RejectApply, StartApply, EndsApply, SucceedApply, FailApply,
       worldVars
  <2>3. CASE EditStack
    BY <2>3
    DEF EditStack, EditSpec, EditFence, EditDesired, DeleteStack, Edit
  <2>4. CASE CacheStack \/ CacheRuns \/ RestartManager
    BY <2>4 DEF CacheStack, CacheRuns, RestartManager, worldVars
  <2> QED
    BY <2>1, <2>2, <2>3, <2>4 DEF StackNext
<1> QED
  BY <1>2, <1>3

(* A cache catches up, or both do when the manager starts again. *)
LEMMA CachesPreserve ==
  ASSUME Before, CacheStack \/ CacheRuns \/ RestartManager
  PROVE  StackInv(stack', View', runs', RunsSeen', admitting', infra', asked')
<1>1. /\ StackInv(stack, View, runs, RunsSeen, admitting, infra, asked)
      /\ StackInv(stack, stack, runs, RunsSeen, admitting, infra, asked)
      /\ StackInv(stack, View, runs, runs, admitting, infra, asked)
  BY StackRefreshed, RunsRefreshed DEF Before
<1>2. CASE CacheStack
  <2>1. /\ UNCHANGED <<stack, runs, admitting, infra, asked>>
        /\ View' = stack /\ RunsSeen' = RunsSeen
    BY <1>2 DEF CacheStack, View, RunsSeen, worldVars
  <2> QED
    BY <1>1, <2>1
<1>3. CASE CacheRuns
  <2>1. /\ UNCHANGED <<stack, runs, admitting, infra, asked>>
        /\ View' = View /\ RunsSeen' = runs
    BY <1>3 DEF CacheRuns, View, RunsSeen, worldVars
  <2> QED
    BY <1>1, <2>1
<1>4. CASE RestartManager
  <2>1. /\ UNCHANGED <<stack, runs, infra, asked>> /\ admitting' = 0
        /\ View' = stack /\ RunsSeen' = runs
    BY <1>4 DEF RestartManager, View, RunsSeen
  <2>2. StackInv(stack, stack, runs, runs, admitting, infra, asked)
    BY <1>1, RunsRefreshed
  <2>3. StackInv(stack, stack, runs, runs, 0, infra, asked)
    BY <2>2, AdmissionForgotten
  <2> QED
    BY <2>1, <2>3
<1> QED
  BY <1>2, <1>3, <1>4

(* The initial state. *)
LEMMA InitHolds ==
  ASSUME StackInit
  PROVE  StackInvariant
<1>1. PICK input \in Inputs :
       stack = [exists |-> TRUE, deleting |-> FALSE, finalizer |-> FALSE,
                gen |-> 1, input |-> input, desired |-> "Present",
                fence |-> FALSE, reason |-> "", observed |-> 0, latest |-> 0,
                converged |-> None, applied |-> FALSE]
  BY DEF StackInit
<1>2. /\ View = stack /\ RunsSeen = <<>> /\ runs = <<>>
      /\ stackView = stack /\ runsView = <<>>
      /\ admitting = 0 /\ infra = Absent /\ asked = FALSE
      /\ edits = 0 /\ faults = 0
  BY DEF StackInit, View, RunsSeen
<1>3. /\ stack \in Stack /\ stack.gen = 1 /\ stack.observed = 0
      /\ stack.latest = 0 /\ stack.exists /\ ~stack.deleting
      /\ stack.desired = "Present" /\ stack.reason = ""
  BY <1>1 DEF Stack, Reasons
<1>4. <<>> \in Seq(Run) /\ Len(<<>>) = 0 /\ DOMAIN <<>> = {}
  OBVIOUS
<1>5. Types(stack, stack, <<>>, <<>>, 0, Absent, FALSE)
  <2>1. 0 \in 0..0
    OBVIOUS
  <2>2. stack.latest \in 0..Len(<<>>) /\ 0 \in 0..Len(<<>>)
    BY <1>3, <1>4, <2>1, Zenon
  <2> QED
    BY <1>3, <1>4, <2>2, Zenon DEF Types
<1>6. StackParts(stack, stack, FALSE)
  <2>1. 0 <= 1 /\ 1 <= 1
    OBVIOUS
  <2>2. stack.observed <= stack.gen /\ stack.gen <= stack.gen
    BY <1>3, <2>1, Zenon
  <2>3. ~Leaves(stack)
    BY <1>3 DEF Leaves
  <2>4. StackFacts(stack) /\ EarlierStack(stack, stack)
    BY <1>3, <2>2, Zenon DEF StackFacts, EarlierStack
  <2> QED
    BY <2>3, <2>4, Zenon DEF StackParts
<1>7. RunParts(stack, stack, <<>>, <<>>, FALSE)
  <2>1. Len(<<>>) <= Len(<<>>)
    BY <1>4
  <2>2. EarlierRuns(<<>>, <<>>)
    BY <1>4, <2>1, Zenon DEF EarlierRuns
  <2>3. /\ ApplySeen(<<>>, <<>>) /\ LaterAttempts(<<>>, <<>>)
        /\ UnseenAttempts(<<>>, <<>>)
    BY <1>4, Zenon DEF ApplySeen, LaterAttempts, UnseenAttempts
  <2> QED
    BY <1>4, <2>2, <2>3, Zenon DEF RunParts
<1>8. InfraParts(stack, stack, <<>>, <<>>, 0, Absent)
  BY <1>3, <1>4
  DEF InfraParts, OneApply, Alone, Emptied, Built, Untouched
<1>9. StackInv(stack, View, runs, RunsSeen, admitting, infra, asked)
  BY <1>2, <1>5, <1>6, <1>7, <1>8 DEF StackInv
<1>10. 0 \in 0..MaxEdits /\ 0 \in 0..MaxFaults
  BY BoundsAssumption
<1> QED
  BY <1>2, <1>3, <1>4, <1>9, <1>10 DEF StackInvariant

(* Every step preserves the invariant. *)
LEMMA StackStep ==
  ASSUME StackInvariant, [StackNext]_stackVars
  PROVE  StackInvariant'
<1>1. CASE UNCHANGED stackVars
  <2>1. UNCHANGED <<stack, runs, stackView, runsView, admitting, infra, asked,
                    edits, faults>>
    BY <1>1 DEF stackVars, viewVars, worldVars
  <2>2. View' = View /\ RunsSeen' = RunsSeen
    BY <2>1 DEF View, RunsSeen
  <2> QED
    BY <2>1, <2>2 DEF StackInvariant
<1>2. CASE StackNext
  <2>1. Before
    BY DEF StackInvariant, Before
  <2>2. Acts \/ CacheStack \/ CacheRuns \/ RestartManager
    BY <1>2 DEF StackNext, Acts
  <2>3. StackInv(stack', View', runs', RunsSeen', admitting', infra', asked')
    BY <2>1, <2>2, ActsPreserve, ActsKeepViews, SeenAgain, CachesPreserve
  <2>4. edits' \in 0..MaxEdits /\ faults' \in 0..MaxFaults
    BY <1>2, CountersStep DEF StackInvariant
  <2>5. stack \in Stack /\ runs \in Seq(Run)
    BY <2>1 DEF Before, StackInv, Types
  <2>6. stackView' \in Stack /\ runsView' \in Seq(Run)
    <3>1. stackView \in Stack /\ runsView \in Seq(Run)
      BY DEF StackInvariant
    <3>2. CASE Acts
      BY <3>1, <3>2, ActsKeepViews DEF viewVars
    <3>3. CASE CacheStack \/ CacheRuns \/ RestartManager
      BY <2>5, <3>1, <3>3 DEF CacheStack, CacheRuns, RestartManager
    <3> QED
      BY <2>2, <3>2, <3>3
  <2> QED
    BY <2>3, <2>4, <2>6 DEF StackInvariant
<1> QED
  BY <1>1, <1>2

-----------------------------------------------------------------------------
(* The theorems. *)

(* The invariant holds in every behaviour. *)
THEOREM StackInvariantHolds == StackSpec => []StackInvariant
<1>1. StackInit => StackInvariant
  BY InitHolds
<1>2. StackInvariant /\ [StackNext]_stackVars => StackInvariant'
  BY StackStep
<1> QED
  BY <1>1, <1>2, PTL DEF StackSpec

(* The stack, its runs and their caches keep their types (Reconcile,         *)
(* ensurePlanRun and ensureApplyRun), whatever they read stale.              *)
THEOREM StackTypeCorrect == StackSpec => []StackTypeOK
<1>1. StackInvariant => StackTypeOK
  BY DEF StackInvariant, StackInv, Types, StackTypeOK
<1> QED
  BY <1>1, StackInvariantHolds, PTL

(* A stack that is reported as removed, or gone, has no infrastructure left  *)
(* and no Apply under way (reconcileDestroy and validateApplyAdmission).     *)
THEOREM RemovalIsTrue == StackSpec => []RemovedMeansRemoved
<1>1. StackInvariant => RemovedMeansRemoved
  <2> SUFFICES ASSUME StackInvariant,
                      ~stack.exists \/ stack.reason = "InfrastructureRemoved"
               PROVE  /\ infra = Absent
                      /\ \A p \in DOMAIN runs : runs[p].apply # "Started"
    BY DEF RemovedMeansRemoved
  <2>1. StackInv(stack, View, runs, RunsSeen, admitting, infra, asked)
    BY DEF StackInvariant
  <2>2. CASE stack.reason = "InfrastructureRemoved"
    BY <2>1, <2>2 DEF StackInv, InfraParts, Gone
  <2>3. CASE stack.reason # "InfrastructureRemoved"
    <3>1. ~stack.finalizer
      BY <2>1, <2>3 DEF StackInv, StackParts, StackFacts
    <3>2. runs = <<>>
      BY <2>1, <2>3, <3>1 DEF StackInv, InfraParts, Untouched
    <3>3. DOMAIN runs = {}
      BY <3>2
    <3> QED
      BY <2>1, <3>3 DEF StackInv, InfraParts, Built
  <2> QED
    BY <2>2, <2>3
<1> QED
  BY <1>1, StackInvariantHolds, PTL

(* Since there is a Destroy Plan of the current generation, no other Apply   *)
(* is under way (reconcileDestroy before ensurePlanRun, and                  *)
(* validateApplyAdmission).                                                  *)
THEOREM DestroyAlone == StackSpec => []DestroyPlansAlone
<1>1. StackInvariant => DestroyPlansAlone
  BY DEF StackInvariant, StackInv, InfraParts, Alone, DestroyPlansAlone
<1> QED
  BY <1>1, StackInvariantHolds, PTL

-----------------------------------------------------------------------------
(* The promise of the stack: which Apply runs.                               *)

(* Nothing starts or ends from r to n. *)
SameRunning(r, n) ==
  /\ {p \in DOMAIN n : n[p].apply = "Started"} =
       {p \in DOMAIN r : r[p].apply = "Started"}
  /\ \A p \in DOMAIN r : n[p].mode = r[p].mode

(* Then the running mode stays. *)
LEMMA RunningStays ==
  ASSUME SameRunning(runs, runs')
  PROVE  RunningMode' = RunningMode
<1> DEFINE running == {p \in DOMAIN runs : runs[p].apply = "Started"}
<1> DEFINE last == CHOOSE p \in running : TRUE
<1>1. /\ RunningMode = IF running = {} THEN "none" ELSE runs[last].mode
      /\ RunningMode' = IF running = {} THEN "none" ELSE runs'[last].mode
  BY Zenon DEF RunningMode, SameRunning
<1>2. running # {} => last \in DOMAIN runs
  OBVIOUS
<1> HIDE DEF last
<1>3. running # {} => runs'[last].mode = runs[last].mode
  BY <1>2 DEF SameRunning
<1> QED
  BY <1>1, <1>3

(* Without a started Apply none is running. *)
LEMMA NoneRunning ==
  ASSUME \A p \in DOMAIN runs : runs[p].apply # "Started"
  PROVE  RunningMode = "none"
  BY DEF RunningMode

(* The one that is started tells the mode. *)
LEMMA OneRunning ==
  ASSUME NEW p \in DOMAIN runs, runs[p].apply = "Started",
         \A q \in DOMAIN runs : runs[q].apply = "Started" => q = p
  PROVE  RunningMode = runs[p].mode
<1> DEFINE running == {q \in DOMAIN runs : runs[q].apply = "Started"}
<1>1. running = {p}
  OBVIOUS
<1>2. (CHOOSE q \in running : TRUE) = p
  BY <1>1
<1> HIDE DEF running
<1>3. RunningMode = runs[CHOOSE q \in running : TRUE].mode
  BY <1>1 DEF RunningMode, running
<1> QED
  BY <1>2, <1>3

(* Changing an Apply that neither was nor is started. *)
LEMMA OtherStates ==
  ASSUME NEW p \in DOMAIN runs, OnlyAt(runs, runs', p),
         runs'[p].mode = runs[p].mode,
         runs[p].apply # "Started", runs'[p].apply # "Started"
  PROVE  SameRunning(runs, runs')
  BY DEF OnlyAt, SameRunning

(* Changing a Plan, whatever its Apply does. *)
LEMMA PlanStates ==
  ASSUME NEW p \in DOMAIN runs, OnlyAt(runs, runs', p),
         runs'[p].mode = runs[p].mode, runs'[p].apply = runs[p].apply
  PROVE  SameRunning(runs, runs')
  BY DEF OnlyAt, SameRunning

-----------------------------------------------------------------------------
(* The promise of the stack: what the reconciler reports.                    *)

(* The stack s as its owner sees it. *)
Shown(s) ==
  [exists |-> s.exists, deleting |-> s.deleting, finalizer |-> s.finalizer,
   desired |-> s.desired, fence |-> s.fence,
   reason |-> CASE s.reason = "InfrastructureReady" -> "Ready"
                [] s.reason = "InfrastructureRemoved" -> "Removed"
                [] s.reason = "RecoveryRequired" -> "Recovery"
                [] OTHER -> "Pending",
   current |-> s.observed = s.gen]

(* What the owner sees. *)
LEMMA ShownSays ==
  ASSUME NEW s \in Stack
  PROVE  /\ Shown(s) \in Promise!StackRecord
         /\ Shown(s).exists = s.exists /\ Shown(s).deleting = s.deleting
         /\ Shown(s).finalizer = s.finalizer
         /\ Shown(s).desired = s.desired /\ Shown(s).fence = s.fence
         /\ Shown(s).current <=> s.observed = s.gen
         /\ Shown(s).reason = "Ready" <=> s.reason = "InfrastructureReady"
         /\ Shown(s).reason = "Removed" <=> s.reason = "InfrastructureRemoved"
         /\ Shown(s).reason = "Recovery" <=> s.reason = "RecoveryRequired"
<1> DEFINE reason == CASE s.reason = "InfrastructureReady" -> "Ready"
                       [] s.reason = "InfrastructureRemoved" -> "Removed"
                       [] s.reason = "RecoveryRequired" -> "Recovery"
                       [] OTHER -> "Pending"
<1>1. /\ reason \in {"Pending", "Ready", "Removed", "Recovery"}
      /\ reason = "Ready" <=> s.reason = "InfrastructureReady"
      /\ reason = "Removed" <=> s.reason = "InfrastructureRemoved"
      /\ reason = "Recovery" <=> s.reason = "RecoveryRequired"
  OBVIOUS
<1> DEFINE current == s.observed = s.gen
<1>2. current \in BOOLEAN
  OBVIOUS
<1>3. Shown(s) = [exists |-> s.exists, deleting |-> s.deleting,
                  finalizer |-> s.finalizer, desired |-> s.desired,
                  fence |-> s.fence, reason |-> reason, current |-> current]
  BY DEF Shown
<1> HIDE DEF reason, current
<1>4. /\ Shown(s) \in Promise!StackRecord
      /\ Shown(s).exists = s.exists /\ Shown(s).deleting = s.deleting
      /\ Shown(s).finalizer = s.finalizer
      /\ Shown(s).desired = s.desired /\ Shown(s).fence = s.fence
      /\ Shown(s).current = current /\ Shown(s).reason = reason
  BY <1>1, <1>2, <1>3, StackTypes
  DEF Promise!StackRecord, Promise!StackReasons
<1> QED
  BY <1>1, <1>4, Zenon DEF current

(* Records that differ only in some parts. *)
LEMMA ShownChanges ==
  ASSUME NEW s \in Promise!StackRecord, NEW n \in Promise!StackRecord
  PROVE  /\ /\ n.exists = s.exists /\ n.deleting = s.deleting
            /\ n.finalizer = s.finalizer /\ n.desired = s.desired
            /\ n.fence = s.fence
            => n = [s EXCEPT !.reason = n.reason, !.current = n.current]
         /\ /\ n.deleting = s.deleting /\ n.desired = s.desired
            /\ n.fence = s.fence /\ n.reason = s.reason
            /\ n.current = s.current
            => n = [s EXCEPT !.finalizer = n.finalizer, !.exists = n.exists]
         /\ /\ n.deleting = s.deleting /\ n.desired = s.desired
            /\ n.exists = s.exists /\ n.finalizer = s.finalizer
            /\ n.reason = s.reason
            => n = [s EXCEPT !.fence = n.fence, !.current = n.current]
  BY DEF Promise!StackRecord

(* n reports on the stack under the conditions of Justified; for the removal *)
(* the invariant gives the rest.                                             *)
JustReports(n) ==
  /\ \E r : Reports(n, stack, r)
  /\ n.reason = "InfrastructureReady" => ~Leaves(stack) /\ ~stack.fence
  /\ n.reason \in {"RecoveryRequired", "InfrastructureRemoved"} =>
       Leaves(stack) /\ stack.fence
  /\ stack.reason = "InfrastructureRemoved" /\ Leaves(stack) =>
       n.reason = "InfrastructureRemoved"

ReportsAsPromised ==
  \E n : /\ JustReports(n)
         /\ \/ stack' = n
            \/ n.reason = "InfrastructureRemoved" /\ stack' \in Releases(n)

(* Such a step is one of the promise. *)
LEMMA ReportsArePromised ==
  ASSUME Before, After, Reconciled, View = stack, ReportsAsPromised,
         UNCHANGED <<infra, asked>>, SameRunning(runs, runs')
  PROVE  \/ \E reason \in Promise!StackReasons : Promise!Report(reason)
         \/ Promise!ReportAndRelease
<1>1. PICK n : /\ JustReports(n)
               /\ \/ stack' = n
                  \/ /\ n.reason = "InfrastructureRemoved"
                     /\ stack' \in Releases(n)
  BY DEF ReportsAsPromised
<1>2. PICK r : Reports(n, stack, r)
  BY <1>1 DEF JustReports
<1>3. /\ stack \in Stack /\ n \in Stack /\ n.exists = stack.exists
      /\ n.deleting = stack.deleting /\ n.finalizer = stack.finalizer
      /\ n.gen = stack.gen /\ n.desired = stack.desired
      /\ n.fence = stack.fence /\ n.observed = n.gen
      /\ stack.finalizer /\ stack.exists
  BY <1>2, ReconciledHasFinalizer DEF Reports
<1>4. RunningMode' = RunningMode
  BY RunningStays
<1>5. stack' \in Stack
  BY DEF After, StackInv, Types
<1> DEFINE old == Shown(stack)
<1> DEFINE new == Shown(n)
<1>6. /\ AsPromised = old /\ old \in Promise!StackRecord
      /\ new \in Promise!StackRecord
      /\ old.exists /\ old.finalizer /\ old.deleting = stack.deleting
      /\ old.desired = stack.desired /\ old.fence = stack.fence
      /\ old.reason = "Removed" <=> stack.reason = "InfrastructureRemoved"
      /\ new.exists = old.exists /\ new.deleting = old.deleting
      /\ new.finalizer = old.finalizer /\ new.desired = old.desired
      /\ new.fence = old.fence /\ new.current
      /\ new.reason = "Ready" <=> n.reason = "InfrastructureReady"
      /\ new.reason = "Removed" <=> n.reason = "InfrastructureRemoved"
      /\ new.reason = "Recovery" <=> n.reason = "RecoveryRequired"
  BY <1>3, ShownSays DEF AsPromised, Shown
<1>7. new.current = TRUE /\ new.reason \in Promise!StackReasons
  BY <1>6 DEF Promise!StackRecord
<1> HIDE DEF old, new
<1>8. new = Promise!Reported(new.reason)
  BY <1>6, <1>7, ShownChanges DEF Promise!Reported
<1>9. n.reason = "InfrastructureRemoved" =>
        infra = Absent /\ RunningMode = "none"
  <2> SUFFICES ASSUME n.reason = "InfrastructureRemoved"
               PROVE  infra' = Absent /\ RunningMode' = "none"
    BY <1>4
  <2>1. stack'.reason = "InfrastructureRemoved"
    BY <1>1, <1>3 DEF Releases, Stack
  <2>2. Gone(stack', View, runs', RunsSeen, admitting', infra')
    BY <2>1 DEF After, StackInv, InfraParts
  <2>3. \A p \in DOMAIN runs' : runs'[p].apply # "Started"
    BY <2>2 DEF Gone
  <2>4. RunningMode' = "none"
    BY <2>3 DEF RunningMode
  <2> QED
    BY <2>2, <2>4 DEF Gone
<1>10. Promise!AskedToGo <=> Leaves(stack)
  BY <1>6 DEF Promise!AskedToGo, Leaves
<1>11. Promise!Justified(new.reason)
  BY <1>1, <1>6, <1>9, <1>10 DEF JustReports, Promise!Justified
<1>12. Promise!Reconcilable /\ Promise!KeepsInfra
  BY <1>4, <1>6 DEF Promise!Reconcilable, Promise!KeepsInfra
<1>13. CASE stack' = n
  <2>1. AsPromised' = new
    BY <1>13 DEF AsPromised, Shown, new
  <2>2. Promise!Report(new.reason)
    BY <1>8, <1>11, <1>12, <2>1, Zenon DEF Promise!Report
  <2> QED
    BY <1>7, <2>2
<1>14. CASE /\ n.reason = "InfrastructureRemoved"
            /\ stack' = [n EXCEPT !.finalizer = FALSE, !.exists = ~n.deleting]
  <2>1. /\ stack'.deleting = n.deleting /\ stack'.desired = n.desired
        /\ stack'.fence = n.fence /\ stack'.reason = n.reason
        /\ stack'.observed = n.observed /\ stack'.gen = n.gen
        /\ stack'.finalizer = FALSE /\ stack'.exists = ~n.deleting
    BY <1>3, <1>14 DEF Stack
  <2> DEFINE last == Shown(stack')
  <2>2. AsPromised' = last
    BY DEF AsPromised, Shown
  <2>3. /\ last \in Promise!StackRecord /\ last.exists = stack'.exists
        /\ last.deleting = stack'.deleting
        /\ last.finalizer = stack'.finalizer
        /\ last.desired = stack'.desired /\ last.fence = stack'.fence
        /\ last.current <=> stack'.observed = stack'.gen
        /\ last.reason = "Removed" <=> stack'.reason = "InfrastructureRemoved"
    BY <1>5, ShownSays
  <2> HIDE DEF last
  <2>4. last.deleting = new.deleting /\ last.desired = new.desired
        /\ last.fence = new.fence
    BY <1>3, <1>6, <2>1, <2>3, Zenon
  <2>5. last.finalizer = FALSE /\ last.exists = ~old.deleting
    BY <1>3, <1>6, <2>1, <2>3, Zenon
  <2>6. last.current
    BY <1>3, <2>1, <2>3
  <2>7. last.current = TRUE
    BY <2>3, <2>6 DEF Promise!StackRecord
  <2>8. new.reason = "Removed" /\ last.reason = "Removed"
    BY <1>6, <1>14, <2>1, <2>3
  <2>9. last = [new EXCEPT !.finalizer = last.finalizer, !.exists = last.exists]
    <3>1. last.current = new.current /\ last.reason = new.reason
      BY <1>7, <2>7, <2>8, Zenon
    <3>2. last \in Promise!StackRecord /\ new \in Promise!StackRecord
      BY <1>6, <2>3, Zenon
    <3> QED
      BY <2>4, <3>1, <3>2, ShownChanges
  <2>10. last = [new EXCEPT !.finalizer = FALSE, !.exists = ~old.deleting]
    BY <2>5, <2>9, Zenon
  <2> QED
    BY <1>6, <1>8, <1>11, <1>12, <2>2, <2>8, <2>10, Zenon
    DEF Promise!ReportAndRelease
<1> QED
  BY <1>1, <1>13, <1>14 DEF Releases

(* What is left to show of every step. *)
StepPromised == [Promise!PromiseNext]_(Promise!promiseVars)

(* Nothing an owner could see has changed. *)
LEMMA NothingToSee ==
  ASSUME UNCHANGED <<stack, infra, asked>>, SameRunning(runs, runs')
  PROVE  StepPromised
<1>1. UNCHANGED AsPromised
  BY DEF AsPromised
<1>2. RunningMode' = RunningMode
  BY RunningStays
<1> QED
  BY <1>1, <1>2 DEF StepPromised, Promise!promiseVars

(* A report, or a conflict. *)
LEMMA ReportStep ==
  ASSUME Before, After, Reconciled, UNCHANGED <<infra, asked>>,
         SameRunning(runs, runs'),
         stack' = stack \/ (View = stack /\ ReportsAsPromised)
  PROVE  StepPromised
<1>1. CASE stack' = stack
  BY <1>1, NothingToSee
<1>2. CASE View = stack /\ ReportsAsPromised
  BY <1>2, ReportsArePromised
  DEF StepPromised, Promise!PromiseNext, Promise!StackReconciler
<1> QED
  BY <1>1, <1>2

(* A step that only writes the stack. *)
LEMMA WriteStep ==
  ASSUME Before, After, Reconciled, NEW n, NEW m, UpdateOnly(m),
         View = stack =>
           /\ JustReports(n)
           /\ m = n \/ (n.reason = "InfrastructureRemoved" /\ m \in Releases(n))
  PROVE  StepPromised
<1>1. UNCHANGED <<runs, infra, asked>>
  BY DEF UpdateOnly, worldVars
<1>2. SameRunning(runs, runs')
  BY <1>1 DEF SameRunning
<1>3. stack' = stack \/ (View = stack /\ ReportsAsPromised)
  BY DEF UpdateOnly, Update, ReportsAsPromised
<1> QED
  BY <1>1, <1>2, <1>3, ReportStep

(* Reports that follow a Plan are due. *)
LEMMA PlanReportsAreDue ==
  ASSUME PlansRun, View = stack, NEW n, NEW r, Reports(n, stack, r),
         n.reason \notin {"InfrastructureRemoved", "RecoveryRequired"},
         n.reason = "InfrastructureReady" => Mode = "Reconcile"
  PROVE  JustReports(n)
<1>1. /\ Mode \in {"Reconcile", "Destroy"}
      /\ Mode = "Destroy" => Settled
      /\ Mode = "Reconcile" => ~Destroying /\ ~View.fence
  BY PlansRunWhen
<1>2. Leaves(stack) <=> Destroying
  BY DEF Leaves, Destroying
<1>3. Settled => stack.reason # "InfrastructureRemoved"
  BY DEF Settled, Remains
<1> QED
  BY <1>1, <1>2, <1>3 DEF JustReports

(* So are those of a removal. *)
LEMMA RemovalIsDue ==
  ASSUME Destroys, View = stack, NEW n, NEW r, Reports(n, stack, r),
         n.reason = "InfrastructureRemoved"
  PROVE  JustReports(n)
  BY DEF Destroys, Destroying, Leaves, JustReports

(* The conditions before any Plan. *)
LEMMA ConditionsPromised ==
  ASSUME Before, After,
         \/ HoldPresent \/ RequireRecovery \/ HoldDeletion \/ RefuseToGuess
         \/ ReleaseRemoved \/ RemoveNothing
  PROVE  StepPromised
<1>1. CASE HoldPresent
  <2> DEFINE n == Condition("MutationFence")
  <2>1. Reconciled /\ ~Destroying /\ UpdateOnly(n) /\ "MutationFence" \in Reasons
    BY <1>1 DEF HoldPresent, Reasons
  <2>2. ASSUME View = stack PROVE JustReports(n)
    <3>1. Reports(n, stack, runs) /\ n.reason = "MutationFence"
      BY <2>1, <2>2, ConditionReports
    <3>2. ~Leaves(stack)
      BY <2>1, <2>2 DEF Leaves, Destroying
    <3> HIDE DEF n
    <3> QED
      BY <3>1, <3>2 DEF JustReports
  <2> HIDE DEF n
  <2> QED
    BY <2>1, <2>2, WriteStep
<1>2. CASE RequireRecovery \/ HoldDeletion \/ RefuseToGuess
  <2>1. PICK reason \in {"RecoveryRequired", "DeletionHeld"} :
          Remains /\ UpdateOnly(Condition(reason))
    BY <1>2 DEF RequireRecovery, HoldDeletion, RefuseToGuess, Settled
  <2>2. /\ Reconciled /\ Destroying /\ View.fence
        /\ View.reason # "InfrastructureRemoved"
    BY <2>1 DEF Remains, Destroys
  <2>3. reason \in Reasons
    BY DEF Reasons
  <2> DEFINE n == Condition(reason)
  <2>4. ASSUME View = stack PROVE JustReports(n)
    <3>1. Reports(n, stack, runs) /\ n.reason = reason
      BY <2>3, <2>4, ConditionReports
    <3>2. /\ Leaves(stack) /\ stack.fence
          /\ stack.reason # "InfrastructureRemoved"
      BY <2>2, <2>4 DEF Leaves, Destroying
    <3> HIDE DEF n
    <3> QED
      BY <3>1, <3>2 DEF JustReports
  <2>5. UpdateOnly(n)
    BY <2>1
  <2> HIDE DEF n
  <2> QED
    BY <2>2, <2>4, <2>5, WriteStep
<1>3. CASE ReleaseRemoved \/ RemoveNothing
  <2> DEFINE n == Condition("InfrastructureRemoved")
  <2>1. PICK m \in Releases(n) : Destroys /\ UpdateOnly(m)
    BY <1>3 DEF ReleaseRemoved, RemoveNothing, Settled, Remains
  <2>2. Reconciled /\ "InfrastructureRemoved" \in Reasons
    BY <2>1 DEF Destroys, Reasons
  <2>3. ASSUME View = stack
        PROVE  JustReports(n) /\ n.reason = "InfrastructureRemoved"
    <3>1. Reports(n, stack, runs) /\ n.reason = "InfrastructureRemoved"
      BY <2>2, <2>3, ConditionReports
    <3> HIDE DEF n
    <3> QED
      BY <2>1, <2>3, <3>1, RemovalIsDue
  <2> HIDE DEF n
  <2> QED
    BY <2>1, <2>2, <2>3, WriteStep
<1> QED
  BY <1>1, <1>2, <1>3

(* A report after a Plan was followed. *)
LEMMA FollowingPromised ==
  ASSUME Before, After, NEW p \in Plans, Follows(p),
         NEW reason \in {"PlanPending", "WaitingApproval", "Applying",
                         "ApplyBlocked", "ApplyFailed", "ApplyIndeterminate"},
         UpdateOnly(Following(p, reason))
  PROVE  StepPromised
<1>1. PlansRun /\ Reconciled /\ reason \in Reasons
  BY PlansRunWhen DEF Follows, Reasons
<1> DEFINE n == Following(p, reason)
<1>2. ASSUME View = stack PROVE JustReports(n)
  <2>1. Reports(n, stack, runs) /\ n.reason = reason
    BY <1>1, <1>2, FollowingReports
  <2> HIDE DEF n
  <2> QED
    BY <1>1, <1>2, <2>1, PlanReportsAreDue
<1>3. UpdateOnly(n)
  OBVIOUS
<1> HIDE DEF n
<1> QED
  BY <1>1, <1>2, <1>3, WriteStep

(* Infrastructure was removed. *)
LEMMA RemovedPromised ==
  ASSUME Before, After, NEW p \in Plans, Follows(p), Mode = "Destroy",
         NEW m \in Removed(p), UpdateOnly(m)
  PROVE  StepPromised
<1> DEFINE n == Following(p, "InfrastructureRemoved")
<1>1. Reconciled /\ Destroys /\ "InfrastructureRemoved" \in Reasons
  BY PlansRunWhen DEF Follows, Settled, Remains, Reasons
<1>2. m \in Releases(n)
  BY DEF Removed, Releases
<1>3. ASSUME View = stack
      PROVE  JustReports(n) /\ n.reason = "InfrastructureRemoved"
  <2>1. Reports(n, stack, runs) /\ n.reason = "InfrastructureRemoved"
    BY <1>1, <1>3, FollowingReports
  <2> HIDE DEF n
  <2> QED
    BY <1>1, <1>3, <2>1, RemovalIsDue
<1> HIDE DEF n
<1> QED
  BY <1>1, <1>2, <1>3, WriteStep

(* The verdict on a target that a run has found is due. *)
LEMMA DiscoveredIsDue ==
  ASSUME Before, View = stack, NEW p \in Plans, Follows(p), Mode = "Reconcile",
         NEW n \in Discovered(p)
  PROVE  JustReports(n) /\ n \in Stack
<1>1. PlansRun
  BY DEF Follows
<1>2. Reports(n, stack, runs)
  BY DiscoveredReports
<1>3. n.reason \in {"InfrastructureReady", "TargetDiscoveryRejected"}
  <2>1. CASE n = Converged(p)
    BY <2>1, ConvergedReports
  <2>2. CASE n = Following(p, "TargetDiscoveryRejected")
    <3>1. "TargetDiscoveryRejected" \in Reasons
      BY DEF Reasons
    <3> QED
      BY <2>2, <3>1, FollowingReports
  <2> QED
    BY <2>1, <2>2 DEF Discovered
<1>4. JustReports(n)
  BY <1>1, <1>2, <1>3, PlanReportsAreDue
<1> QED
  BY <1>2, <1>4 DEF Reports

(* A Plan without changes. *)
LEMMA NoChangePromised ==
  ASSUME Before, After, NEW p \in Plans, FollowNoChange(p)
  PROVE  StepPromised
<1>1. Follows(p) /\ Reconciled /\ Mode \in {"Reconcile", "Destroy"}
  BY PlansRunWhen DEF Follows, FollowNoChange
<1>2. CASE Mode = "Destroy"
  <2>1. PICK m \in Removed(p) : UpdateOnly(m)
    BY <1>2 DEF FollowNoChange
  <2> QED
    BY <1>1, <1>2, <2>1, RemovedPromised
<1>3. CASE Mode = "Reconcile"
  <2>1. PICK m \in Discovered(p) : UpdateOnly(m)
    BY <1>3 DEF FollowNoChange
  <2>2. View = stack => JustReports(m)
    BY <1>1, <1>3, <2>1, DiscoveredIsDue
  <2> QED
    BY <1>1, <2>1, <2>2, WriteStep
<1> QED
  BY <1>1, <1>2, <1>3

(* An Apply that exists is followed. *)
LEMMA FollowApplyPromised ==
  ASSUME Before, After, NEW p \in Plans, FollowApply(p)
  PROVE  StepPromised
<1>1. Follows(p) /\ Reconciled /\ Mode \in {"Reconcile", "Destroy"}
  BY PlansRunWhen DEF Follows, FollowApply, Approved
<1>2. PICK m \in AfterApply(p, RunsSeen[p].apply) : UpdateOnly(m)
  BY DEF FollowApply
<1>3. CASE RunsSeen[p].apply = "Succeeded" /\ Mode = "Destroy"
  <2>1. m \in Removed(p)
    BY <1>2, <1>3 DEF AfterApply
  <2> QED
    BY <1>1, <1>2, <1>3, <2>1, RemovedPromised
<1>4. CASE RunsSeen[p].apply = "Succeeded" /\ Mode = "Reconcile"
  <2>1. PICK n \in Discovered(p) : m = [n EXCEPT !.applied = TRUE]
    BY <1>2, <1>4 DEF AfterApply
  <2>2. ASSUME View = stack PROVE JustReports(m)
    <3>1. JustReports(n) /\ n \in Stack
      BY <1>1, <1>4, <2>1, <2>2, DiscoveredIsDue
    <3>2. /\ m \in Stack /\ m.reason = n.reason /\ m.exists = n.exists
          /\ m.deleting = n.deleting /\ m.finalizer = n.finalizer
          /\ m.gen = n.gen /\ m.input = n.input /\ m.desired = n.desired
          /\ m.fence = n.fence /\ m.observed = n.observed
          /\ m.latest = n.latest /\ m.converged = n.converged
      BY <2>1, <3>1 DEF Stack
    <3>3. \A r : Reports(n, stack, r) => Reports(m, stack, r)
      BY <3>2 DEF Reports
    <3> QED
      BY <3>1, <3>2, <3>3 DEF JustReports
  <2> QED
    BY <1>1, <1>2, <2>2, WriteStep
<1>5. CASE RunsSeen[p].apply # "Succeeded"
  <2>1. PICK reason \in {"ApplyIndeterminate", "ApplyFailed", "Applying"} :
          m = Following(p, reason)
    BY <1>2, <1>5 DEF AfterApply
  <2> QED
    BY <1>1, <1>2, <2>1, FollowingPromised
<1> QED
  BY <1>1, <1>3, <1>4, <1>5

(* A Plan that is created does not run. *)
LEMMA CreatePlanPromised ==
  ASSUME Before, After, FirstPlan \/ NextPlan
  PROVE  StepPromised
<1>1. PlansRun /\ CreatePlan /\ Reconciled
  BY PlansRunWhen DEF FirstPlan, NextPlan
<1>2. NewRun \in Run /\ NewRun.apply = None
  BY <1>1, NewRunSays
<1> DEFINE n == [Condition("PlanPending") EXCEPT !.latest = Len(runs) + 1]
<1>3. /\ runs' = Append(runs, NewRun) /\ ThenUpdate(n)
      /\ UNCHANGED <<infra, asked>>
  BY <1>1 DEF CreatePlan, worldVars
<1>4. SameRunning(runs, runs')
  <2>1. runs \in Seq(Run)
    BY DEF Before, StackInv, Types
  <2> DEFINE y == NewRun
  <2>2. y \in Run /\ y.apply # "Started" /\ runs' = Append(runs, y)
    BY <1>2, <1>3 DEF None
  <2> HIDE DEF y
  <2>3. /\ Len(runs) \in Nat /\ DOMAIN runs = 1..Len(runs)
        /\ DOMAIN runs' = 1..(Len(runs) + 1)
        /\ \A p \in DOMAIN runs : runs'[p] = runs[p]
        /\ runs'[Len(runs) + 1] = y
    BY <2>1, <2>2, RunsAreNumbered, AppendProperties
  <2>4. \A p \in DOMAIN runs' : p \in DOMAIN runs \/ p = Len(runs) + 1
    BY <2>3
  <2>5. DOMAIN runs \subseteq DOMAIN runs'
    BY <2>3
  <2>6. \A p \in DOMAIN runs' : runs'[p].apply = "Started" => p \in DOMAIN runs
    BY <2>2, <2>3, <2>4
  <2> QED
    BY <2>3, <2>5, <2>6 DEF SameRunning
<1>5. ASSUME View = stack PROVE JustReports(n)
  <2>1. /\ Reports(n, stack, Append(runs, NewRun))
        /\ n.reason = "PlanPending"
    <3>1. "PlanPending" \in Reasons
      BY DEF Reasons
    <3> DEFINE c == Condition("PlanPending")
    <3>2. c \in Stack /\ c.reason = "PlanPending"
      BY <1>5, <3>1, ConditionReports DEF Reports
    <3> HIDE DEF c
    <3>3. [c EXCEPT !.latest = Len(runs) + 1].reason = c.reason
      BY <3>2 DEF Stack
    <3> QED
      BY <1>2, <1>5, <3>2, <3>3, PendingReports DEF c
  <2> HIDE DEF n
  <2> QED
    BY <1>1, <1>5, <2>1, PlanReportsAreDue
<1>6. stack' = stack \/ (View = stack /\ stack' = n)
  BY <1>3 DEF ThenUpdate, Update
<1> HIDE DEF n
<1>7. stack' = stack \/ (View = stack /\ ReportsAsPromised)
  BY <1>5, <1>6 DEF ReportsAsPromised
<1> QED
  BY <1>1, <1>3, <1>4, <1>7, ReportStep

(* An Apply that is created does not run yet. *)
LEMMA CreateApplyPromised ==
  ASSUME Before, After, NEW p \in Plans, CreateApply(p)
  PROVE  StepPromised
<1>1. Follows(p) /\ PlansRun /\ Reconciled
  BY PlansRunWhen DEF CreateApply, Approved, Follows
<1>2. CASE runs[p].apply # None
  <2>1. UpdateOnly(Following(p, "ApplyBlocked"))
    BY <1>2 DEF CreateApply, UpdateOnly
  <2> QED
    BY <1>1, <2>1, FollowingPromised
<1>3. CASE runs[p].apply = None
  <2> DEFINE n == Following(p, "Applying")
  <2>1. /\ runs' = [runs EXCEPT ![p].apply = "Created"]
        /\ ThenUpdate(n) /\ UNCHANGED <<infra, asked>>
    BY <1>3 DEF CreateApply, worldVars
  <2>2. runs \in Seq(Run) /\ p \in DOMAIN runs
    BY PlansAreOfThePast DEF Before, StackInv, Types, Plans
  <2>3. OnlyApply(runs, runs', p) /\ runs'[p].apply = "Created"
    BY <2>1, <2>2, ApplyReplaced
  <2>4. SameRunning(runs, runs')
    <3>1. runs[p].apply # "Started"
      BY <1>3 DEF None
    <3> QED
      BY <2>2, <2>3, <3>1, OtherStates DEF OnlyApply
  <2>5. ASSUME View = stack PROVE JustReports(n)
    <3>1. "Applying" \in Reasons
      BY DEF Reasons
    <3>2. Reports(n, stack, runs) /\ n.reason = "Applying"
      BY <2>5, <3>1, FollowingReports
    <3> HIDE DEF n
    <3> QED
      BY <1>1, <2>5, <3>2, PlanReportsAreDue
  <2>6. stack' = stack \/ (View = stack /\ stack' = n)
    BY <2>1 DEF ThenUpdate, Update
  <2> HIDE DEF n
  <2>7. stack' = stack \/ (View = stack /\ ReportsAsPromised)
    BY <2>5, <2>6 DEF ReportsAsPromised
  <2> QED
    BY <1>1, <2>1, <2>4, <2>7, ReportStep
<1> QED
  BY <1>2, <1>3

(* Marking an attempt shows nothing. *)
LEMMA SupersedePromised ==
  ASSUME Before, Supersede
  PROVE  StepPromised
<1>1. PICK p \in Attempts :
        runs' = [runs EXCEPT ![p].outcome = "Superseded"]
  BY DEF Supersede
<1>2. UNCHANGED <<stack, infra, asked>>
  BY DEF Supersede, worldVars
<1>3. p \in DOMAIN runs
  BY <1>1, PlansAreOfThePast DEF Before, Attempts, Plans
<1>4. runs \in Seq(Run) /\ runs[p] \in Run
  BY <1>3, OneRun
<1> DEFINE y == [runs[p] EXCEPT !.outcome = "Superseded"]
<1>5. y \in Run /\ y.mode = runs[p].mode /\ y.apply = runs[p].apply
  BY <1>4 DEF Run
<1>6. runs' = [runs EXCEPT ![p] = y]
  BY <1>1
<1> HIDE DEF y
<1>7. OnlyAt(runs, runs', p) /\ runs'[p] = y
  <2>1. OnlyAt(runs, [runs EXCEPT ![p] = y], p)
          /\ [runs EXCEPT ![p] = y][p] = y
    BY <1>3, <1>4, <1>5, ReplacedOnly
  <2> QED
    BY <1>6, <2>1
<1>8. SameRunning(runs, runs')
  BY <1>3, <1>5, <1>7, PlanStates
<1> QED
  BY <1>2, <1>8, NothingToSee

(* The finalizer and the fence. *)
LEMMA MetadataPromised ==
  ASSUME Before, After, AddFinalizer \/ SetFence
  PROVE  StepPromised
<1>1. UNCHANGED <<runs, infra, asked>>
  BY DEF AddFinalizer, SetFence, UpdateOnly, worldVars
<1>2. SameRunning(runs, runs')
  BY <1>1 DEF SameRunning
<1>3. RunningMode' = RunningMode
  BY <1>2, RunningStays
<1>4. stack' = stack => StepPromised
  BY <1>1, <1>2, NothingToSee
<1>5. stack \in Stack /\ stack' \in Stack
  BY DEF Before, After, StackInv, Types
<1> DEFINE old == Shown(stack)
<1> DEFINE new == Shown(stack')
<1>6. AsPromised = old /\ AsPromised' = new
  BY DEF AsPromised, Shown
<1>7. /\ old \in Promise!StackRecord /\ new \in Promise!StackRecord
      /\ old.exists = stack.exists /\ new.exists = stack'.exists
      /\ old.deleting = stack.deleting /\ new.deleting = stack'.deleting
      /\ old.finalizer = stack.finalizer /\ new.finalizer = stack'.finalizer
      /\ old.desired = stack.desired /\ new.desired = stack'.desired
      /\ old.fence = stack.fence /\ new.fence = stack'.fence
  BY <1>5, ShownSays
<1>8. /\ stack'.reason = stack.reason => new.reason = old.reason
      /\ (stack'.observed = stack'.gen) = (stack.observed = stack.gen) =>
           new.current = old.current
  BY DEF Shown
<1>9. stack'.observed # stack'.gen => new.current = FALSE
  BY DEF Shown
<1> HIDE DEF old, new
<1>10. CASE AddFinalizer /\ stack' # stack
  <2>1. /\ stack' = [stack EXCEPT !.finalizer = TRUE] /\ stack.exists
        /\ ~stack.deleting
    BY <1>10 DEF AddFinalizer, UpdateOnly, Update
  <2>2. /\ stack'.exists = stack.exists /\ stack'.deleting = stack.deleting
        /\ stack'.desired = stack.desired /\ stack'.fence = stack.fence
        /\ stack'.reason = stack.reason /\ stack'.observed = stack.observed
        /\ stack'.gen = stack.gen /\ stack'.finalizer = TRUE
    BY <1>5, <2>1 DEF Stack
  <2>3. new.reason = old.reason /\ new.current = old.current
    BY <1>8, <2>2
  <2>4. /\ new.exists = old.exists /\ new.deleting = old.deleting
        /\ new.desired = old.desired /\ new.fence = old.fence
        /\ new.finalizer = TRUE
    BY <1>7, <2>2, Zenon
  <2>5. new = [old EXCEPT !.finalizer = TRUE]
    <3>1. old \in Promise!StackRecord /\ new \in Promise!StackRecord
      BY <1>7, Zenon
    <3> QED
      BY <2>3, <2>4, <3>1 DEF Promise!StackRecord
  <2>6. old.exists /\ ~old.deleting
    BY <1>7, <2>1, Zenon
  <2>7. Promise!Adopt
    BY <1>1, <1>3, <1>6, <2>5, <2>6, Zenon
    DEF Promise!Adopt, Promise!KeepsInfra
  <2> QED
    BY <2>7 DEF StepPromised, Promise!PromiseNext, Promise!StackReconciler
<1>11. CASE SetFence /\ stack' # stack
  <2>1. /\ stack' = [stack EXCEPT !.fence = TRUE, !.gen = @ + 1]
        /\ stack.exists /\ (stack.deleting \/ stack.finalizer)
        /\ Leaves(stack)
    BY <1>11
    DEF SetFence, UpdateOnly, Update, Reconciled, Destroying, Leaves
  <2>2. stack.gen \in Nat /\ stack.observed \in Nat
          /\ stack.observed <= stack.gen
    BY <1>5, StackTypes DEF Before, StackInv, StackParts, StackFacts
  <2>3. stack.observed # stack.gen + 1 /\ stack.gen + 1 \in Nat
    BY <2>2
  <2>4. /\ stack'.exists = stack.exists /\ stack'.deleting = stack.deleting
        /\ stack'.desired = stack.desired /\ stack'.fence = TRUE
        /\ stack'.reason = stack.reason /\ stack'.observed = stack.observed
        /\ stack'.gen = stack.gen + 1 /\ stack'.finalizer = stack.finalizer
    BY <1>5, <2>1, <2>3 DEF Stack
  <2>5. new.reason = old.reason /\ new.current = FALSE
    BY <1>8, <1>9, <2>3, <2>4
  <2>6. /\ new.exists = old.exists /\ new.deleting = old.deleting
        /\ new.desired = old.desired /\ new.fence = TRUE
        /\ new.finalizer = old.finalizer
    BY <1>7, <2>4, Zenon
  <2>7. new = [old EXCEPT !.fence = TRUE, !.current = FALSE]
    <3>1. old \in Promise!StackRecord /\ new \in Promise!StackRecord
      BY <1>7, Zenon
    <3>2. new = [old EXCEPT !.fence = new.fence, !.current = new.current]
      BY <2>5, <2>6, <3>1, ShownChanges
    <3> QED
      BY <2>5, <2>6, <3>2, Zenon
  <2>8. Promise!Reconcilable /\ Promise!AskedToGo
    <3>1. /\ old.exists /\ (old.finalizer \/ old.deleting)
          /\ old.desired = "Destroy" \/ old.deleting
      BY <1>7, <2>1, Zenon DEF Leaves
    <3> QED
      BY <1>6, <3>1, Zenon DEF Promise!Reconcilable, Promise!AskedToGo
  <2>9. Promise!Fence
    BY <1>1, <1>3, <1>6, <2>7, <2>8, Zenon
    DEF Promise!Fence, Promise!KeepsInfra
  <2> QED
    BY <2>9 DEF StepPromised, Promise!PromiseNext, Promise!StackReconciler
<1> QED
  BY <1>4, <1>10, <1>11

(* Every step of the stack reconciler. *)
LEMMA ReconcilerPromised ==
  ASSUME Before, After, ReconcileStack
  PROVE  StepPromised
<1>1. CASE \E p \in Plans : AwaitPlan(p) \/ AwaitApproval(p)
  <2>1. PICK p \in Plans : AwaitPlan(p) \/ AwaitApproval(p)
    BY <1>1
  <2>2. PICK reason \in {"PlanPending", "WaitingApproval"} :
          Follows(p) /\ UpdateOnly(Following(p, reason))
    BY <2>1 DEF AwaitPlan, AwaitApproval
  <2> QED
    BY <2>2, FollowingPromised
<1>2. CASE \E p \in Plans : FollowNoChange(p) \/ CreateApply(p) \/ FollowApply(p)
  BY <1>2, NoChangePromised, CreateApplyPromised, FollowApplyPromised
<1>3. CASE \/ HoldPresent \/ RequireRecovery \/ HoldDeletion \/ RefuseToGuess
           \/ ReleaseRemoved \/ RemoveNothing
  BY <1>3, ConditionsPromised
<1>4. CASE AddFinalizer \/ SetFence
  BY <1>4, MetadataPromised
<1>5. CASE FirstPlan \/ NextPlan \/ Supersede
  BY <1>5, CreatePlanPromised, SupersedePromised
<1> QED
  BY <1>1, <1>2, <1>3, <1>4, <1>5 DEF ReconcileStack

-----------------------------------------------------------------------------
(* The promise of the stack: the runs and the owner.                         *)

(* What Plans do shows nothing. *)
LEMMA PlansPromised ==
  ASSUME Before, NEW p \in DOMAIN runs,
         FinishPlan(p) \/ FailPlan(p) \/ Expire(p) \/ ApprovePlan(p)
  PROVE  StepPromised
<1>1. runs \in Seq(Run) /\ runs[p] \in Run
        /\ infra \in Inputs \cup {Absent, Partial}
  BY OneRun
<1>2. UNCHANGED <<stack, infra, asked>>
  BY DEF FinishPlan, FailPlan, Expire, ApprovePlan, worldVars
<1>3. PICK y \in Run : /\ runs' = [runs EXCEPT ![p] = y]
                       /\ y.mode = runs[p].mode /\ y.apply = runs[p].apply
  <2>1. CASE FinishPlan(p)
    <3> DEFINE outcome == IF infra = Goal(runs[p]) THEN "NoChange"
                          ELSE "ChangesPresent"
    <3> DEFINE y == [runs[p] EXCEPT !.outcome = outcome, !.base = infra]
    <3>1. runs' = [runs EXCEPT ![p] = y]
      BY <2>1 DEF FinishPlan
    <3>2. outcome \in {"NoChange", "ChangesPresent"}
      OBVIOUS
    <3> HIDE DEF outcome
    <3>3. y \in Run /\ y.mode = runs[p].mode /\ y.apply = runs[p].apply
      BY <1>1, <3>2 DEF Run
    <3> HIDE DEF y
    <3> QED
      BY <3>1, <3>3
  <2>2. CASE FailPlan(p)
    <3> DEFINE y == [runs[p] EXCEPT !.outcome = "Failed"]
    <3>1. runs' = [runs EXCEPT ![p] = y]
      BY <2>2 DEF FailPlan
    <3>2. y \in Run /\ y.mode = runs[p].mode /\ y.apply = runs[p].apply
      BY <1>1 DEF Run
    <3> HIDE DEF y
    <3> QED
      BY <3>1, <3>2
  <2>3. CASE Expire(p)
    <3> DEFINE y == [runs[p] EXCEPT !.expired = TRUE]
    <3>1. runs' = [runs EXCEPT ![p] = y]
      BY <2>3 DEF Expire
    <3>2. y \in Run /\ y.mode = runs[p].mode /\ y.apply = runs[p].apply
      BY <1>1 DEF Run
    <3> HIDE DEF y
    <3> QED
      BY <3>1, <3>2
  <2>4. CASE ApprovePlan(p)
    <3> DEFINE y == [runs[p] EXCEPT !.approved = TRUE]
    <3>1. runs' = [runs EXCEPT ![p] = y]
      BY <2>4 DEF ApprovePlan
    <3>2. y \in Run /\ y.mode = runs[p].mode /\ y.apply = runs[p].apply
      BY <1>1 DEF Run
    <3> HIDE DEF y
    <3> QED
      BY <3>1, <3>2
  <2> QED
    BY <2>1, <2>2, <2>3, <2>4
<1>4. OnlyAt(runs, [runs EXCEPT ![p] = y], p) /\ [runs EXCEPT ![p] = y][p] = y
  BY <1>1, ReplacedOnly
<1>5. OnlyAt(runs, runs', p) /\ runs'[p] = y
  BY <1>3, <1>4
<1>6. SameRunning(runs, runs')
  BY <1>3, <1>5, PlanStates
<1> QED
  BY <1>2, <1>6, NothingToSee

(* Neither does an Apply that is admitted or rejected. *)
LEMMA AdmissionPromised ==
  ASSUME Before, NEW p \in DOMAIN runs, p \in Plans,
         AdmitApply(p) \/ RejectApply(p)
  PROVE  StepPromised
<1>1. UNCHANGED <<stack, infra, asked>>
  BY DEF AdmitApply, RejectApply
<1>2. CASE AdmitApply(p)
  <2>1. SameRunning(runs, runs')
    BY <1>2 DEF AdmitApply, SameRunning
  <2> QED
    BY <1>1, <2>1, NothingToSee
<1>3. CASE RejectApply(p)
  <2>1. /\ runs[p].apply = "Created" /\ runs \in Seq(Run)
        /\ runs' = [runs EXCEPT ![p].apply = "Rejected"]
    BY <1>3, OneRun DEF RejectApply, TakesUp
  <2>2. OnlyApply(runs, runs', p) /\ runs'[p].apply = "Rejected"
    BY <2>1, ApplyReplaced
  <2>3. SameRunning(runs, runs')
    BY <2>1, <2>2, OtherStates DEF OnlyApply
  <2> QED
    BY <1>1, <2>3, NothingToSee
<1> QED
  BY <1>2, <1>3

(* An Apply starts when it is allowed to. *)
LEMMA StartPromised ==
  ASSUME Before, NEW p \in DOMAIN runs, StartApply(p)
  PROVE  StepPromised
<1>1. /\ admitting = p /\ UNCHANGED <<stack, infra, asked>>
      /\ runs' = [runs EXCEPT ![p].apply = "Started"]
  BY DEF StartApply
<1>2. /\ runs \in Seq(Run) /\ runs[p] \in Run /\ p # 0
  BY OneRun, RunsAreNumbered
<1>3. OnlyApply(runs, runs', p) /\ runs'[p].apply = "Started"
  BY <1>1, <1>2, ApplyReplaced
<1>4. \A q \in DOMAIN runs : runs[q].apply # "Started"
  BY <1>1, <1>2 DEF Before, StackInv, InfraParts, OneApply
<1>5. /\ p \in DOMAIN runs' /\ runs'[p].mode = runs[p].mode
      /\ \A q \in DOMAIN runs' : runs'[q].apply = "Started" => q = p
  BY <1>3, <1>4 DEF OnlyApply, OnlyAt
<1>6. RunningMode = "none" /\ RunningMode' = runs[p].mode
  <2>1. RunningMode = "none"
    BY <1>4, NoneRunning
  <2> DEFINE running == {q \in DOMAIN runs' : runs'[q].apply = "Started"}
  <2>2. running = {p}
    BY <1>3, <1>5
  <2>3. (CHOOSE q \in running : TRUE) = p
    BY <2>2
  <2> HIDE DEF running
  <2>4. RunningMode' = runs'[CHOOSE q \in running : TRUE].mode
    BY <2>2 DEF RunningMode, running
  <2> QED
    BY <1>5, <2>1, <2>3, <2>4
<1>7. stack.exists /\ stack.reason # "InfrastructureRemoved"
  <2>1. stack.reason # "InfrastructureRemoved"
    BY <1>1, <1>2 DEF Before, StackInv, InfraParts, Gone
  <2>2. runs # <<>>
    OBVIOUS
  <2>3. stack.finalizer
    BY <2>1, <2>2 DEF Before, StackInv, InfraParts, Untouched
  <2> QED
    BY <2>1, <2>3 DEF Before, StackInv, StackParts, StackFacts
<1>8. runs[p].mode \in {"Reconcile", "Destroy"}
        /\ (runs[p].mode = "Destroy" => asked)
  BY <1>2, RunTypes DEF Before, StackInv, RunParts, MadeFor
<1>9. /\ AsPromised' = AsPromised /\ AsPromised = Shown(stack)
  BY <1>1 DEF AsPromised, Shown
<1>10. stack \in Stack
  BY DEF Before, StackInv, Types
<1>11. AsPromised.exists /\ AsPromised.reason # "Removed"
  BY <1>7, <1>9, <1>10, ShownSays
<1>12. Promise!StartRunning(runs[p].mode)
  BY <1>1, <1>6, <1>8, <1>9, <1>11, Zenon DEF Promise!StartRunning
<1> QED
  BY <1>8, <1>12 DEF StepPromised, Promise!PromiseNext, Promise!StackApplies

(* An Apply ends and leaves what it may leave. *)
LEMMA EndPromised ==
  ASSUME Before, NEW p \in DOMAIN runs, EndsApply(p)
  PROVE  StepPromised
<1>1. PICK x \in {"Succeeded", "Indeterminate"} :
        /\ runs[p].apply = "Started"
        /\ runs' = [runs EXCEPT ![p].apply = x]
        /\ Leftover(runs[p], x, infra, infra')
        /\ UNCHANGED <<stack, asked>>
  BY DEF EndsApply, SucceedApply, FailApply, Leftover
<1>2. /\ runs \in Seq(Run) /\ runs[p] \in Run /\ RunFacts(runs[p])
      /\ infra \in Inputs \cup {Absent, Partial}
  BY OneRun
<1>3. OnlyApply(runs, runs', p) /\ runs'[p].apply # "Started"
  <2>1. x \in {"Created", "Started", "Succeeded", "Indeterminate", "Rejected"}
    OBVIOUS
  <2>2. runs' = [runs EXCEPT ![p].apply = x]
    BY <1>1
  <2>3. OnlyApply(runs, runs', p) /\ runs'[p].apply = x
    BY <1>2, <2>1, <2>2, ApplyReplaced
  <2> QED
    BY <2>3
<1>4. runs[p].apply = "Started"
  BY <1>1
<1>5. \A q \in DOMAIN runs : runs[q].apply = "Started" => q = p
  BY <1>4 DEF Before, StackInv, InfraParts, OneApply
<1>6. \A q \in DOMAIN runs' : runs'[q].apply # "Started"
  BY <1>3, <1>5 DEF OnlyApply, OnlyAt
<1>7. RunningMode = runs[p].mode
  BY <1>4, <1>5, OneRunning
<1>8. RunningMode' = "none"
  BY <1>6 DEF RunningMode
<1> DEFINE Built2(i) == IF i = Absent THEN "absent" ELSE "present"
<1>9. Built2(infra') \in
        {Built2(infra), IF runs[p].mode = "Destroy" THEN "absent" ELSE "present"}
  <2>1. /\ runs[p].mode \in {"Reconcile", "Destroy"} /\ runs[p].input \in Inputs
        /\ runs[p].base # Goal(runs[p])
    BY <1>2, <1>4, RunTypes DEF RunFacts, None
  <2>2. runs[p].input # Absent /\ Partial # Absent
    BY <2>1, InputsAssumption DEF Absent, Partial
  <2>3. infra' \in {infra, Goal(runs[p])}
          \/ (infra' = Partial /\ infra = runs[p].base)
    BY <1>1 DEF Leftover
  <2>4. Goal(runs[p]) = Absent <=> runs[p].mode = "Destroy"
    BY <2>1, <2>2 DEF Goal
  <2> QED
    BY <2>1, <2>2, <2>3, <2>4
<1>10. AsPromised' = AsPromised /\ UNCHANGED asked
  BY <1>1 DEF AsPromised
<1>11. RunningMode # "none"
  BY <1>2, <1>7, RunTypes
<1>12. Promise!EndRunning
  BY <1>7, <1>8, <1>9, <1>10, <1>11 DEF Promise!EndRunning
<1> QED
  BY <1>12 DEF StepPromised, Promise!PromiseNext, Promise!StackApplies

(* Whoever owns the stack edits it. *)
LEMMA EditPromised ==
  ASSUME Before, After, EditStack
  PROVE  StepPromised
<1>1. stack \in Stack /\ stack' \in Stack
  BY DEF Before, After, StackInv, Types
<1>2. PICK n \in Stack :
        /\ Edit(n) /\ n.gen = stack.gen /\ n.reason = stack.reason
        /\ n.observed = stack.observed /\ n.finalizer = stack.finalizer
        /\ \/ n.exists = stack.exists /\ n.deleting = stack.deleting
           \/ /\ n.deleting = TRUE /\ n.exists = stack.finalizer
              /\ n.desired = stack.desired /\ n.fence = stack.fence
  <2>1. CASE \E input \in Inputs : EditSpec(input)
    <3>1. PICK input \in Inputs : EditSpec(input)
      BY <2>1
    <3> DEFINE n == [stack EXCEPT !.input = input, !.desired = "Present",
                                  !.fence = FALSE]
    <3>2. Edit(n)
      BY <3>1 DEF EditSpec
    <3>3. /\ n \in Stack /\ n.gen = stack.gen /\ n.reason = stack.reason
          /\ n.observed = stack.observed /\ n.finalizer = stack.finalizer
          /\ n.exists = stack.exists /\ n.deleting = stack.deleting
      BY <1>1 DEF Stack
    <3> HIDE DEF n
    <3> QED
      BY <3>2, <3>3
  <2>2. CASE EditFence
    <3> DEFINE n == [stack EXCEPT !.fence = TRUE]
    <3>2. Edit(n)
      BY <2>2 DEF EditFence
    <3>3. /\ n \in Stack /\ n.gen = stack.gen /\ n.reason = stack.reason
          /\ n.observed = stack.observed /\ n.finalizer = stack.finalizer
          /\ n.exists = stack.exists /\ n.deleting = stack.deleting
      BY <1>1 DEF Stack
    <3> HIDE DEF n
    <3> QED
      BY <3>2, <3>3
  <2>3. CASE EditDesired
    <3> DEFINE n == [stack EXCEPT !.desired = "Destroy"]
    <3>2. Edit(n)
      BY <2>3 DEF EditDesired
    <3>3. /\ n \in Stack /\ n.gen = stack.gen /\ n.reason = stack.reason
          /\ n.observed = stack.observed /\ n.finalizer = stack.finalizer
          /\ n.exists = stack.exists /\ n.deleting = stack.deleting
      BY <1>1 DEF Stack
    <3> HIDE DEF n
    <3> QED
      BY <3>2, <3>3
  <2>4. CASE DeleteStack
    <3> DEFINE n == [stack EXCEPT !.deleting = TRUE,
                                  !.exists = stack.finalizer]
    <3>2. Edit(n)
      BY <2>4 DEF DeleteStack
    <3>3. /\ n \in Stack /\ n.gen = stack.gen /\ n.reason = stack.reason
          /\ n.observed = stack.observed /\ n.finalizer = stack.finalizer
          /\ n.deleting = TRUE /\ n.exists = stack.finalizer
          /\ n.desired = stack.desired /\ n.fence = stack.fence
      BY <1>1 DEF Stack
    <3> HIDE DEF n
    <3> QED
      BY <3>2, <3>3
  <2> QED
    BY <2>1, <2>2, <2>3, <2>4 DEF EditStack
<1>3. /\ stack' = [n EXCEPT !.gen = @ + 1] /\ stack.exists
      /\ asked' = (asked \/ n.desired = "Destroy" \/ n.deleting)
      /\ UNCHANGED <<runs, infra>>
  BY <1>2 DEF Edit
<1>4. stack.gen \in Nat /\ stack.observed \in Nat /\ stack.observed <= stack.gen
  BY <1>1, StackTypes DEF Before, StackInv, StackParts, StackFacts
<1>5. stack.observed # stack.gen + 1 /\ stack.gen + 1 \in Nat
  BY <1>4
<1>6. /\ stack'.gen = stack.gen + 1 /\ stack'.reason = stack.reason
      /\ stack'.observed = stack.observed
      /\ stack'.finalizer = stack.finalizer /\ stack'.exists = n.exists
      /\ stack'.deleting = n.deleting /\ stack'.desired = n.desired
      /\ stack'.fence = n.fence
  BY <1>2, <1>3, <1>5 DEF Stack
<1>7. RunningMode' = RunningMode
  BY <1>3, RunningStays DEF SameRunning
<1> DEFINE old == Shown(stack)
<1> DEFINE new == Shown(stack')
<1>8. AsPromised = old /\ AsPromised' = new
  BY DEF AsPromised, Shown
<1>9. /\ old \in Promise!StackRecord /\ new \in Promise!StackRecord
      /\ old.exists = stack.exists /\ new.exists = stack'.exists
      /\ old.deleting = stack.deleting /\ new.deleting = stack'.deleting
      /\ old.finalizer = stack.finalizer /\ new.finalizer = stack'.finalizer
      /\ old.desired = stack.desired /\ new.desired = stack'.desired
      /\ old.fence = stack.fence /\ new.fence = stack'.fence
  BY <1>1, ShownSays
<1>10. new.reason = old.reason
  BY <1>6 DEF Shown
<1>11. new.current = FALSE
  BY <1>5, <1>6 DEF Shown
<1> HIDE DEF old, new
<1>12. old \in Promise!StackRecord /\ new \in Promise!StackRecord
  BY <1>9, Zenon
<1>13. old.exists /\ old.exists \in BOOLEAN /\ old.finalizer \in BOOLEAN
  BY <1>3, <1>9, <1>12 DEF Promise!StackRecord
<1>14. /\ new.finalizer = old.finalizer /\ new.desired = n.desired
       /\ new.fence = n.fence /\ new.deleting = n.deleting
       /\ new.exists = n.exists
  BY <1>2, <1>6, <1>9, Zenon
<1>15. CASE n.exists = stack.exists /\ n.deleting = stack.deleting
  <2> DEFINE mid == [old EXCEPT !.desired = n.desired, !.fence = n.fence]
  <2>1. n.desired \in {"Present", "Destroy"} /\ n.fence \in BOOLEAN
    BY StackTypes
  <2>2. /\ mid \in Promise!StackRecord /\ mid.exists = old.exists
        /\ mid.deleting = old.deleting /\ mid.finalizer = old.finalizer
        /\ mid.desired = n.desired /\ mid.fence = n.fence
        /\ mid.reason = old.reason
    BY <1>12, <2>1 DEF Promise!StackRecord
  <2>3. mid = [old EXCEPT !.desired = n.desired, !.fence = n.fence]
    OBVIOUS
  <2> HIDE DEF mid
  <2>4. new.exists = old.exists /\ new.deleting = old.deleting
    BY <1>9, <1>14, <1>15, Zenon
  <2>5. new = [mid EXCEPT !.current = FALSE]
    BY <1>10, <1>11, <1>12, <1>14, <2>2, <2>4 DEF Promise!StackRecord
  <2>6. asked' = (asked \/ mid.desired = "Destroy" \/ mid.deleting)
    BY <1>3, <1>9, <1>15, <2>2, Zenon
  <2>7. Promise!Own(mid)
    BY <1>3, <1>7, <1>8, <2>5, <2>6, Zenon DEF Promise!Own
  <2>8. Promise!WriteSpec
    BY <1>8, <1>13, <2>1, <2>3, <2>7, Zenon DEF Promise!WriteSpec
  <2> QED
    BY <2>8 DEF StepPromised, Promise!PromiseNext, Promise!Owner
<1>16. CASE /\ n.deleting = TRUE /\ n.exists = stack.finalizer
            /\ n.desired = stack.desired /\ n.fence = stack.fence
  <2> DEFINE mid == [old EXCEPT !.deleting = TRUE,
                                !.exists = @ /\ old.finalizer]
  <2>1. (old.exists /\ old.finalizer) = old.finalizer
    BY <1>13
  <2>2. mid = [old EXCEPT !.deleting = TRUE, !.exists = old.finalizer]
    BY <2>1
  <2>3. /\ mid \in Promise!StackRecord /\ mid.exists = old.finalizer
        /\ mid.deleting = TRUE /\ mid.finalizer = old.finalizer
        /\ mid.desired = old.desired /\ mid.fence = old.fence
        /\ mid.reason = old.reason
    BY <1>12, <1>13, <2>2 DEF Promise!StackRecord
  <2>4. mid = [old EXCEPT !.deleting = TRUE, !.exists = @ /\ old.finalizer]
    OBVIOUS
  <2> HIDE DEF mid
  <2>5. /\ new.exists = old.finalizer /\ new.deleting = TRUE
        /\ new.desired = old.desired /\ new.fence = old.fence
    BY <1>9, <1>14, <1>16, Zenon
  <2>6. new = [mid EXCEPT !.current = FALSE]
    BY <1>10, <1>11, <1>12, <1>14, <2>3, <2>5 DEF Promise!StackRecord
  <2>7. asked' = (asked \/ mid.desired = "Destroy" \/ mid.deleting)
    BY <1>3, <1>16, <2>3
  <2>8. Promise!Own(mid)
    BY <1>3, <1>7, <1>8, <2>6, <2>7, Zenon DEF Promise!Own
  <2>9. Promise!DeleteOwned
    BY <1>8, <1>13, <2>4, <2>8, Zenon DEF Promise!DeleteOwned
  <2> QED
    BY <2>9 DEF StepPromised, Promise!PromiseNext, Promise!Owner
<1> QED
  BY <1>2, <1>15, <1>16

(* Every step of the stack, its runs and the caches keeps the promise. *)
LEMMA AllPromised ==
  ASSUME StackInvariant, [StackNext]_stackVars
  PROVE  StepPromised
<1>1. Before
  BY DEF StackInvariant, Before
<1>2. CASE Acts
  <2>1. After
    BY <1>1, <1>2, ActsPreserve
  <2>2. CASE \E p \in DOMAIN runs :
               \/ FinishPlan(p) \/ FailPlan(p) \/ Expire(p) \/ ApprovePlan(p)
               \/ StartsApply(p) \/ EndsApply(p)
    BY <1>1, <2>2, PlansPromised, AdmissionPromised, StartPromised, EndPromised
    DEF StartsApply
  <2> QED
    BY <1>1, <1>2, <2>1, <2>2, ReconcilerPromised, EditPromised DEF Acts
<1>3. CASE CacheStack \/ CacheRuns \/ RestartManager \/ UNCHANGED stackVars
  <2>1. UNCHANGED <<stack, runs, infra, asked>>
    BY <1>3 DEF CacheStack, CacheRuns, RestartManager, stackVars, worldVars
  <2>2. SameRunning(runs, runs')
    BY <2>1 DEF SameRunning
  <2> QED
    BY <2>1, <2>2, NothingToSee
<1> QED
  BY <1>2, <1>3 DEF StackNext, Acts

(* The promise starts with a new stack. *)
LEMMA StartPromises ==
  ASSUME StackInit
  PROVE  Promise!PromiseInit
<1>1. PICK input \in Inputs :
       stack = [exists |-> TRUE, deleting |-> FALSE, finalizer |-> FALSE,
                gen |-> 1, input |-> input, desired |-> "Present",
                fence |-> FALSE, reason |-> "", observed |-> 0, latest |-> 0,
                converged |-> None, applied |-> FALSE]
  BY DEF StackInit
<1>2. /\ stack.exists = TRUE /\ stack.deleting = FALSE
      /\ stack.finalizer = FALSE /\ stack.desired = "Present"
      /\ stack.fence = FALSE /\ stack.reason = "" /\ stack.observed = 0
      /\ stack.gen = 1
  BY <1>1
<1>3. (stack.observed = stack.gen) = FALSE
  <2>1. (0 = 1) = FALSE
    OBVIOUS
  <2> QED
    BY <1>2, <2>1, Zenon
<1>4. AsPromised = Promise!NewStack
  BY <1>2, <1>3 DEF AsPromised, Promise!NewStack
<1>5. runs = <<>> /\ infra = Absent /\ asked = FALSE
  BY DEF StackInit
<1>6. DOMAIN runs = {}
  BY <1>5
<1>7. RunningMode = "none"
  BY <1>6, NoneRunning
<1> QED
  BY <1>4, <1>5, <1>7 DEF Promise!PromiseInit

(* The stack keeps the promise on which its environment relies, however late *)
(* both controllers see it (Reconcile of the InfraStack, its runs and their  *)
(* admission).                                                               *)
THEOREM PromiseKept == StackSpec => KeepsPromise
<1>1. StackInit => Promise!PromiseInit
  BY StartPromises
<1>2. StackInvariant /\ [StackNext]_stackVars
        => [Promise!PromiseNext]_(Promise!promiseVars)
  BY AllPromised DEF StepPromised
<1> QED
  BY <1>1, <1>2, StackInvariantHolds, PTL
  DEF StackSpec, KeepsPromise, Promise!PromiseSpec
=============================================================================
