----------------------------- MODULE ResourceSet ------------------------------
(***************************************************************************)
(* One ResourceSet and the runtime objects it stands for in the target     *)
(* cluster: objects are applied in waves, recorded in an inventory, pruned *)
(* when the spec does not name them any more, and all pruned before the    *)
(* finalizer goes.                                                         *)
(*                                                                         *)
(* A reconciliation is a pass: a sequence of requests to the target        *)
(* cluster, each an action of its own, that works on the ResourceSet as it *)
(* was read at the beginning and ends with one update of its status.  The  *)
(* ResourceSet, and the cluster, go on changing underneath.                *)
(***************************************************************************)
EXTENDS Naturals, FiniteSets

CONSTANTS
  Objects,         \* runtime objects, by kind, namespace and name
  Versions,        \* the sets of objects a spec may name
  Wave,            \* the wave of each object
  RequireReady,    \* objects whose wave waits for them; others: ApplyOnly
  Protected,       \* objects never pruned: Retain, Namespace, PVC, CRD
  Slow,            \* objects that linger when they are deleted
  Foreign,         \* objects someone else has put there before
  Lagging,         \* the kinds of objects whose cache may lag
  MaxEdits,        \* bound: how often the owner edits the spec
  MaxFaults        \* bound: failed requests, restarts and disturbances

ASSUME ObjectsAssumption ==
  /\ "none" \notin Objects
  /\ Versions # {} /\ Versions \subseteq SUBSET Objects
  /\ Wave \in [Objects -> Nat]
  /\ RequireReady \subseteq Objects /\ Protected \subseteq Objects
  /\ Slow \subseteq Objects /\ Foreign \subseteq Objects
ASSUME SetBoundsAssumption ==
  Lagging \subseteq {"env", "stack", "set"} /\ MaxEdits \in Nat /\ MaxFaults \in Nat

VARIABLES
  set,      \* the ResourceSet in the API server, see SetRecord
  setView,  \* the ResourceSet as the cache shows it
  pass,     \* the reconciliation under way, see Pass
  world,    \* the objects in the target cluster, see Thing
  applied,  \* history: the incarnations the controller has applied
  edits,    \* how often the owner has edited the spec
  troubles  \* how many of these faults have happened

boundVars == <<edits, troubles>>
setVars == <<set, setView, pass, world, applied, boundVars>>

-----------------------------------------------------------------------------
(* Every incarnation of an object has a UID of its own; 0 is none. *)
Inventory == [Objects -> Nat]
Nothing == [o \in Objects |-> 0]

Named(inventory) == {o \in Objects : inventory[o] # 0}

SetReasons ==
  {"", "RuntimeMutationBlocked", "Rejected", "RuntimeApplyFailed",
   "RuntimePruneRejected", "RuntimeNotReady", "RuntimeReady",
   "RuntimeCleanupBlocked"}

(* Metadata, spec and status.  open is RuntimeMutationAllowed without        *)
(* MutationFence: whoever writes a spec writes one as the negation of the    *)
(* other.  Rejected stands for the reasons of a pass that never gets to the  *)
(* target; observed is the generation of the Ready condition.                *)
SetRecord ==
  [exists : BOOLEAN, deleting : BOOLEAN, finalizer : BOOLEAN, gen : Nat,
   resources : Versions, open : BOOLEAN,
   inventory : Inventory, reason : SetReasons, observed : Nat]

NewSet(resources) ==
  [exists |-> TRUE, deleting |-> FALSE, finalizer |-> FALSE, gen |-> 1,
   resources |-> resources, open |-> FALSE,
   inventory |-> Nothing, reason |-> "", observed |-> 0]

(* The latest incarnation of an object: whether it is still here, carries    *)
(* the labels of this owner, is ready by its own status, and is ending.      *)
Thing ==
  [uid : Nat, here : BOOLEAN, ours : BOOLEAN, ready : BOOLEAN,
   ending : BOOLEAN]

Incarnation(o, ours) ==
  [uid |-> world[o].uid + 1, here |-> TRUE, ours |-> ours, ready |-> FALSE,
   ending |-> FALSE]

(* What a pass works on: the ResourceSet as it was read, the incarnations it *)
(* has applied, the objects it found ready or has pruned, and the object     *)
(* that it is pruning, as it was read.                                       *)
Idle == [at |-> "idle"]

Passes(at) ==
  [at : at, view : SetRecord, items : Inventory, checked : SUBSET Objects,
   pruned : SUBSET Objects, item : Objects \cup {"none"}, got : Thing]

SetInit(record) ==
  /\ set = record /\ setView = record
  /\ pass = Idle
  /\ world = [o \in Objects |->
                [uid |-> IF o \in Foreign THEN 1 ELSE 0, here |-> o \in Foreign,
                 ours |-> FALSE, ready |-> FALSE, ending |-> FALSE]]
  /\ applied = {}
  /\ edits = 0 /\ troubles = 0

-----------------------------------------------------------------------------
(* The ResourceSet a reconciliation starts from. *)
SetSeen == IF "set" \in Lagging THEN setView ELSE set

Idling == pass = Idle

(* Updates fail on conflict when the set has changed since it was read; the  *)
(* reconciliation then ends with an error and is retried.                    *)
UpdateSet(old, new) == set' = IF set = old THEN new ELSE set

(* Mutant: a condition that keeps its reason keeps its generation.           *)
StatusByReason(old, reason) ==
  [old EXCEPT !.reason = reason,
              !.observed = IF reason = old.reason THEN @ ELSE old.gen]

(* setRuntimeStatus; the inventory is written by a complete pass only. *)
SetStatus(old, reason) ==
  [old EXCEPT !.reason = reason, !.observed = old.gen]

AddSetFinalizer ==
  /\ Idling
  /\ SetSeen.exists /\ ~SetSeen.deleting /\ ~SetSeen.finalizer
  /\ UpdateSet(SetSeen, [SetSeen EXCEPT !.finalizer = TRUE])
  /\ UNCHANGED <<setView, pass, world, applied, boundVars>>

SetPresent == SetSeen.exists /\ ~SetSeen.deleting /\ SetSeen.finalizer

BlockMutation ==
  /\ Idling /\ SetPresent /\ ~SetSeen.open
  /\ UpdateSet(SetSeen, SetStatus(SetSeen, "RuntimeMutationBlocked"))
  /\ UNCHANGED <<setView, pass, world, applied, boundVars>>

(* Limits, the binding of the target or an object are rejected, or there is  *)
(* no client for the target.                                                 *)
RejectSpec ==
  /\ Idling /\ SetPresent /\ troubles < MaxFaults
  /\ UpdateSet(SetSeen, SetStatus(SetSeen, "Rejected"))
  /\ troubles' = troubles + 1
  /\ UNCHANGED <<setView, pass, world, applied, edits>>

Start(at) ==
  /\ pass' = [at |-> at, view |-> SetSeen, items |-> Nothing, checked |-> {},
              pruned |-> {}, item |-> "none",
              got |-> [uid |-> 0, here |-> FALSE, ours |-> FALSE,
                       ready |-> FALSE, ending |-> FALSE]]
  /\ UNCHANGED <<set, setView, world, applied, boundVars>>

BeginApply == Idling /\ SetPresent /\ SetSeen.open /\ Start("apply")

BeginCleanup ==
  /\ Idling
  /\ SetSeen.exists /\ SetSeen.deleting /\ SetSeen.finalizer
  /\ Start("cleanup")

-----------------------------------------------------------------------------
(* ApplyBootstrap *)

(* The pass ends with this status. *)
EndPass(reason) ==
  /\ UpdateSet(pass.view, SetStatus(pass.view, reason))
  /\ pass' = Idle
  /\ UNCHANGED setView

Applying == pass.at = "apply" /\ pass.item = "none"

WaveDone(o) ==
  pass.items[o] # 0 /\ (o \in RequireReady => o \in pass.checked)

(* Mutant: waves are applied in order, but nobody waits for readiness. *)
TurnByOrder(o) ==
  /\ pass.items[o] = 0
  /\ \A p \in pass.view.resources : Wave[p] < Wave[o] => pass.items[p] # 0

Turn(o) ==
  /\ pass.items[o] = 0
  /\ \A p \in pass.view.resources : Wave[p] < Wave[o] => WaveDone(p)

(* Server-side apply creates the object or puts the labels on the one that   *)
(* is there.                                                                 *)
AppliedThing(o) ==
  IF world[o].here THEN [world[o] EXCEPT !.ours = TRUE]
  ELSE Incarnation(o, TRUE)

Touch(o) ==
  /\ world' = [world EXCEPT ![o] = AppliedThing(o)]
  /\ applied' = applied \cup {<<o, AppliedThing(o).uid>>}

ApplyObject(o) ==
  /\ Applying /\ o \in pass.view.resources /\ Turn(o)
  /\ Touch(o)
  /\ pass' = [pass EXCEPT !.items[o] = AppliedThing(o).uid]
  /\ UNCHANGED <<set, setView, boundVars>>

(* The request fails, with or without having taken effect. *)
FailToApply(o) ==
  /\ Applying /\ o \in pass.view.resources /\ Turn(o)
  /\ troubles < MaxFaults
  /\ Touch(o) \/ UNCHANGED <<world, applied>>
  /\ EndPass("RuntimeApplyFailed")
  /\ troubles' = troubles + 1
  /\ UNCHANGED edits

(* A wave ends with a look at its objects that have to be ready. *)
CheckObject(o) ==
  /\ Applying /\ o \in pass.view.resources \cap RequireReady
  /\ \A p \in pass.view.resources : Wave[p] = Wave[o] => pass.items[p] # 0
  /\ o \notin pass.checked
  /\ IF world[o].here /\ world[o].ready
     THEN /\ pass' = [pass EXCEPT !.checked = @ \cup {o}]
          /\ UNCHANGED <<set, setView>>
     ELSE EndPass("RuntimeApplyFailed")
  /\ UNCHANGED <<world, applied, boundVars>>

-----------------------------------------------------------------------------
(* pruneRemoved and pruneInventory, item by item: read the object, validate  *)
(* it, delete it with its UID and resource version as preconditions, and see *)
(* whether it is gone.                                                       *)

Cleaning == pass.at = "cleanup"

AllApplied == \A o \in pass.view.resources : WaveDone(o)

Doomed ==
  {o \in Named(pass.view.inventory) \ (Protected \cup pass.pruned) :
     Cleaning \/ o \notin pass.view.resources}

Pruning == pass.at # "idle" /\ (Cleaning \/ AllApplied)

ValidatePrune(o) == world[o].ours /\ world[o].uid = pass.view.inventory[o]

RejectPrune ==
  EndPass(IF Cleaning THEN "RuntimeCleanupBlocked" ELSE "RuntimePruneRejected")

Pruned(o) == pass' = [pass EXCEPT !.pruned = @ \cup {o}, !.item = "none"]

(* Mutant: a cleanup, too, needs every object of the inventory to be there.  *)
ReadDoomedStrict(o) ==
  /\ Pruning /\ pass.item = "none" /\ o \in Doomed
  /\ IF world[o].here /\ ValidatePrune(o)
     THEN /\ pass' = [pass EXCEPT !.item = o, !.got = world[o]]
          /\ UNCHANGED <<set, setView>>
     ELSE RejectPrune
  /\ UNCHANGED <<world, applied, boundVars>>

(* Only a cleanup takes an object that is not there for pruned. *)
ReadDoomed(o) ==
  /\ Pruning /\ pass.item = "none" /\ o \in Doomed
  /\ \/ /\ world[o].here /\ ValidatePrune(o)
        /\ pass' = [pass EXCEPT !.item = o, !.got = world[o]]
        /\ UNCHANGED <<set, setView>>
     \/ /\ world[o].here /\ ~ValidatePrune(o)
        /\ RejectPrune
     \/ /\ ~world[o].here
        /\ IF Cleaning THEN Pruned(o) /\ UNCHANGED <<set, setView>>
           ELSE RejectPrune
  /\ UNCHANGED <<world, applied, boundVars>>

(* Mutant: the object is deleted by its name. *)
PreconditionByName(o) == world[o].here

Precondition(o) == world[o].here /\ world[o] = pass.got

Deleted(thing, slow) ==
  IF slow THEN [thing EXCEPT !.ending = TRUE]
  ELSE [thing EXCEPT !.here = FALSE, !.ending = FALSE]

(* got is emptied by the request: what is left to do is to look again. *)
DeleteDoomed(o) ==
  /\ pass.at # "idle" /\ pass.item = o /\ pass.got.here
  /\ \/ /\ Precondition(o)
        /\ world' = [world EXCEPT ![o] = Deleted(@, o \in Slow)]
        /\ pass' = [pass EXCEPT !.got.here = FALSE]
        /\ UNCHANGED <<set, setView>>
     \/ /\ ~Precondition(o) /\ world[o].here
        /\ RejectPrune
        /\ UNCHANGED world
     \/ /\ ~world[o].here
        /\ pass' = [pass EXCEPT !.got.here = FALSE]
        /\ UNCHANGED <<set, setView, world>>
  /\ UNCHANGED <<applied, boundVars>>

(* Mutant: an object is pruned once its deletion was accepted.               *)
ConfirmAccepted(o) ==
  /\ pass.at # "idle" /\ pass.item = o /\ ~pass.got.here
  /\ Pruned(o)
  /\ UNCHANGED <<set, setView, world, applied, boundVars>>

(* A cleanup that finds the object still there comes back a moment later. *)
ConfirmPruned(o) ==
  /\ pass.at # "idle" /\ pass.item = o /\ ~pass.got.here
  /\ IF ~world[o].here THEN Pruned(o) /\ UNCHANGED <<set, setView>>
     ELSE IF Cleaning THEN pass' = Idle /\ UNCHANGED <<set, setView>>
     ELSE RejectPrune
  /\ UNCHANGED <<world, applied, boundVars>>

-----------------------------------------------------------------------------
PruneDone == Pruning /\ pass.item = "none" /\ Doomed = {}

(* runtimeReadiness: an object that is only to be applied is ready while it  *)
(* is not being deleted.  RuntimeEmpty counts as RuntimeReady, the other     *)
(* reasons as RuntimeNotReady.                                               *)
ReadyAtLast(o) ==
  world[o].here
    /\ (world[o].ready \/ (o \notin RequireReady /\ ~world[o].ending))

(* Mutant: what was applied is added to the inventory of earlier passes.     *)
FinishMerging ==
  /\ ~Cleaning /\ PruneDone
  /\ LET ready == \A o \in pass.view.resources : ReadyAtLast(o)
     IN  UpdateSet(pass.view,
           [SetStatus(pass.view, IF ready THEN "RuntimeReady" ELSE "RuntimeNotReady")
              EXCEPT !.inventory =
                [o \in Objects |->
                   IF pass.items[o] # 0 THEN pass.items[o] ELSE @[o]]])
  /\ pass' = Idle
  /\ UNCHANGED <<setView, world, applied, boundVars>>

FinishApply ==
  /\ ~Cleaning /\ PruneDone
  /\ LET ready == \A o \in pass.view.resources : ReadyAtLast(o)
     IN  UpdateSet(pass.view,
           [SetStatus(pass.view, IF ready THEN "RuntimeReady" ELSE "RuntimeNotReady")
              EXCEPT !.inventory = pass.items])
  /\ pass' = Idle
  /\ UNCHANGED <<setView, world, applied, boundVars>>

(* finishDelete: the evidence is recorded, then the finalizer is removed. *)
FinishCleanup ==
  /\ Cleaning /\ PruneDone
  /\ UpdateSet(pass.view, [pass.view EXCEPT !.finalizer = FALSE, !.exists = FALSE])
  /\ pass' = Idle
  /\ UNCHANGED <<setView, world, applied, boundVars>>

ReconcileSet ==
  \/ AddSetFinalizer \/ BlockMutation \/ BeginApply \/ BeginCleanup
  \/ FinishApply \/ FinishCleanup
  \/ \E o \in Objects :
       \/ ApplyObject(o) \/ CheckObject(o)
       \/ ReadDoomed(o) \/ DeleteDoomed(o) \/ ConfirmPruned(o)

(* The manager stops, or a request fails without leaving a trace. *)
StopPass ==
  /\ ~Idling /\ troubles < MaxFaults
  /\ troubles' = troubles + 1
  /\ pass' = Idle
  /\ UNCHANGED <<set, setView, world, applied, edits>>

SetFaults == RejectSpec \/ StopPass \/ \E o \in Objects : FailToApply(o)

-----------------------------------------------------------------------------
(* The target cluster. *)

Becomes(o, thing) ==
  /\ world' = [world EXCEPT ![o] = thing]
  /\ UNCHANGED <<set, setView, pass, applied, edits>>

BecomeReady(o) ==
  /\ world[o].here /\ ~world[o].ready
  /\ Becomes(o, [world[o] EXCEPT !.ready = TRUE])
  /\ UNCHANGED troubles

Vanish(o) ==
  /\ world[o].here /\ world[o].ending
  /\ Becomes(o, [world[o] EXCEPT !.here = FALSE, !.ending = FALSE])
  /\ UNCHANGED troubles

(* Someone deletes an object, puts one of the same name in its place, takes  *)
(* the labels off, or it stops being ready.                                  *)
Disturb(o) ==
  /\ world[o].here /\ troubles < MaxFaults
  /\ \/ Becomes(o, [world[o] EXCEPT !.here = FALSE, !.ending = FALSE])
     \/ Becomes(o, Incarnation(o, FALSE))
     \/ Becomes(o, [world[o] EXCEPT !.ours = FALSE])
     \/ Becomes(o, [world[o] EXCEPT !.ready = FALSE])
  /\ troubles' = troubles + 1

CacheSet ==
  /\ "set" \in Lagging
  /\ setView' = set
  /\ UNCHANGED <<set, pass, world, applied, boundVars>>

Cluster ==
  \/ \E o \in Objects : BecomeReady(o) \/ Vanish(o) \/ Disturb(o)
  \/ CacheSet

-----------------------------------------------------------------------------
(* Its owner, the controller of the environment, writes the whole spec.      *)
(* Every edit is a new generation, and so is a deletion; an object without   *)
(* finalizer is gone at once.                                                *)
OwnSet(new) ==
  /\ set' = new
  /\ UNCHANGED <<setView, pass, world, applied, troubles>>

WriteSetSpec(resources, open) ==
  /\ set.exists
  /\ OwnSet([set EXCEPT !.resources = resources, !.open = open, !.gen = @ + 1])

DeleteSet ==
  /\ set.exists /\ ~set.deleting
  /\ OwnSet([set EXCEPT !.deleting = TRUE, !.exists = set.finalizer,
                        !.gen = @ + 1])

SetOwner ==
  /\ edits < MaxEdits /\ edits' = edits + 1
  /\ \/ \E resources \in Versions, open \in BOOLEAN :
          /\ ~set.deleting /\ <<resources, open>> # <<set.resources, set.open>>
          /\ WriteSetSpec(resources, open)
     \/ DeleteSet

SetNext == ReconcileSet \/ SetFaults \/ Cluster \/ SetOwner

SetSpec ==
  (\E resources \in Versions : SetInit(NewSet(resources)))
    /\ [][SetNext]_setVars

(* Changes of the set requeue it, so do reconciliations that fail or find    *)
(* something to wait for; what is left over is reconciled when the manager   *)
(* resyncs, every ten hours.  Deletions in the target cluster finish, and    *)
(* what is applied becomes ready.                                            *)
SetFairness ==
  /\ WF_setVars(ReconcileSet) /\ WF_setVars(CacheSet)
  /\ \A o \in Objects :
       WF_setVars(Vanish(o)) /\ WF_setVars(BecomeReady(o))

FairSetSpec == SetSpec /\ SetFairness

-----------------------------------------------------------------------------
(* The set, its cache, the pass and the cluster keep their types; what is    *)
(* recorded has existed, and what a pass is pruning it has read from the     *)
(* inventory and is free to prune (pruneInventory).                          *)
SetTypeOK ==
  /\ set \in SetRecord /\ setView \in SetRecord
  /\ pass \in Passes({"apply", "cleanup"}) \cup {Idle}
  /\ world \in [Objects -> Thing]
  /\ applied \subseteq Objects \X Nat
  /\ \A o \in Objects : set.inventory[o] <= world[o].uid
  /\ pass # Idle /\ pass.item # "none" =>
       pass.item \in Named(pass.view.inventory) \ Protected
  /\ edits \in 0..MaxEdits /\ troubles \in 0..MaxFaults

(* The object the controller deletes in a step, not someone else. *)
Deletes(o) ==
  /\ world[o].here /\ ~world[o].ending
  /\ world'[o].ending \/ ~world'[o].here
  /\ troubles' = troubles

(* Pruning only ever takes incarnations that the controller itself applied,  *)
(* that still carry its labels, and that are not protected, whatever is put  *)
(* in their place between its requests (pruneItem, ValidatePrune).           *)
PrunesOnlyItsOwn ==
  [][\A o \in Objects :
       Deletes(o) =>
         /\ <<o, world[o].uid>> \in applied /\ world[o].ours
         /\ o \notin Protected]_setVars

(* An object of a later wave is created only after the incarnations that     *)
(* this pass has applied in earlier waves have become ready (ApplyBootstrap) *)
(* and, while nobody disturbs them, they stay so.                            *)
WavesInOrder ==
  [][\A o \in Objects :
       world'[o].uid # world[o].uid /\ troubles' = 0 =>
         \A p \in pass.view.resources \cap RequireReady :
           Wave[p] < Wave[o] =>
             world[p].ready /\ world[p].uid = pass.items[p]]_setVars

(* A set that is reported ready for its current generation has recorded an   *)
(* incarnation that it applied for every object its spec names, and nothing  *)
(* else (setRuntimeStatus replaces the inventory as a whole).                *)
ReadyIsRecorded ==
  set.exists /\ set.reason = "RuntimeReady" /\ set.observed = set.gen =>
    /\ Named(set.inventory) = set.resources
    /\ \A o \in set.resources : <<o, set.inventory[o]>> \in applied

(* What is recorded is not left behind: an object leaves the inventory, or   *)
(* its set leaves the API server, only when that incarnation is gone or      *)
(* protected.                                                                *)
RecordedNotOrphaned ==
  [][\A o \in Named(set.inventory) \ Protected :
       set.exists /\ (~set'.exists \/ set'.inventory[o] # set.inventory[o]) =>
         \/ ~world[o].here
         \/ world[o].uid # set.inventory[o]]_setVars

(* A set that is being deleted goes away, unless an object of its inventory  *)
(* is not its own any more (reconcileDelete).                                *)
CleanupCompletes ==
  set.deleting ~>
    \/ ~set.exists
    \/ \E o \in Named(set.inventory) \ Protected :
         /\ world[o].here
         /\ ~world[o].ours \/ world[o].uid # set.inventory[o]

(* A spec that is open to mutation and stays as it is gets applied, and is   *)
(* reported ready for its generation time and again, unless an object that   *)
(* it dropped cannot be pruned.                                              *)
RuntimeSettles ==
  <>[](set.exists /\ ~set.deleting /\ set.open) =>
    []<>(\/ set.reason = "RuntimeReady" /\ set.observed = set.gen
         \/ \E o \in Named(set.inventory) \ (set.resources \cup Protected) :
              ~world[o].here \/ ~world[o].ours
                \/ world[o].uid # set.inventory[o])

(* A spec that is open to mutation and stays as it is gets applied, and      *)
(* reported ready in the end.                                                *)
RuntimeConverges ==
  <>[](set.exists /\ ~set.deleting /\ set.open) =>
    []<>(set.reason = "RuntimeReady" /\ set.observed = set.gen)
=============================================================================
