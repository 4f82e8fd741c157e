----------------------------- MODULE Environment ------------------------------
(***************************************************************************)
(* A PlatformEnvironment in Class Mode and the two objects it owns: the    *)
(* InfraStack, as StackPromise describes it, and the ResourceSet, in full  *)
(* detail.  The controllers of the three never call each other; each       *)
(* watches the objects of the others through caches that may lag, and      *)
(* writes their specs.                                                     *)
(*                                                                         *)
(* A version of the environment is the set of runtime objects its class    *)
(* asks for.  Targets, sources and backends never change under an          *)
(* environment: the CRDs forbid it.                                        *)
(***************************************************************************)
EXTENDS ResourceSet, StackPromise

VARIABLES
  env,        \* the PlatformEnvironment, see EnvRecord
  envView,    \* the environment as the cache shows it
  stackView,  \* the stack as the cache shows it
  built,      \* the version the spec of the stack was built for
  builtView   \* the same as the cache shows it

envViews == <<envView, stackView, builtView>>
promised == <<stack, built, infra, applying, asked>>
allVars == <<env, envViews, promised, setVars>>

-----------------------------------------------------------------------------
EnvReasons ==
  {"", "Refused", "InfrastructureNotReady", "RuntimeNotReady",
   "EnvironmentReady", "Deleting"}

(* Refused stands for InvalidSpec, ClassNotFound, ClassRejected and          *)
(* QuotaRejected.                                                            *)
EnvRecord ==
  [exists : BOOLEAN, deleting : BOOLEAN, finalizer : BOOLEAN, gen : Nat,
   version : Versions, reason : EnvReasons, observed : Nat]

NoSet == [NewSet(CHOOSE v \in Versions : TRUE) EXCEPT !.exists = FALSE]

EnvInit ==
  /\ \E version \in Versions :
       env = [exists |-> TRUE, deleting |-> FALSE, finalizer |-> FALSE,
              gen |-> 1, version |-> version, reason |-> "", observed |-> 0]
  /\ envView = env
  /\ PromiseInit /\ stack = NoStack
  /\ built = env.version
  /\ stackView = stack /\ builtView = built
  /\ SetInit(NoSet)

EnvSeen == IF "env" \in Lagging THEN envView ELSE env
StackSeen == IF "stack" \in Lagging THEN stackView ELSE stack
BuiltSeen == IF "stack" \in Lagging THEN builtView ELSE built

-----------------------------------------------------------------------------
(* Writes of the reconciler; each fails on conflict when the object was read *)
(* stale, and the reconciliation is retried.                                 *)

StackAsSeen == StackSeen = stack /\ BuiltSeen = built
SetAsSeen == SetSeen = set
EnvAsSeen == EnvSeen = env

KeepsEnv == UNCHANGED <<env, envViews>>
KeepsStack == UNCHANGED promised
KeepsSet == UNCHANGED setVars

EnvCondition(reason) ==
  [EnvSeen EXCEPT !.reason = reason, !.observed = EnvSeen.gen]

UpdateEnv(new) == env' = IF EnvAsSeen THEN new ELSE env

OnlyEnv == UNCHANGED envViews /\ KeepsStack /\ KeepsSet

AddEnvFinalizer ==
  /\ EnvSeen.exists /\ ~EnvSeen.deleting /\ ~EnvSeen.finalizer
  /\ UpdateEnv([EnvSeen EXCEPT !.finalizer = TRUE])
  /\ OnlyEnv

(* Mutant: a deletion does not end the care for the children.                *)
WantedForever == EnvSeen.exists /\ EnvSeen.finalizer

(* Mutant: children are made before the finalizer is there.                  *)
WantedEarly == EnvSeen.exists /\ ~EnvSeen.deleting

Wanted == EnvSeen.exists /\ ~EnvSeen.deleting /\ EnvSeen.finalizer

(* The spec, the class or the quota of the tenant does not admit it; see     *)
(* Admission.  It is a trouble when it comes after the first admission.      *)
RefuseEnv ==
  /\ Wanted
  /\ IF EnvSeen.reason \in {"", "Refused"}
     THEN UNCHANGED troubles
     ELSE troubles < MaxFaults /\ troubles' = troubles + 1
  /\ UpdateEnv(EnvCondition("Refused"))
  /\ UNCHANGED <<envViews, promised, set, setView, pass, world, applied, edits>>

(* Creating an object that the cache does not show yet fails. *)
PutSet ==
  /\ ~SetSeen.exists /\ set = NoSet
  /\ set' = NewSet(EnvSeen.version)
  /\ UNCHANGED <<setView, pass, world, applied, boundVars>>

(* The pass that creates the stack goes on to create the set, unless it      *)
(* stops in between.                                                         *)
CreateStack ==
  /\ Wanted /\ ~StackSeen.exists
  /\ CreateOwned /\ built' = EnvSeen.version
  /\ PutSet \/ KeepsSet
  /\ KeepsEnv

(* The spec of the class is written as a whole, which also clears a fence    *)
(* and a wish for removal.                                                   *)
StackDrifted ==
  StackSeen.desired # "Present" \/ StackSeen.fence \/ BuiltSeen # EnvSeen.version

ResetStack ==
  /\ Wanted /\ StackSeen.exists /\ StackDrifted
  /\ StackAsSeen
  /\ Own([stack EXCEPT !.desired = "Present", !.fence = FALSE])
  /\ built' = EnvSeen.version
  /\ KeepsEnv /\ KeepsSet

StackSettled == Wanted /\ StackSeen.exists /\ ~StackDrifted

CreateSet == StackSettled /\ PutSet /\ KeepsEnv /\ KeepsStack

StackReady ==
  /\ StackSeen.exists
  /\ StackSeen.reason = "Ready" /\ StackSeen.current
  /\ StackSeen.desired = "Present"

Open == StackReady /\ ~StackSeen.fence

(* Mutant: the switch for mutations is not compared. *)
SetListed == SetSeen.resources = EnvSeen.version

SetCurrent == SetSeen.resources = EnvSeen.version /\ SetSeen.open = Open

WriteSet ==
  /\ StackSettled /\ SetSeen.exists /\ ~SetCurrent
  /\ SetAsSeen /\ WriteSetSpec(EnvSeen.version, Open)
  /\ UNCHANGED edits
  /\ KeepsEnv /\ KeepsStack

(* Mutant: the status counts for whatever generation it was reported. *)
RuntimeReadyOnce == SetCurrent /\ SetSeen.reason = "RuntimeReady"

(* The condition is built from the same read of the set: one that was just   *)
(* written is not ready for its new generation.                              *)
RuntimeReady ==
  SetCurrent /\ SetSeen.reason = "RuntimeReady" /\ SetSeen.observed = SetSeen.gen

Verdict ==
  IF ~StackReady THEN "InfrastructureNotReady"
  ELSE IF ~RuntimeReady THEN "RuntimeNotReady"
  ELSE "EnvironmentReady"

ReportEnv ==
  /\ StackSettled /\ SetSeen.exists
  /\ UpdateEnv(EnvCondition(Verdict))
  /\ OnlyEnv

EnvPresent ==
  \/ AddEnvFinalizer \/ CreateStack \/ ResetStack \/ CreateSet \/ WriteSet
  \/ ReportEnv

-----------------------------------------------------------------------------
(* reconcileDelete first reports the deletion; only then does it look at the *)
(* stack and at the set.                                                     *)
MarkDeleting ==
  /\ EnvSeen.exists /\ EnvSeen.deleting
  /\ UpdateEnv(EnvCondition("Deleting"))
  /\ OnlyEnv

Leaving ==
  /\ EnvSeen.exists /\ EnvSeen.deleting
  /\ EnvSeen.reason = "Deleting"

FenceStack ==
  /\ Leaving /\ StackSeen.exists /\ ~StackSeen.fence
  /\ StackAsSeen /\ Own([stack EXCEPT !.fence = TRUE])
  /\ KeepsEnv /\ KeepsSet /\ UNCHANGED built

StackFenced == Leaving /\ (StackSeen.exists => StackSeen.fence)

CloseSet ==
  /\ StackFenced /\ SetSeen.exists /\ SetSeen.open
  /\ SetAsSeen /\ WriteSetSpec(SetSeen.resources, FALSE)
  /\ UNCHANGED edits
  /\ KeepsEnv /\ KeepsStack

SetClosed == StackFenced /\ SetSeen.exists /\ ~SetSeen.open

(* The runs of the stack are listed from a cache, too. *)
NoApplyInSight == ~StackSeen.exists \/ "stack" \in Lagging \/ applying = "none"

(* The request has no preconditions; it works on any version of the set.     *)
(* (A stack in recovery would hold it back.  As long as nobody else deletes  *)
(* the stack, it is not in recovery before the set is gone.)                 *)
DeleteOwnedSet ==
  /\ SetClosed /\ NoApplyInSight
  /\ ~SetSeen.deleting /\ DeleteSet
  /\ UNCHANGED edits
  /\ KeepsEnv /\ KeepsStack

(* Mutant: the stack does not wait for a set that is being deleted. *)
SetGoing == StackFenced /\ (SetSeen.exists => SetSeen.deleting)

SetGone == StackFenced /\ ~SetSeen.exists

AskDestroy ==
  /\ SetGone /\ StackSeen.exists
  /\ StackSeen.desired # "Destroy" /\ ~StackSeen.deleting
  /\ StackAsSeen /\ Own([stack EXCEPT !.desired = "Destroy"])
  /\ KeepsEnv /\ KeepsSet /\ UNCHANGED built

(* InfrastructureRemoved counts for whatever generation it was reported. *)
DeleteRemovedStack ==
  /\ SetGone /\ StackSeen.exists
  /\ StackSeen.desired = "Destroy" \/ StackSeen.deleting
  /\ StackSeen.reason = "Removed" /\ ~StackSeen.deleting
  /\ DeleteOwned
  /\ KeepsEnv /\ KeepsSet /\ UNCHANGED built

ReleaseEnv ==
  /\ SetGone /\ ~StackSeen.exists
  /\ EnvSeen.finalizer
  /\ UpdateEnv([EnvSeen EXCEPT !.finalizer = FALSE, !.exists = FALSE])
  /\ OnlyEnv

EnvDelete ==
  \/ MarkDeleting \/ FenceStack \/ CloseSet
  \/ DeleteOwnedSet \/ AskDestroy \/ DeleteRemovedStack \/ ReleaseEnv

ReconcileEnv == EnvPresent \/ EnvDelete

-----------------------------------------------------------------------------
(* The user. *)

EditEnv(new) ==
  /\ env.exists /\ ~env.deleting
  /\ env' = [new EXCEPT !.gen = @ + 1]
  /\ UNCHANGED <<envViews, promised, set, setView, pass, world, applied, troubles>>

SwitchClass ==
  /\ edits < MaxEdits /\ edits' = edits + 1
  /\ \E version \in Versions \ {env.version} :
       EditEnv([env EXCEPT !.version = version])

(* The object is gone at once when it has no finalizer. *)
DeleteEnv ==
  /\ EditEnv([env EXCEPT !.deleting = TRUE, !.exists = env.finalizer])
  /\ UNCHANGED edits

(* Children of an environment that is gone are garbage. *)
CollectGarbage ==
  /\ ~env.exists
  /\ \/ ~stack.deleting /\ DeleteOwned /\ UNCHANGED built /\ KeepsSet
     \/ DeleteSet /\ UNCHANGED edits /\ KeepsStack
  /\ KeepsEnv

-----------------------------------------------------------------------------
(* The controller of the stack works on the stack that its cache shows, the  *)
(* one the controller of the environment reads, too.  A ready stack is       *)
(* withdrawn when its Plan expires, and an Apply may be admitted on a stale  *)
(* read in spite of the fence: both count as troubles.  No Apply of garbage  *)
(* starts: it is collected before anybody has planned and approved one.      *)
Withdraws ==
  \/ stack.reason = "Ready" /\ ~AskedToGo /\ stack'.reason # "Ready"
  \/ stack.fence /\ applying = "none" /\ applying' = "Reconcile"

StackKeepsPromise ==
  /\ StackSeen.exists
  /\ StackReconciler \/ (env.exists /\ StackApplies) \/ EndRunning
  /\ troubles' = troubles + (IF Withdraws THEN 1 ELSE 0)
  /\ troubles' <= MaxFaults
  /\ UNCHANGED <<built, set, setView, pass, world, applied, edits>>
  /\ KeepsEnv

SetWorks ==
  /\ ReconcileSet \/ SetFaults \/ Cluster
  /\ KeepsEnv /\ KeepsStack

CacheEnv ==
  /\ "env" \in Lagging /\ envView' = env
  /\ UNCHANGED <<env, stackView, builtView, promised, setVars>>

CacheStack ==
  /\ "stack" \in Lagging /\ stackView' = stack /\ builtView' = built
  /\ UNCHANGED <<env, envView, promised, setVars>>

EnvNext ==
  \/ ReconcileEnv \/ RefuseEnv
  \/ SwitchClass \/ DeleteEnv \/ CollectGarbage
  \/ StackKeepsPromise \/ SetWorks
  \/ CacheEnv \/ CacheStack

EnvSpec == EnvInit /\ [][EnvNext]_allVars

(* The environment is requeued until it is ready and by changes of what it   *)
(* owns; its children are requeued as their modules say; watches deliver.    *)
(* A stack that has been removed says so and lets go, and an Apply ends.     *)
EnvFairness ==
  /\ WF_allVars(ReconcileEnv) /\ WF_allVars(CollectGarbage)
  /\ WF_allVars(CacheEnv) /\ WF_allVars(CacheStack)
  /\ WF_allVars(ReconcileSet /\ KeepsEnv /\ KeepsStack)
  /\ WF_allVars(CacheSet /\ KeepsEnv /\ KeepsStack)
  /\ \A o \in Objects :
       WF_allVars((Vanish(o) \/ BecomeReady(o)) /\ KeepsEnv /\ KeepsStack)
  /\ WF_allVars(StackKeepsPromise /\ (EndRunning \/ ReportAndRelease))

FairEnvSpec == EnvSpec /\ EnvFairness

-----------------------------------------------------------------------------
(* The three objects and their caches keep their types, and the InfraStack   *)
(* and the ResourceSet exist only for an environment that is protected by    *)
(* its finalizer or gone.                                                    *)
EnvTypeOK ==
  /\ env \in EnvRecord /\ envView \in EnvRecord
  /\ stack \in StackRecord /\ stackView \in StackRecord
  /\ built \in Versions /\ builtView \in Versions
  /\ infra \in {"absent", "present"}
  /\ applying \in {"none", "Reconcile", "Destroy"} /\ asked \in BOOLEAN
  /\ SetTypeOK
  /\ env.exists /\ (stack.exists \/ set.exists) => env.finalizer

(* Deleting an environment takes the runtime objects first, then the         *)
(* infrastructure, then the environment, whatever the caches show and        *)
(* whatever was under way (reconcileDelete).  See Teardown.                  *)
Promised ==
  INSTANCE Teardown WITH
    env <- IF ~env.exists THEN "gone"
           ELSE IF env.deleting THEN "deleting" ELSE "wanted",
    runtime <- IF set.exists /\ (Named(set.inventory) \ Protected # {}
                                   \/ pass.at = "apply")
               THEN "used" ELSE "unused",
    infra <- infra

TearsDownInOrder == Promised!TeardownSpec

(* When an environment is reported ready for its current generation, all     *)
(* runtime objects of that generation have been applied: no readiness of an  *)
(* earlier spec, and of a set that lags behind, is taken for it (Reconcile   *)
(* 163-249).                                                                 *)
ReadyIsEarned ==
  env.exists /\ env.reason = "EnvironmentReady" /\ env.observed = env.gen =>
    \A o \in env.version : \E incarnation \in applied : incarnation[1] = o

(* Deletion goes on until the environment is gone or someone has to act: to  *)
(* recover an Apply, to approve the Destroy of the stack, or to look after   *)
(* an object that is not the set's own any more.                             *)
NeedsSomeone ==
  \/ stack.reason = "Recovery"
  \/ ~set.exists /\ stack.exists /\ AskedToGo /\ stack.fence
       /\ stack.reason # "Removed"
  \/ \E o \in Named(set.inventory) \ Protected :
       world[o].here /\ (~world[o].ours \/ world[o].uid # set.inventory[o])

DeletionGoesOn == env.deleting ~> ~env.exists \/ NeedsSomeone

(* An environment whose stack stays ready becomes ready, unless its set is   *)
(* stuck with an object that was pruned halfway.                             *)
EnvironmentConverges ==
  <>[](~env.deleting /\ stack.reason = "Ready" /\ stack.current) =>
    []<>(\/ env.reason = "EnvironmentReady" /\ env.observed = env.gen
         \/ set.reason = "RuntimePruneRejected")
=============================================================================
