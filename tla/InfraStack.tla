------------------------------ MODULE InfraStack ------------------------------
(***************************************************************************)
(* One InfraStack from its creation to the release of its finalizer: the   *)
(* InfraStack reconciler with its Plan and Apply runs, the approval of     *)
(* Plans, the admission of Applies and whoever edits the stack.            *)
(*                                                                         *)
(* How a run is executed is the subject of RunExecution; here a Plan ends  *)
(* with an outcome, and an Apply is admitted, started and ends.  By        *)
(* RunExecution an Apply ends Succeeded, Indeterminate or Rejected: a      *)
(* failed one has no ready evidence and becomes Indeterminate, so the      *)
(* branches of reconcileDestroy for Failed Applies are left out.           *)
(*                                                                         *)
(* Reconciliations of stacks and of runs each have one worker and read     *)
(* through caches that the two workers share.  The digests an approval     *)
(* binds are functions of the Plan run and of the generation of the stack, *)
(* so an approval is a mark on its Plan.                                   *)
(***************************************************************************)
EXTENDS Naturals, Sequences, FiniteSets

CONSTANTS
  Inputs,          \* what the spec of the stack may ask for
  StaleReads,      \* the caches may lag
  MaxEdits,        \* bound: how often the owner edits the stack
  MaxFaults        \* bound: Plans that fail or expire, Applies that are
                   \* rejected by mistake and restarts of the manager

ASSUME InputsAssumption ==
  /\ Inputs # {} /\ {"none", "absent", "partial"} \cap Inputs = {}
  /\ StaleReads \in BOOLEAN
ASSUME BoundsAssumption == MaxEdits \in Nat /\ MaxFaults \in Nat

VARIABLES
  stack,      \* the InfraStack in the API server, see Stack
  runs,       \* its Plan runs in the order of their creation, see Run
  stackView,  \* the stack as the cache shows it
  runsView,   \* the runs as the cache shows them
  admitting,  \* the Plan whose Apply has passed admission, 0 for none
  infra,      \* what Terraform manages at the moment
  asked,      \* history: whether its removal was ever asked for
  edits,      \* how often the owner has edited the stack
  faults      \* how many of these faults have happened

viewVars == <<stackView, runsView>>
worldVars == <<admitting, infra, asked, edits, faults>>
stackVars == <<stack, runs, viewVars, worldVars>>

-----------------------------------------------------------------------------
None == "none"
Absent == "absent"
Partial == "partial"

Reasons ==
  {"", "MutationFence", "PlanPending", "WaitingApproval", "Applying",
   "ApplyBlocked", "ApplyFailed", "ApplyIndeterminate",
   "TargetDiscoveryRejected", "InfrastructureReady", "InfrastructureRemoved",
   "DeletionHeld", "RecoveryRequired"}

(* Metadata, spec and status.  reason is that of the Ready condition, which  *)
(* is True for InfrastructureReady and InfrastructureRemoved; observed is    *)
(* its generation; converged is the retained closure of the last             *)
(* convergence; applied tells that LastAppliedRunRef is set.                 *)
Stack ==
  [exists : BOOLEAN, deleting : BOOLEAN, finalizer : BOOLEAN,
   gen : Nat, input : Inputs, desired : {"Present", "Destroy"},
   fence : BOOLEAN,
   reason : Reasons, observed : Nat, latest : Nat,
   converged : Inputs \cup {None}, applied : BOOLEAN]

(* A Plan run with its approval and its Apply run, whose name is a function  *)
(* of the UID of the Plan.  A Failed outcome stands for every outcome that   *)
(* planAttemptStale discards, except Superseded; apply is the state of the   *)
(* Apply: created (Admitted), with a JobRef (Started), or its outcome.       *)
Run ==
  [gen : Nat, mode : {"Reconcile", "Destroy"}, input : Inputs,
   outcome : {"", "NoChange", "ChangesPresent", "Failed", "Superseded"},
   base : Inputs \cup {Absent, Partial}, expired : BOOLEAN,
   approved : BOOLEAN,
   apply : {None, "Created", "Started", "Succeeded", "Indeterminate",
            "Rejected"}]

View == IF StaleReads THEN stackView ELSE stack
RunsSeen == IF StaleReads THEN runsView ELSE runs
Plans == DOMAIN RunsSeen

StackInit ==
  /\ \E input \in Inputs :
       stack = [exists |-> TRUE, deleting |-> FALSE, finalizer |-> FALSE,
                gen |-> 1, input |-> input, desired |-> "Present",
                fence |-> FALSE, reason |-> "", observed |-> 0, latest |-> 0,
                converged |-> None, applied |-> FALSE]
  /\ runs = <<>>
  /\ stackView = stack
  /\ runsView = runs
  /\ admitting = 0
  /\ infra = Absent
  /\ asked = FALSE
  /\ edits = 0
  /\ faults = 0

-----------------------------------------------------------------------------
(* Updates of the stack fail on conflict when it was read stale; the         *)
(* reconciliation then ends with an error and is retried.                    *)
Update(new) == stack' = IF View = stack THEN new ELSE stack

Condition(reason) ==
  [View EXCEPT !.reason = reason, !.observed = View.gen]

(* The requests of a reconciliation of the stack that only update it. *)
UpdateOnly(new) ==
  /\ Update(new)
  /\ UNCHANGED <<runs, viewVars, worldVars>>

(* An update that follows another request may not happen any more: the       *)
(* process stops or the stack is edited in between.                          *)
ThenUpdate(new) == stack' = stack \/ Update(new)

Destroying == View.desired = "Destroy" \/ View.deleting

(* The first thing Reconcile does for a stack that is not being deleted. *)
AddFinalizer ==
  /\ View.exists /\ ~View.deleting /\ ~View.finalizer
  /\ UpdateOnly([View EXCEPT !.finalizer = TRUE])

Reconciled == View.exists /\ (View.deleting \/ View.finalizer)

SetFence ==
  /\ Reconciled /\ Destroying /\ ~View.fence
  /\ UpdateOnly([View EXCEPT !.fence = TRUE, !.gen = @ + 1])

HoldPresent ==
  /\ Reconciled /\ ~Destroying /\ View.fence
  /\ UpdateOnly(Condition("MutationFence"))

-----------------------------------------------------------------------------
(* reconcileDestroy, up to the retained closure. *)

Destroys == Reconciled /\ Destroying /\ View.fence

Applies(states) == {p \in Plans : RunsSeen[p].apply \in states}

(* The status is updated, then the finalizer is removed.  Removing the last  *)
(* finalizer of an object that is being deleted ends it.                     *)
Releases(done) ==
  {done, [done EXCEPT !.finalizer = FALSE, !.exists = ~done.deleting]}

ReleaseRemoved ==
  /\ Destroys
  /\ View.reason = "InfrastructureRemoved"
  /\ \E new \in Releases(Condition("InfrastructureRemoved")) : UpdateOnly(new)

Remains == Destroys /\ View.reason # "InfrastructureRemoved"

RequireRecovery ==
  /\ Remains
  /\ Applies({"Indeterminate"}) # {}
  /\ UpdateOnly(Condition("RecoveryRequired"))

HoldDeletion ==
  /\ Remains
  /\ Applies({"Created", "Started"}) # {}
  /\ UpdateOnly(Condition("DeletionHeld"))

(* Mutant: an Apply without a Job does not hold the deletion. *)
SettledOnceStarted == Remains /\ Applies({"Indeterminate", "Started"}) = {}

Settled == Remains /\ Applies({"Indeterminate", "Created", "Started"}) = {}

(* Mutant: only what the status recorded counts as applied. *)
NothingRecorded == ~View.applied

(* No Apply was recorded, and none was admitted that could have run. *)
NothingApplied == ~View.applied /\ Applies({"Succeeded"}) = {}

RemoveNothing ==
  /\ Settled
  /\ View.converged = None
  /\ NothingApplied
  /\ \E new \in Releases(Condition("InfrastructureRemoved")) : UpdateOnly(new)

RefuseToGuess ==
  /\ Settled
  /\ View.converged = None
  /\ ~NothingApplied
  /\ UpdateOnly(Condition("RecoveryRequired"))

-----------------------------------------------------------------------------
(* ensurePlanRun, for the mode the stack is in. *)

Mode == IF Destroying THEN "Destroy" ELSE "Reconcile"

(* Whether the reconciliation reaches ensurePlanRun at all. *)
PlansRun ==
  \/ Settled /\ View.converged # None
  \/ Reconciled /\ ~Destroying /\ ~View.fence

OfView(run) == run.gen = View.gen /\ run.mode = Mode

Attempts == {p \in Plans : OfView(RunsSeen[p])}

Candidate(p) == p \in Attempts /\ \A q \in Attempts : q <= p

(* Mutant: the expiry of an attempt is not looked at. *)
StaleByOutcome(p) == RunsSeen[p].outcome \in {"Failed", "Superseded"}

(* planAttemptStale *)
Stale(p) ==
  \/ RunsSeen[p].outcome \in {"Failed", "Superseded"}
  \/ runs[p].expired /\ RunsSeen[p].outcome # ""

(* Mutant: every Plan starts from the retained closure. *)
NewRunFromClosure ==
  [gen |-> View.gen, mode |-> Mode, input |-> View.converged,
   outcome |-> "", base |-> Absent, expired |-> FALSE, approved |-> FALSE,
   apply |-> None]

NewRun ==
  [gen |-> View.gen, mode |-> Mode,
   input |-> IF Mode = "Destroy" THEN View.converged ELSE View.input,
   outcome |-> "", base |-> Absent, expired |-> FALSE, approved |-> FALSE,
   apply |-> None]

CreatePlan ==
  /\ runs' = Append(runs, NewRun)
  /\ ThenUpdate([Condition("PlanPending") EXCEPT !.latest = Len(runs) + 1])
  /\ UNCHANGED <<viewVars, worldVars>>

(* The first Plan of a generation has a name of its own: creating it fails   *)
(* when the cache does not show yet that it exists.                          *)
FirstPlan ==
  /\ PlansRun
  /\ Attempts = {}
  /\ \A p \in DOMAIN runs : ~OfView(runs[p])
  /\ CreatePlan

(* A discarded attempt is first marked.  Marking and creating the next       *)
(* attempt are two requests, and a reconciliation that stops between them    *)
(* starts over with the marked attempt.  Marking fails on conflict when the  *)
(* Plan itself has changed; approval and Apply are objects of their own.     *)
Supersede ==
  /\ PlansRun
  /\ \E p \in Attempts :
       /\ Candidate(p) /\ Stale(p) /\ RunsSeen[p].outcome # "Superseded"
       /\ RunsSeen[p].outcome = runs[p].outcome
       /\ runs' = [runs EXCEPT ![p].outcome = "Superseded"]
  /\ UNCHANGED <<stack, viewVars, worldVars>>

NextPlan ==
  /\ PlansRun
  /\ \E p \in Attempts :
       Candidate(p) /\ RunsSeen[p].outcome = "Superseded"
  /\ CreatePlan

-----------------------------------------------------------------------------
(* reconcilePlanResult *)

Follows(p) == PlansRun /\ Candidate(p) /\ ~Stale(p)

(* The status of a reconciliation that followed p. *)
Following(p, reason) == [Condition(reason) EXCEPT !.latest = p]

(* convergenceClosure is what a later Destroy starts from. *)
Converged(p) ==
  [Following(p, "InfrastructureReady") EXCEPT !.converged = RunsSeen[p].input]

(* Infrastructure is removed: the finalizer goes with the same               *)
(* reconciliation when the stack is being deleted.                           *)
Removed(p) ==
  LET done == Following(p, "InfrastructureRemoved")
  IN  IF View.deleting THEN Releases(done) ELSE {done}

AwaitPlan(p) ==
  /\ Follows(p)
  /\ RunsSeen[p].outcome = ""
  /\ UpdateOnly(Following(p, "PlanPending"))

(* verifyTargetDiscovery: the discovery may fail or not match. *)
Discovered(p) == {Converged(p), Following(p, "TargetDiscoveryRejected")}

FollowNoChange(p) ==
  /\ Follows(p)
  /\ RunsSeen[p].outcome = "NoChange"
  /\ IF Mode = "Destroy"
     THEN \E new \in Removed(p) : UpdateOnly(new)
     ELSE \E new \in Discovered(p) : UpdateOnly(new)

AwaitApproval(p) ==
  /\ Follows(p)
  /\ RunsSeen[p].outcome = "ChangesPresent"
  /\ ~RunsSeen[p].approved
  /\ UpdateOnly(Following(p, "WaitingApproval"))

Approved(p) ==
  /\ Follows(p)
  /\ RunsSeen[p].outcome = "ChangesPresent" /\ RunsSeen[p].approved

(* ensureApplyRun: the Apply of a Plan has one name, so at most one exists. *)
CreateApply(p) ==
  /\ Approved(p)
  /\ RunsSeen[p].apply = None
  /\ \/ /\ runs[p].apply = None
        /\ runs' = [runs EXCEPT ![p].apply = "Created"]
        /\ ThenUpdate(Following(p, "Applying"))
     \/ /\ runs[p].apply # None
        /\ Update(Following(p, "ApplyBlocked"))
        /\ UNCHANGED runs
  /\ UNCHANGED <<viewVars, worldVars>>

(* What an Apply that exists makes of the stack. *)
AfterApply(p, apply) ==
  CASE apply = "Succeeded" /\ Mode = "Destroy" -> Removed(p)
    [] apply = "Succeeded" /\ Mode = "Reconcile" ->
         {[new EXCEPT !.applied = TRUE] : new \in Discovered(p)}
    [] apply = "Indeterminate" -> {Following(p, "ApplyIndeterminate")}
    [] apply = "Rejected" -> {Following(p, "ApplyFailed")}
    [] OTHER -> {Following(p, "Applying")}

FollowApply(p) ==
  /\ Approved(p)
  /\ RunsSeen[p].apply # None
  /\ \E new \in AfterApply(p, RunsSeen[p].apply) : UpdateOnly(new)

ReconcileStack ==
  \/ AddFinalizer \/ SetFence \/ HoldPresent
  \/ ReleaseRemoved \/ RequireRecovery \/ HoldDeletion
  \/ RemoveNothing \/ RefuseToGuess
  \/ FirstPlan \/ Supersede \/ NextPlan
  \/ \E p \in Plans :
       \/ AwaitPlan(p) \/ FollowNoChange(p) \/ AwaitApproval(p)
       \/ CreateApply(p) \/ FollowApply(p)

-----------------------------------------------------------------------------
(* The runs, as RunExecution executes them. *)

(* What Terraform would leave behind. *)
Goal(run) == IF run.mode = "Destroy" THEN Absent ELSE run.input

FinishPlan(p) ==
  /\ runs[p].outcome = ""
  /\ runs' = [runs EXCEPT ![p].outcome =
                            IF infra = Goal(runs[p]) THEN "NoChange"
                            ELSE "ChangesPresent",
                          ![p].base = infra]
  /\ UNCHANGED <<stack, viewVars, worldVars>>

FailPlan(p) ==
  /\ runs[p].outcome = "" /\ faults < MaxFaults
  /\ runs' = [runs EXCEPT ![p].outcome = "Failed"]
  /\ faults' = faults + 1
  /\ UNCHANGED <<stack, viewVars, admitting, infra, asked, edits>>

(* An hour after the Plan.  The expiry of a Plan whose Apply was rejected is *)
(* not bounded: the next attempt waits for it.                               *)
Expire(p) ==
  /\ runs[p].outcome \in {"NoChange", "ChangesPresent"} /\ ~runs[p].expired
  /\ \/ runs[p].apply = "Rejected" /\ UNCHANGED faults
     \/ faults < MaxFaults /\ faults' = faults + 1
  /\ runs' = [runs EXCEPT ![p].expired = TRUE]
  /\ UNCHANGED <<stack, viewVars, admitting, infra, asked, edits>>

(* validateApplyAdmission, on the stack and the Plan as the cache shows them *)
(* when the Apply is about to get its Job.                                   *)
Admissible(p) ==
  /\ View.exists
  /\ RunsSeen[p].mode = "Destroy" \/ ~View.fence
  /\ RunsSeen[p].outcome = "ChangesPresent"
  /\ RunsSeen[p].gen = View.gen
  /\ ~runs[p].expired

(* The worker of the runs takes up the Apply of p.  The execution gate       *)
(* admits one Apply of a stack at a time.                                    *)
TakesUp(p) ==
  /\ admitting = 0
  /\ RunsSeen[p].apply = "Created" /\ runs[p].apply = "Created"
  /\ \A q \in DOMAIN runs : runs[q].apply # "Started"

AdmitApply(p) ==
  /\ TakesUp(p)
  /\ Admissible(p)
  /\ admitting' = p
  /\ UNCHANGED <<stack, runs, viewVars, infra, asked, edits, faults>>

(* Also when an approved artifact cannot be read at the moment. *)
RejectApply(p) ==
  /\ TakesUp(p)
  /\ \/ ~Admissible(p) /\ UNCHANGED faults
     \/ faults < MaxFaults /\ faults' = faults + 1
  /\ runs' = [runs EXCEPT ![p].apply = "Rejected"]
  /\ UNCHANGED <<stack, viewVars, admitting, infra, asked, edits>>

(* The JobRef is persisted and the Job is created. *)
StartApply(p) ==
  /\ admitting = p
  /\ runs' = [runs EXCEPT ![p].apply = "Started"]
  /\ admitting' = 0
  /\ UNCHANGED <<stack, viewVars, infra, asked, edits, faults>>

(* Terraform refuses a saved plan whose state has changed since. *)
SucceedApply(p) ==
  /\ runs[p].apply = "Started" /\ infra = runs[p].base
  /\ infra' = Goal(runs[p])
  /\ runs' = [runs EXCEPT ![p].apply = "Succeeded"]
  /\ UNCHANGED <<stack, viewVars, admitting, asked, edits, faults>>

FailApply(p) ==
  /\ runs[p].apply = "Started"
  /\ infra' \in {infra} \cup
       (IF infra = runs[p].base THEN {Partial, Goal(runs[p])} ELSE {})
  /\ runs' = [runs EXCEPT ![p].apply = "Indeterminate"]
  /\ UNCHANGED <<stack, viewVars, admitting, asked, edits, faults>>

StartsApply(p) ==
  (p \in Plans /\ (AdmitApply(p) \/ RejectApply(p))) \/ StartApply(p)

EndsApply(p) == SucceedApply(p) \/ FailApply(p)

-----------------------------------------------------------------------------
(* The console approves the latest Plan of a stack that waits for it. *)
ApprovePlan(p) ==
  /\ runs[p].outcome = "ChangesPresent" /\ ~runs[p].expired
  /\ stack.exists /\ stack.latest = p /\ stack.gen = runs[p].gen
  /\ stack.fence => runs[p].mode = "Destroy"
  /\ stack.reason \in {"WaitingApproval", "InfrastructureReady",
                       "InfrastructureRemoved"}
  /\ ~runs[p].approved
  /\ runs' = [runs EXCEPT ![p].approved = TRUE]
  /\ UNCHANGED <<stack, viewVars, worldVars>>

(* Whoever owns the stack edits it; every edit is a new generation, and so   *)
(* is a deletion.                                                            *)
Edit(new) ==
  /\ stack.exists /\ edits < MaxEdits
  /\ new # stack
  /\ stack' = [new EXCEPT !.gen = @ + 1]
  /\ edits' = edits + 1
  /\ asked' = (asked \/ new.desired = "Destroy" \/ new.deleting)
  /\ UNCHANGED <<runs, viewVars, admitting, infra, faults>>

(* The controller of the environment writes the whole spec. *)
EditSpec(input) ==
  Edit([stack EXCEPT !.input = input, !.desired = "Present", !.fence = FALSE])

EditFence == Edit([stack EXCEPT !.fence = TRUE])

EditDesired == Edit([stack EXCEPT !.desired = "Destroy"])

(* The object is gone at once when it has no finalizer. *)
DeleteStack ==
  Edit([stack EXCEPT !.deleting = TRUE, !.exists = stack.finalizer])

EditStack ==
  \/ \E input \in Inputs : EditSpec(input)
  \/ EditFence \/ EditDesired \/ DeleteStack

CacheStack ==
  /\ StaleReads
  /\ stackView' = stack
  /\ UNCHANGED <<stack, runs, runsView, worldVars>>

CacheRuns ==
  /\ StaleReads
  /\ runsView' = runs
  /\ UNCHANGED <<stack, runs, stackView, worldVars>>

(* The manager stops, and starts again with synced caches. *)
RestartManager ==
  /\ faults < MaxFaults
  /\ faults' = faults + 1
  /\ admitting' = 0
  /\ stackView' = IF StaleReads THEN stack ELSE stackView
  /\ runsView' = IF StaleReads THEN runs ELSE runsView
  /\ UNCHANGED <<stack, runs, infra, asked, edits>>

StackNext ==
  \/ ReconcileStack
  \/ \E p \in DOMAIN runs :
       \/ FinishPlan(p) \/ FailPlan(p) \/ Expire(p) \/ ApprovePlan(p)
       \/ StartsApply(p) \/ EndsApply(p)
  \/ EditStack \/ CacheStack \/ CacheRuns \/ RestartManager

StackSpec == StackInit /\ [][StackNext]_stackVars

(* A stack is requeued until it is ready, and when one of its runs changes;  *)
(* runs are requeued until they have ended and their Jobs have deadlines;    *)
(* watches deliver; the hour of a Plan passes.  Nobody has to approve        *)
(* anything.                                                                 *)
StackFairness ==
  /\ WF_stackVars(ReconcileStack)
  /\ WF_stackVars(CacheStack) /\ WF_stackVars(CacheRuns)
  /\ WF_stackVars(\E p \in DOMAIN runs : FinishPlan(p))
  /\ WF_stackVars(\E p \in DOMAIN runs : StartsApply(p))
  /\ WF_stackVars(\E p \in DOMAIN runs : EndsApply(p))
  /\ WF_stackVars(\E p \in DOMAIN runs :
                    runs[p].apply = "Rejected" /\ Expire(p))

FairStackSpec == StackSpec /\ StackFairness

-----------------------------------------------------------------------------
(* The stack, its runs and their caches keep their types: a Plan has a       *)
(* source to plan from, and a status names a run that exists.                *)
StackTypeOK ==
  /\ stack \in Stack /\ stackView \in Stack
  /\ runs \in Seq(Run) /\ runsView \in Seq(Run)
  /\ stack.latest \in 0..Len(runs) /\ admitting \in 0..Len(runs)
  /\ infra \in Inputs \cup {Absent, Partial} /\ asked \in BOOLEAN
  /\ edits \in 0..MaxEdits /\ faults \in 0..MaxFaults

(* When a stack is reported as removed, or has released its finalizer, there *)
(* is no infrastructure left and no Apply that could bring it back is under  *)
(* way, however stale the caches of both controllers were.                   *)
RemovedMeansRemoved ==
  ~stack.exists \/ stack.reason = "InfrastructureRemoved" =>
    /\ infra = Absent
    /\ \A p \in DOMAIN runs : runs[p].apply # "Started"

(* A Destroy Plan sees the infrastructure that its Apply will remove: from   *)
(* the moment it is created, no other Apply is under way or gets started,    *)
(* unless the stack has been edited again.                                   *)
DestroyPlansAlone ==
  \A p, q \in DOMAIN runs :
    /\ runs[p].mode = "Destroy" /\ runs[p].gen = stack.gen
    /\ runs[q].mode = "Reconcile"
    => runs[q].apply # "Started"

(* A stack keeps its promise to the environment that owns it, see            *)
(* StackPromise.                                                             *)
AsPromised ==
  [exists |-> stack.exists, deleting |-> stack.deleting,
   finalizer |-> stack.finalizer, desired |-> stack.desired,
   fence |-> stack.fence,
   reason |-> CASE stack.reason = "InfrastructureReady" -> "Ready"
                [] stack.reason = "InfrastructureRemoved" -> "Removed"
                [] stack.reason = "RecoveryRequired" -> "Recovery"
                [] OTHER -> "Pending",
   current |-> stack.observed = stack.gen]

RunningMode ==
  LET running == {p \in DOMAIN runs : runs[p].apply = "Started"}
  IN  IF running = {} THEN "none" ELSE runs[CHOOSE p \in running : TRUE].mode

Promise ==
  INSTANCE StackPromise WITH
    stack <- AsPromised,
    infra <- IF infra = Absent THEN "absent" ELSE "present",
    applying <- RunningMode

KeepsPromise == Promise!PromiseSpec

(* Deletion never gets stuck in between: a stack that is being deleted       *)
(* disappears, unless it needs recovery or a Destroy Plan of its current     *)
(* generation still waits to be approved.                                    *)
DeletionProgresses ==
  stack.deleting ~>
    \/ ~stack.exists
    \/ stack.reason = "RecoveryRequired"
    \/ \E p \in DOMAIN runs :
         /\ runs[p].gen = stack.gen /\ runs[p].mode = "Destroy"
         /\ runs[p].outcome = "ChangesPresent" /\ ~runs[p].approved
=============================================================================
