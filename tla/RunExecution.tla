----------------------------- MODULE RunExecution -----------------------------
(***************************************************************************)
(* The execution of TerraformRuns: the TerraformRun reconciler with its    *)
(* execution gate, the reconstruction that fills the gate after a restart, *)
(* the Jobs, the runner inside a Job and the terminal result the runner    *)
(* leaves in the artifact store.                                           *)
(*                                                                         *)
(* The manager runs one worker for TerraformRuns, so reconciliations do    *)
(* not overlap each other.  They do overlap everything else: Jobs and      *)
(* runners progress, caches lag, the process stops between two requests,   *)
(* and the reconstruction is a concurrent goroutine.  A reconciliation is  *)
(* one action, except where it sends more than one request that changes    *)
(* the cluster: persisting JobRef, creating the Job and recording its UID  *)
(* are three actions of the worker.  The controller of stacks is a second  *)
(* writer: it supersedes attempts of a Plan (see InfraStack).              *)
(*                                                                         *)
(* The spec of a TerraformRun is immutable, and all that matters of it     *)
(* here is its work item, so a run is identified with that item.           *)
(***************************************************************************)
EXTENDS ExecutionGate

CONSTANTS
  StaleReads,    \* reads go through informer caches that may lag
  CreateLoss,    \* a Create request may take effect and its answer be lost
  StoreErrors,   \* reading terminal evidence may fail although it is there
  JobDeletion,   \* someone may delete Jobs
  StatusLoss,    \* a restart may come with a cluster restored from a backup
  ForeignJobs,   \* runs whose Job name someone else may take
  MaxRestarts    \* bound: restarts of the manager

(* No two runs have one UID. *)
ASSUME RunsAssumption == UniqueIDs(Items)
ASSUME FaultsAssumption ==
  /\ StaleReads \in BOOLEAN /\ CreateLoss \in BOOLEAN
  /\ StoreErrors \in BOOLEAN /\ JobDeletion \in BOOLEAN
  /\ StatusLoss \in BOOLEAN
  /\ ForeignJobs \subseteq Items /\ MaxRestarts \in Nat

VARIABLES
  runs,       \* status of each TerraformRun in the API server
  jobs,       \* state of the Job with the name of each run
  terminal,   \* terminal-result.json of each run in the artifact store
  worker,     \* what the reconciler is about to do
  recon,      \* progress of the reconstruction of the gate
  runView,    \* the run as the cache of the manager shows it
  jobView,    \* the Job as the cache of the manager shows it
  mutated,    \* history: runs whose runner has started to change the cloud
  created,    \* history: how many Jobs were created for each run
  restarts    \* how often the manager was restarted

clusterVars == <<runs, jobs, terminal, mutated, created>>
viewVars == <<runView, jobView>>
managerVars == <<worker, recon, restarts>>
execVars == <<gateVars, clusterVars, viewVars, managerVars>>

-----------------------------------------------------------------------------
None == "None"

(* Nothing in the code writes Expired, although its readers know it.         *)
TerminalOutcomes ==
  {"Succeeded", "NoChange", "ChangesPresent", "Failed", "Indeterminate",
   "Rejected", "Expired", "Superseded"}

(* jobRef: no JobRef; a JobRef persisted before the Job is created; a JobRef *)
(* together with the UID of the created Job.                                 *)
RunStatus == [outcome : {"", "Pending", "Running"} \cup TerminalOutcomes,
              jobRef  : {"none", "named", "bound"}]

Running == {"Pending", "Running"}
Finished == {"Succeeded", "Failed"}

(* A Job that does not belong to the run by its UID, its label and its owner *)
(* is Foreign (validateTerraformJobIdentity).                                *)
JobStates == {None, "Foreign"} \cup Running \cup Finished

(* What a runner may store: a result whose artifacts are ready, or NotReady, *)
(* a failure or a result without all its evidence (artifactsReady = false).  *)
ReadyResults(r) ==
  IF r.Kind = "Plan" THEN {"ChangesPresent", "NoChange"} ELSE {"Succeeded"}
Results(r) == ReadyResults(r) \cup {"NotReady"}

Idle == [step |-> "idle"]

Seen(r) == IF StaleReads THEN runView[r] ELSE runs[r]
SeenJob(r) == IF StaleReads THEN jobView[r] ELSE jobs[r]
Fresh(r) == Seen(r) = runs[r]

Ended(status) == status.outcome \in TerminalOutcomes

NewStatus == [outcome |-> "", jobRef |-> "none"]

ExecInit ==
  /\ GateInit
  /\ runs = [r \in Items |-> NewStatus]
  /\ jobs = [r \in Items |-> None]
  /\ terminal = [r \in Items |-> None]
  /\ worker = Idle
  /\ recon = [phase |-> "unlisted", active |-> {}, unmatched |-> FALSE]
  /\ runView = runs
  /\ jobView = jobs
  /\ mutated = {}
  /\ created = [r \in Items |-> 0]
  /\ restarts = 0

-----------------------------------------------------------------------------
(* A status update carries the resourceVersion that was read: it fails on    *)
(* conflict when the read was stale.  A status equal to the cached one is    *)
(* not written at all, and that counts as success.                           *)
Written(r, status) == Fresh(r) \/ status = Seen(r)

(* Mutant: the status is written whatever resourceVersion was read. *)
WriteStatusAnyway(r, status) == runs' = [runs EXCEPT ![r] = status]

WriteStatus(r, status) ==
  runs' = IF Fresh(r) THEN [runs EXCEPT ![r] = status] ELSE runs

WriteOutcome(r, outcome) ==
  WriteStatus(r, [Seen(r) EXCEPT !.outcome = outcome])

(* Mutant: evidence without its artifacts is taken for its outcome. *)
OutcomeOfAnyEvidence(r) ==
  IF terminal[r] = "NotReady" THEN CHOOSE o \in ReadyResults(r) : TRUE
  ELSE terminal[r]

(* applyTerminalResult *)
OutcomeOfEvidence(r) ==
  IF terminal[r] # "NotReady" THEN terminal[r]
  ELSE IF r.Kind = "Apply" THEN "Indeterminate" ELSE "Failed"

(* Mutant: missing evidence is a failure, also of an Apply. *)
OutcomeOfFailure(r) == "Failed"

(* applyMissingTerminalResult *)
OutcomeOfNothing(r) == IF r.Kind = "Apply" THEN "Indeterminate" ELSE "Failed"

(* What captureTerminalResult can end in: any error, also a transient one,   *)
(* counts as missing evidence.                                               *)
CapturedOutcomes(r) ==
  IF terminal[r] = None
  THEN {OutcomeOfNothing(r)}
  ELSE {OutcomeOfEvidence(r)}
         \cup (IF StoreErrors THEN {OutcomeOfNothing(r)} ELSE {})

-----------------------------------------------------------------------------
(* Reconcile, up to the point where a Job is known. *)

(* Mutant: an Indeterminate run is looked at again. *)
ReconcilesUnlessDone(r) ==
  /\ worker = Idle
  /\ Seen(r).outcome \notin TerminalOutcomes \ {"Indeterminate"}

(* The worker takes r from the queue and r has no terminal outcome yet. *)
Reconciles(r) == worker = Idle /\ ~Ended(Seen(r))

Unstarted(r) == Reconciles(r) /\ Seen(r).jobRef = "none"

(* Mutant: the artifact store is not asked before a run is started. *)
EvidenceNotRead(r) == Unstarted(r)

NoEvidence(r) == Unstarted(r) /\ terminal[r] = None

(* The execution profile or the backend does not validate. *)
RejectProfile(r) ==
  /\ Unstarted(r)
  /\ WriteOutcome(r, "Rejected")
  /\ UNCHANGED <<gateVars, jobs, terminal, mutated, created, viewVars,
                 managerVars>>

(* Terminal evidence exists before a JobRef is known. *)
AdoptEvidence(r) ==
  /\ Unstarted(r)
  /\ terminal[r] # None
  /\ \E outcome \in CapturedOutcomes(r) : WriteOutcome(r, outcome)
  /\ UNCHANGED <<gateVars, jobs, terminal, mutated, created, viewVars,
                 managerVars>>

WaitForSlot(r) ==
  /\ NoEvidence(r)
  /\ ~Acquires(r)
  /\ WriteOutcome(r, "Pending")
  /\ UNCHANGED <<gateVars, jobs, terminal, mutated, created, viewVars,
                 managerVars>>

(* The slot is taken, the approval of an Apply or the Job to be built does   *)
(* not validate, and the slot is given back: the net effect is that of       *)
(* Release.                                                                  *)
RejectBinding(r) ==
  /\ NoEvidence(r)
  /\ Acquires(r)
  /\ Release(r)
  /\ WriteOutcome(r, "Rejected")
  /\ UNCHANGED <<jobs, terminal, mutated, created, viewVars, managerVars>>

(* A Job of that name exists already.  The slot is kept either way. *)
FindJob(r) ==
  /\ NoEvidence(r)
  /\ SeenJob(r) # None
  /\ Acquire(r)
  /\ IF SeenJob(r) = "Foreign"
     THEN WriteOutcome(r, "Indeterminate")
     ELSE WriteStatus(r, [Seen(r) EXCEPT !.jobRef = "bound"])
  /\ UNCHANGED <<jobs, terminal, mutated, created, viewVars, managerVars>>

(* Mutant: the intent is kept in memory only. *)
PersistNothing(r) ==
  /\ NoEvidence(r)
  /\ SeenJob(r) = None
  /\ Acquire(r)
  /\ worker' = [step |-> "create", run |-> r]
  /\ UNCHANGED <<runs, jobs, terminal, mutated, created, viewVars, recon,
                 restarts>>

(* The execution intent is persisted before the Job is created. *)
PersistIntent(r) ==
  /\ NoEvidence(r)
  /\ SeenJob(r) = None
  /\ Acquires(r)
  /\ IF Fresh(r)
     THEN Acquire(r) /\ worker' = [step |-> "create", run |-> r]
     ELSE Release(r) /\ UNCHANGED worker
  /\ WriteStatus(r, [Seen(r) EXCEPT !.jobRef = "named"])
  /\ UNCHANGED <<jobs, terminal, mutated, created, viewVars, recon, restarts>>

-----------------------------------------------------------------------------
(* The requests that follow the persisted intent. *)

Creates(r) ==
  /\ jobs[r] = None
  /\ jobs' = [jobs EXCEPT ![r] = "Pending"]
  /\ created' = [created EXCEPT ![r] = @ + 1]

CreateJob(r) ==
  /\ worker = [step |-> "create", run |-> r]
  /\ Creates(r)
  /\ worker' = [step |-> "record", run |-> r]
  /\ UNCHANGED <<gateVars, runs, terminal, mutated, viewVars, recon, restarts>>

(* The request fails: the name is taken, or the API server refuses. *)
FailCreate(r) ==
  /\ worker = [step |-> "create", run |-> r]
  /\ Release(r)
  /\ worker' = Idle
  /\ UNCHANGED <<clusterVars, viewVars, recon, restarts>>

(* The Job is created, the answer does not arrive. *)
LoseCreate(r) ==
  /\ CreateLoss
  /\ worker = [step |-> "create", run |-> r]
  /\ Creates(r)
  /\ Release(r)
  /\ worker' = Idle
  /\ UNCHANGED <<runs, terminal, mutated, viewVars, recon, restarts>>

(* The UID of the Job is recorded, unless that update fails. *)
RecordJob(r) ==
  /\ worker = [step |-> "record", run |-> r]
  /\ runs' \in {runs, [runs EXCEPT ![r].jobRef = "bound"]}
  /\ worker' = Idle
  /\ UNCHANGED <<gateVars, jobs, terminal, mutated, created, viewVars, recon,
                 restarts>>

-----------------------------------------------------------------------------
(* Reconcile, once a JobRef is persisted. *)

Started(r) == Reconciles(r) /\ Seen(r).jobRef # "none"

(* Mutant: only a missing Job is noticed. *)
LoseMissingJob(r) ==
  /\ Started(r)
  /\ SeenJob(r) = None
  /\ WriteOutcome(r, "Indeterminate")
  /\ UNCHANGED <<gateVars, jobs, terminal, mutated, created, viewVars,
                 managerVars>>

(* The Job is gone, or is not the Job of the run.  The slot is not released. *)
LoseJob(r) ==
  /\ Started(r)
  /\ SeenJob(r) \in {None, "Foreign"}
  /\ WriteOutcome(r, "Indeterminate")
  /\ UNCHANGED <<gateVars, jobs, terminal, mutated, created, viewVars,
                 managerVars>>

(* Mutant: a running Job that does not get a slot is given up. *)
GiveUpWithoutSlot(r) ==
  /\ Started(r)
  /\ SeenJob(r) \in Running
  /\ ~Acquires(r)
  /\ WriteOutcome(r, "Indeterminate")
  /\ UNCHANGED <<gateVars, jobs, terminal, mutated, created, viewVars,
                 managerVars>>

WaitForReconstructedSlot(r) ==
  /\ Started(r)
  /\ SeenJob(r) \in Running
  /\ ~Acquires(r)
  /\ WriteOutcome(r, "Pending")
  /\ UNCHANGED <<gateVars, jobs, terminal, mutated, created, viewVars,
                 managerVars>>

ObserveJob(r) ==
  /\ Started(r)
  /\ SeenJob(r) \in Running
  /\ Acquire(r)
  /\ WriteOutcome(r, SeenJob(r))
  /\ UNCHANGED <<jobs, terminal, mutated, created, viewVars, managerVars>>

(* Mutant: the slot of a finished Job is kept. *)
CaptureAndHold(r) ==
  /\ Started(r)
  /\ SeenJob(r) \in Finished
  /\ \E outcome \in CapturedOutcomes(r) : WriteOutcome(r, outcome)
  /\ UNCHANGED <<gateVars, jobs, terminal, mutated, created, viewVars,
                 managerVars>>

(* The Job has finished: its evidence is captured, and its slot is released  *)
(* once the outcome is stored.                                               *)
CaptureResult(r) ==
  /\ Started(r)
  /\ SeenJob(r) \in Finished
  /\ \E outcome \in CapturedOutcomes(r) :
       /\ WriteOutcome(r, outcome)
       /\ IF Written(r, [Seen(r) EXCEPT !.outcome = outcome])
          THEN Release(r) ELSE UNCHANGED gateVars
  /\ UNCHANGED <<jobs, terminal, mutated, created, viewVars, managerVars>>

(* planAttemptStale: the attempt failed, or what it planned has expired,     *)
(* which happens with time.                                                  *)
StaleAttempt(status) ==
  status.outcome \in {"Failed", "Indeterminate", "Rejected", "Expired",
                      "Superseded", "ChangesPresent", "NoChange"}

(* The controller of stacks gives an attempt of a Plan up for a fresh one.   *)
Supersede(r) ==
  /\ r.Kind = "Plan"
  /\ StaleAttempt(Seen(r))
  /\ WriteOutcome(r, "Superseded")
  /\ UNCHANGED <<gateVars, jobs, terminal, mutated, created, viewVars,
                 managerVars>>

Rejects(r) == RejectProfile(r) \/ RejectBinding(r)

Executes(r) ==
  \/ AdoptEvidence(r) \/ WaitForSlot(r) \/ FindJob(r) \/ PersistIntent(r)
  \/ CreateJob(r) \/ FailCreate(r) \/ LoseCreate(r) \/ RecordJob(r)
  \/ LoseJob(r) \/ WaitForReconstructedSlot(r) \/ ObserveJob(r)
  \/ CaptureResult(r)

-----------------------------------------------------------------------------
(* The Job and the runner in it. *)

StartRunner(r) ==
  /\ jobs[r] = "Pending"
  /\ jobs' = [jobs EXCEPT ![r] = "Running"]
  /\ UNCHANGED <<gateVars, runs, terminal, mutated, created, viewVars,
                 managerVars>>

(* terraform apply begins. *)
Mutate(r) ==
  /\ jobs[r] = "Running" /\ r.Kind = "Apply" /\ terminal[r] = None
  /\ mutated' = mutated \cup {r}
  /\ UNCHANGED <<gateVars, runs, jobs, terminal, created, viewVars,
                 managerVars>>

(* The runner stores its result once and for all.  An Apply succeeds only    *)
(* after it has run terraform apply; every earlier failure is NotReady.      *)
StoreResult(r) ==
  /\ jobs[r] = "Running" /\ terminal[r] = None
  /\ \E result \in Results(r) :
       /\ result = "Succeeded" => r \in mutated
       /\ terminal' = [terminal EXCEPT ![r] = result]
  /\ UNCHANGED <<gateVars, runs, jobs, mutated, created, viewVars, managerVars>>

(* The runner exits 0 only with ready evidence stored.  A Job fails with its *)
(* runner, when it passes activeDeadlineSeconds, or when its Pod is lost.    *)
FinishJob(r) ==
  /\ jobs[r] \in Running
  /\ \E state \in Finished :
       /\ state = "Succeeded" =>
            jobs[r] = "Running" /\ terminal[r] \in ReadyResults(r)
       /\ jobs' = [jobs EXCEPT ![r] = state]
  /\ UNCHANGED <<gateVars, runs, terminal, mutated, created, viewVars,
                 managerVars>>

(* Someone deletes the Job, or takes its name. *)
DisturbJob(r) ==
  /\ \/ JobDeletion /\ jobs[r] # None /\ jobs' = [jobs EXCEPT ![r] = None]
     \/ r \in ForeignJobs /\ jobs[r] = None
          /\ jobs' = [jobs EXCEPT ![r] = "Foreign"]
  /\ UNCHANGED <<gateVars, runs, terminal, mutated, created, viewVars,
                 managerVars>>

-----------------------------------------------------------------------------
(* The caches and the process. *)

CacheRun(r) ==
  /\ StaleReads
  /\ runView' = [runView EXCEPT ![r] = runs[r]]
  /\ UNCHANGED <<gateVars, clusterVars, jobView, managerVars>>

CacheJob(r) ==
  /\ StaleReads
  /\ jobView' = [jobView EXCEPT ![r] = jobs[r]]
  /\ UNCHANGED <<gateVars, clusterVars, runView, managerVars>>

(* The manager stops at any point; the next one starts with synced caches    *)
(* and a closed gate.                                                        *)
StartManager ==
  /\ restarts < MaxRestarts
  /\ restarts' = restarts + 1
  /\ GateRestart
  /\ worker' = Idle
  /\ recon' = [phase |-> "unlisted", active |-> {}, unmatched |-> FALSE]
  /\ runView' = IF StaleReads THEN runs' ELSE runView
  /\ jobView' = IF StaleReads THEN jobs' ELSE jobView

Restart == UNCHANGED clusterVars /\ StartManager

(* The cluster comes back from a backup taken before some runs were started: *)
(* their statuses and Jobs are gone, the artifact store is not.              *)
RestoreBackup ==
  /\ StatusLoss
  /\ \E lost \in SUBSET Items :
       /\ runs' = [r \in Items |-> IF r \in lost THEN NewStatus ELSE runs[r]]
       /\ jobs' = [r \in Items |-> IF r \in lost THEN None ELSE jobs[r]]
  /\ UNCHANGED <<terminal, mutated, created>>
  /\ StartManager

(* Mutant: only Jobs whose Pod already runs are counted. *)
ListsRunning(r) == jobs[r] = "Running"

Lists(r) == jobs[r] \in Running

(* ReconstructActiveTerraformRuns: list, then hand over to the gate.  The    *)
(* reconciler is already running meanwhile.  A foreign Job counts when it    *)
(* carries the label of a run and has not finished.                          *)
ListActive ==
  /\ recon.phase = "unlisted"
  /\ \E unmatched \in {FALSE, \E r \in Items : jobs[r] = "Foreign"} :
       recon' = [phase     |-> "listed",
                 active    |-> {r \in Items : Lists(r)},
                 unmatched |-> unmatched]
  /\ UNCHANGED <<gateVars, clusterVars, viewVars, worker, restarts>>

FillGate ==
  /\ recon.phase = "listed"
  /\ Reconstruct(recon.active, recon.unmatched)
  /\ recon' = [phase |-> "done", active |-> {}, unmatched |-> FALSE]
  /\ UNCHANGED <<clusterVars, viewVars, worker, restarts>>

Runner(r) == StartRunner(r) \/ Mutate(r) \/ StoreResult(r) \/ FinishJob(r)

ExecNext ==
  \/ \E r \in Items :
       \/ Rejects(r) \/ Executes(r) \/ Supersede(r)
       \/ Runner(r) \/ DisturbJob(r)
       \/ CacheRun(r) \/ CacheJob(r)
  \/ Restart \/ RestoreBackup \/ ListActive \/ FillGate

ExecSpec == ExecInit /\ [][ExecNext]_execVars

(* A run is requeued until it has ended, a Job ends at the latest with its   *)
(* deadline, watches deliver what changed, and the reconstruction runs when  *)
(* the process leads.  Nothing makes a run be rejected, a runner succeed, a  *)
(* Job disappear or a process stop.                                          *)
Fairness ==
  /\ \A r \in Items : WF_execVars(Executes(r)) /\ WF_execVars(FinishJob(r))
  /\ \A r \in Items : WF_execVars(CacheRun(r)) /\ WF_execVars(CacheJob(r))
  /\ WF_execVars(ListActive) /\ WF_execVars(FillGate)

FairExecSpec == ExecSpec /\ Fairness

-----------------------------------------------------------------------------
(* Statuses, Jobs, evidence and the gate keep their types: an outcome fits   *)
(* the kind of its run, and the counters of the gate stay natural numbers    *)
(* also when runs release slots they do not hold.                            *)
ExecTypeOK ==
  /\ GateTypeOK
  /\ runs \in [Items -> RunStatus] /\ runView \in [Items -> RunStatus]
  /\ jobs \in [Items -> JobStates] /\ jobView \in [Items -> JobStates]
  /\ DOMAIN terminal = Items
  /\ \A r \in Items : terminal[r] \in Results(r) \cup {None}
  /\ worker \in {Idle} \cup [step : {"create", "record"}, run : Items]
  /\ recon \in [phase     : {"unlisted", "listed", "done"},
                active    : SUBSET Items,
                unmatched : BOOLEAN]
  /\ mutated \in SUBSET Items
  /\ created \in [Items -> Nat]
  /\ restarts \in 0..MaxRestarts

(* A run is executed at most once: whatever is lost, deleted, stale or       *)
(* interrupted, no second Job is ever created for a TerraformRun             *)
(* (the intent persisted before the Create request, Reconcile 170-177).      *)
AtMostOneJob == \A r \in Items : created[r] <= 1

(* A run is reported successful only on evidence that its runner stored, and *)
(* an Apply only after its runner did change the infrastructure.             *)
SuccessIsEvidenced ==
  \A r \in Items :
    runs[r].outcome \in {"Succeeded", "NoChange", "ChangesPresent"} =>
      /\ terminal[r] = runs[r].outcome
      /\ r.Kind = "Apply" => r \in mutated

(* A run whose runner started to change the infrastructure never ends as if  *)
(* nothing had happened: it succeeds or it is Indeterminate.                 *)
MutationNeverHidden ==
  \A r \in mutated :
    Ended(runs[r]) => runs[r].outcome \in {"Succeeded", "Indeterminate"}

(* Terminal outcomes stay, whatever is read late or stale, reappears or is   *)
(* written by two controllers: a Plan may be superseded, for good and with   *)
(* its JobRef, and an Apply keeps its outcome (TerraformRunReconciler        *)
(* 100-102, ensurePlanRun 189-197).                                          *)
Superseded(old, new) ==
  old.outcome # "Superseded" /\ new = [old EXCEPT !.outcome = "Superseded"]

OutcomesAreFinal ==
  [][\A r \in Items :
       Ended(runs[r]) =>
         \/ runs'[r] = runs[r]
         \/ r.Kind = "Plan" /\ Superseded(runs[r], runs'[r])]_execVars

(* The Jobs that run in the cluster, not the counters of the gate, respect   *)
(* the limits of the manager and the exclusion of Applies of one stack, also *)
(* across restarts.                                                          *)
ActiveWithinLimits ==
  LET active == {r \in Items : jobs[r] \in Running}
  IN  Pool!WithinLimits(active) /\ Pool!Exclusive(active)

(* A run is not given a terminal outcome while its own Job still runs.       *)
NoRunningJobIsAbandoned ==
  \A r \in Items : Ended(runs[r]) => jobs[r] \notin Running

(* A run whose result is in the artifact store is never executed again, even *)
(* when its status and its Job were lost (the read at Reconcile 120-133).    *)
EvidencePreventsRerun ==
  [][\A r \in Items : created'[r] # created[r] => terminal[r] = None]_execVars

(* Every run reaches a terminal outcome. *)
EveryRunEnds == <>(\A r \in Items : Ended(runs[r]))

(* A run that was started reaches a terminal outcome, whatever happens. *)
StartedRunsEnd ==
  \A r \in Items : (runs[r].jobRef # "none") ~> Ended(runs[r])
=============================================================================
