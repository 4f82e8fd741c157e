-------------------------- MODULE RunExecutionProofs --------------------------
(***************************************************************************)
(* Theorems about RunExecution, for any number of runs, any limits of the  *)
(* gate, any number of restarts and every combination of faults.           *)
(*                                                                         *)
(* The proofs rest on five invariants: ReconInv relates the progress of    *)
(* the reconstruction to the gate, EvidenceInv relates statuses to what    *)
(* the runners stored, HistoryInv relates both to the Jobs that were ever  *)
(* created (it needs that statuses are not lost), IntentInv relates the    *)
(* persisted intents to Jobs and evidence, and SlotInv relates the Jobs in *)
(* the cluster to the slots of the gate (it needs current reads and that   *)
(* no answer to a Create request is lost).                                 *)
(***************************************************************************)
EXTENDS RunExecution, ExecutionGateProofs

-----------------------------------------------------------------------------
(* Types *)

Outcomes == {"", "Pending", "Running"} \cup TerminalOutcomes

Evidence == {None, "NotReady", "Succeeded", "ChangesPresent", "NoChange"}

TypeInv ==
  /\ runs \in [Items -> RunStatus] /\ runView \in [Items -> RunStatus]
  /\ jobs \in [Items -> JobStates] /\ jobView \in [Items -> JobStates]
  /\ terminal \in [Items -> Evidence]
  /\ \A r \in Items : terminal[r] \in Results(r) \cup {None}
  /\ worker \in {Idle} \cup [step : {"create", "record"}, run : Items]
  /\ recon \in [phase     : {"unlisted", "listed", "done"},
                active    : SUBSET Items,
                unmatched : BOOLEAN]
  /\ mutated \in SUBSET Items
  /\ created \in [Items -> Nat]
  /\ restarts \in 0..MaxRestarts

-----------------------------------------------------------------------------
(* A reconciliation that ends with an outcome. *)

(* What a status update with the outcome o makes of the runs. *)
Writes(r, o) ==
  /\ runs' \in [Items -> RunStatus]
  /\ \A q \in Items \ {r} : runs'[q] = runs[q]
  /\ \/ runs'[r] = runs[r]
     \/ /\ Seen(r) = runs[r]
        /\ runs'[r].outcome = o
        /\ runs'[r].jobRef = runs[r].jobRef

(* The outcomes a reconciliation may give r. *)
Permitted(r, o) ==
  \/ o \in {"Pending", "Running"}
  \/ o = "Indeterminate" /\ SeenJob(r) \in {None, "Foreign"}
  \/ o = "Rejected" /\ Seen(r).jobRef = "none"
  \/ /\ o \in CapturedOutcomes(r)
     /\ Seen(r).jobRef = "none" \/ SeenJob(r) \in Finished

Judges(r) ==
  /\ Reconciles(r)
  /\ \E o \in Outcomes : Permitted(r, o) /\ Writes(r, o)
  /\ UNCHANGED <<jobs, terminal, mutated, created, viewVars, managerVars>>

(* What the reconciler reads has the types of what is stored. *)
LEMMA SeenTyped ==
  ASSUME TypeInv, NEW r \in Items
  PROVE  Seen(r) \in RunStatus /\ SeenJob(r) \in JobStates
BY DEF TypeInv, Seen, SeenJob

(* A status update changes the outcome of one run or nothing. *)
LEMMA WriteEffect ==
  ASSUME TypeInv, NEW r \in Items, NEW o \in Outcomes, WriteOutcome(r, o)
  PROVE  Writes(r, o)
<1> DEFINE new == [Seen(r) EXCEPT !.outcome = o]
<1>1. Seen(r) \in RunStatus
  BY SeenTyped
<1>2. new \in RunStatus /\ new.outcome = o /\ new.jobRef = Seen(r).jobRef
  BY <1>1 DEF RunStatus, Outcomes
<1>3. runs' = IF Fresh(r) THEN [runs EXCEPT ![r] = new] ELSE runs
  BY DEF WriteOutcome, WriteStatus
<1>4. CASE Fresh(r)
  BY <1>2, <1>3, <1>4 DEF Writes, Fresh, TypeInv
<1>5. CASE ~Fresh(r)
  BY <1>3, <1>5 DEF Writes, TypeInv
<1> QED
  BY <1>4, <1>5

(* Captured evidence gives an outcome. *)
LEMMA CapturedTyped ==
  ASSUME TypeInv, NEW r \in Items
  PROVE  CapturedOutcomes(r) \subseteq Outcomes
BY DEF TypeInv, CapturedOutcomes, OutcomeOfEvidence, OutcomeOfNothing,
       Results, ReadyResults, Outcomes, TerminalOutcomes, None

(* The outcomes of the paths of Reconcile that end with one. *)
LEMMA JudgingSteps ==
  ASSUME TypeInv, NEW r \in Items,
         \/ RejectProfile(r) \/ AdoptEvidence(r) \/ WaitForSlot(r)
         \/ RejectBinding(r) \/ LoseJob(r) \/ WaitForReconstructedSlot(r)
         \/ ObserveJob(r) \/ CaptureResult(r)
  PROVE  Judges(r)
<1>1. ASSUME NEW o \in Outcomes, Permitted(r, o), WriteOutcome(r, o),
             Reconciles(r),
             UNCHANGED <<jobs, terminal, mutated, created, viewVars,
                         managerVars>>
      PROVE  Judges(r)
  BY <1>1, WriteEffect DEF Judges
<1>2. {"Pending", "Running", "Indeterminate", "Rejected"} \subseteq Outcomes
  BY DEF Outcomes, TerminalOutcomes
<1>3. CASE RejectProfile(r) \/ RejectBinding(r)
  BY <1>1, <1>2, <1>3
     DEF RejectProfile, RejectBinding, NoEvidence, Unstarted, Permitted
<1>4. CASE AdoptEvidence(r)
  BY <1>1, <1>4, CapturedTyped DEF AdoptEvidence, Unstarted, Permitted
<1>5. CASE WaitForSlot(r) \/ WaitForReconstructedSlot(r) \/ LoseJob(r)
  BY <1>1, <1>2, <1>5
     DEF WaitForSlot, WaitForReconstructedSlot, LoseJob, NoEvidence, Unstarted,
         Started, Permitted
<1>6. CASE ObserveJob(r)
  BY <1>1, <1>2, <1>6 DEF ObserveJob, Started, Permitted, Running
<1>7. CASE CaptureResult(r)
  BY <1>1, <1>7, CapturedTyped DEF CaptureResult, Started, Permitted
<1> QED
  BY <1>3, <1>4, <1>5, <1>6, <1>7

(* Finding a Job of the run binds it, or judges a foreign one. *)
Binds(r) ==
  /\ Reconciles(r)
  /\ runs' \in [Items -> RunStatus]
  /\ \A q \in Items \ {r} : runs'[q] = runs[q]
  /\ runs'[r].outcome = runs[r].outcome
  /\ runs[r].jobRef # "none" => runs'[r].jobRef # "none"
  /\ runs'[r] # runs[r] => Seen(r) = runs[r]
  /\ UNCHANGED <<jobs, terminal, mutated, created, viewVars, managerVars>>

(* Finding a Job judges the run or binds it. *)
LEMMA FindJobEffect ==
  ASSUME TypeInv, NEW r \in Items, FindJob(r)
  PROVE  Judges(r) \/ Binds(r)
<1>1. CASE SeenJob(r) = "Foreign"
  <2>1. WriteOutcome(r, "Indeterminate") /\ "Indeterminate" \in Outcomes
    BY <1>1 DEF FindJob, Outcomes, TerminalOutcomes
  <2> QED
    BY <1>1, <2>1, WriteEffect
       DEF FindJob, NoEvidence, Unstarted, Judges, Permitted
<1>2. CASE SeenJob(r) # "Foreign"
  <2> DEFINE new == [Seen(r) EXCEPT !.jobRef = "bound"]
  <2>1. Seen(r) \in RunStatus
    BY SeenTyped
  <2>2. new \in RunStatus /\ new.outcome = Seen(r).outcome /\ new.jobRef # "none"
    BY <2>1 DEF RunStatus
  <2>3. runs' = IF Fresh(r) THEN [runs EXCEPT ![r] = new] ELSE runs
    BY <1>2 DEF FindJob, WriteStatus
  <2>4. CASE Fresh(r)
    BY <2>2, <2>3, <2>4 DEF FindJob, NoEvidence, Unstarted, Binds, Fresh, TypeInv
  <2>5. CASE ~Fresh(r)
    BY <2>3, <2>5 DEF FindJob, NoEvidence, Unstarted, Binds, TypeInv
  <2> QED
    BY <2>4, <2>5
<1> QED
  BY <1>1, <1>2

(* The intent is persisted from a fresh read, or nothing but the gate moves. *)
Intends(r) ==
  /\ runs' \in [Items -> RunStatus]
  /\ \A q \in Items \ {r} : runs'[q] = runs[q]
  /\ \/ /\ Reconciles(r) /\ Seen(r) = runs[r] /\ runs[r].jobRef = "none"
        /\ terminal[r] = None
        /\ runs'[r].outcome = runs[r].outcome /\ runs'[r].jobRef = "named"
        /\ worker' = [step |-> "create", run |-> r]
     \/ runs' = runs /\ worker' = worker
  /\ UNCHANGED <<jobs, terminal, mutated, created, viewVars, recon, restarts>>

(* Persisting the intent moves one run to its next stage. *)
LEMMA PersistIntentEffect ==
  ASSUME TypeInv, NEW r \in Items, PersistIntent(r)
  PROVE  Intends(r)
<1> DEFINE new == [Seen(r) EXCEPT !.jobRef = "named"]
<1>1. Seen(r) \in RunStatus
  BY SeenTyped
<1>2. new \in RunStatus /\ new.outcome = Seen(r).outcome /\ new.jobRef = "named"
  BY <1>1 DEF RunStatus
<1>3. runs' = IF Fresh(r) THEN [runs EXCEPT ![r] = new] ELSE runs
  BY DEF PersistIntent, WriteStatus
<1>4. CASE Fresh(r)
  <2>1. Seen(r) = runs[r] /\ worker' = [step |-> "create", run |-> r]
    BY <1>4 DEF PersistIntent, Fresh
  <2> QED
    BY <1>2, <1>3, <1>4, <2>1
       DEF PersistIntent, NoEvidence, Unstarted, Intends, TypeInv
<1>5. CASE ~Fresh(r)
  BY <1>3, <1>5 DEF PersistIntent, Intends, TypeInv
<1> QED
  BY <1>4, <1>5

(* Recording the UID of the Job leaves the outcome alone. *)
LEMMA RecordJobEffect ==
  ASSUME TypeInv, NEW r \in Items, RecordJob(r)
  PROVE  /\ runs' \in [Items -> RunStatus]
         /\ \A q \in Items : runs'[q].outcome = runs[q].outcome
         /\ \A q \in Items : runs[q].jobRef # "none" => runs'[q].jobRef # "none"
         /\ \A q \in Items : runs'[q] # runs[q] => q = r
<1>1. runs[r] \in RunStatus
  BY DEF TypeInv
<1>2. /\ [runs[r] EXCEPT !.jobRef = "bound"] \in RunStatus
      /\ [runs[r] EXCEPT !.jobRef = "bound"].outcome = runs[r].outcome
      /\ [runs[r] EXCEPT !.jobRef = "bound"].jobRef = "bound"
  BY <1>1 DEF RunStatus
<1>3. CASE runs' = runs
  BY <1>3 DEF TypeInv
<1>4. CASE runs' = [runs EXCEPT ![r].jobRef = "bound"]
  BY <1>2, <1>4 DEF TypeInv
<1> QED
  BY <1>3, <1>4 DEF RecordJob

(* The controller of stacks changes an ended Plan only, and only this way. *)
Retires(r) ==
  /\ r.Kind = "Plan"
  /\ runs' \in [Items -> RunStatus]
  /\ \A q \in Items \ {r} : runs'[q] = runs[q]
  /\ \/ runs'[r] = runs[r]
     \/ Ended(runs[r]) /\ Superseded(runs[r], runs'[r])
  /\ UNCHANGED <<jobs, terminal, mutated, created, viewVars, managerVars>>

(* A superseded attempt has ended, and keeps its JobRef. *)
LEMMA SupersededMeans ==
  ASSUME NEW old \in RunStatus, NEW new, Superseded(old, new)
  PROVE  /\ new \in RunStatus /\ Ended(new)
         /\ new.outcome = "Superseded" /\ new.jobRef = old.jobRef
BY DEF Superseded, RunStatus, Ended, TerminalOutcomes

(* To supersede an attempt is to retire it, whatever the caches show. *)
LEMMA SupersedeEffect ==
  ASSUME TypeInv, NEW r \in Items, Supersede(r)
  PROVE  Retires(r)
<1> DEFINE new == [Seen(r) EXCEPT !.outcome = "Superseded"]
<1>1. runs[r] \in RunStatus
  BY DEF TypeInv
<1>2. runs' = IF Fresh(r) THEN [runs EXCEPT ![r] = new] ELSE runs
  BY DEF Supersede, WriteOutcome, WriteStatus
<1>3. CASE Fresh(r)
  <2>1. Ended(runs[r]) /\ new = [runs[r] EXCEPT !.outcome = "Superseded"]
    BY <1>3 DEF Supersede, StaleAttempt, Fresh, Ended, TerminalOutcomes
  <2>2. CASE runs[r].outcome = "Superseded"
    <3>1. new = runs[r]
      BY <1>1, <2>1, <2>2 DEF RunStatus
    <3>2. runs' = runs
      BY <1>2, <1>3, <3>1 DEF TypeInv
    <3> QED
      BY <3>2 DEF Supersede, Retires, TypeInv
  <2>3. CASE runs[r].outcome # "Superseded"
    <3>1. Superseded(runs[r], new)
      BY <2>1, <2>3 DEF Superseded
    <3>2. new \in RunStatus
      BY <1>1, <3>1, SupersededMeans
    <3>3. /\ runs' \in [Items -> RunStatus] /\ runs'[r] = new
          /\ \A q \in Items \ {r} : runs'[q] = runs[q]
      BY <1>2, <1>3, <3>2 DEF TypeInv
    <3> QED
      BY <2>1, <3>1, <3>3 DEF Supersede, Retires
  <2> QED
    BY <2>2, <2>3
<1>4. CASE ~Fresh(r)
  BY <1>2, <1>4 DEF Supersede, Retires, TypeInv
<1> QED
  BY <1>3, <1>4

(* What retiring an attempt leaves of its status. *)
LEMMA RetiresMeans ==
  ASSUME TypeInv, NEW r \in Items, Retires(r), NEW q \in Items
  PROVE  /\ runs'[q].jobRef = runs[q].jobRef
         /\ \/ runs'[q] = runs[q]
            \/ /\ q = r /\ r.Kind = "Plan"
               /\ Ended(runs[r]) /\ Ended(runs'[r])
               /\ runs'[r].outcome = "Superseded"
BY SupersededMeans DEF Retires, TypeInv

-----------------------------------------------------------------------------
(* Type correctness *)

(* The steps that proofs distinguish. *)
RunStep(r) ==
  \/ Judges(r) \/ Binds(r) \/ Intends(r) \/ Retires(r)
  \/ CreateJob(r) \/ FailCreate(r) \/ LoseCreate(r) \/ RecordJob(r)
  \/ StartRunner(r) \/ Mutate(r) \/ StoreResult(r) \/ FinishJob(r)
  \/ DisturbJob(r) \/ CacheRun(r) \/ CacheJob(r)

ManagerStep == Restart \/ RestoreBackup \/ ListActive \/ FillGate

(* Every step is of one of the kinds above. *)
LEMMA StepKinds ==
  ASSUME TypeInv, [ExecNext]_execVars
  PROVE  (\E r \in Items : RunStep(r)) \/ ManagerStep \/ UNCHANGED execVars
<1>1. ASSUME NEW r \in Items,
             Rejects(r) \/ Executes(r) \/ Supersede(r) \/ Runner(r)
               \/ DisturbJob(r) \/ CacheRun(r) \/ CacheJob(r)
      PROVE  RunStep(r)
  <2>1. CASE Rejects(r)
    BY <2>1, JudgingSteps DEF Rejects, RunStep
  <2>2. CASE Executes(r)
    BY <2>2, JudgingSteps, FindJobEffect, PersistIntentEffect
       DEF Executes, RunStep
  <2>3. CASE Runner(r) \/ DisturbJob(r) \/ CacheRun(r) \/ CacheJob(r)
    BY <2>3 DEF Runner, RunStep
  <2>4. CASE Supersede(r)
    BY <2>4, SupersedeEffect DEF RunStep
  <2> QED
    BY <1>1, <2>1, <2>2, <2>3, <2>4
<1> QED
  BY <1>1 DEF ExecNext, ManagerStep

(* The types hold at the start. *)
LEMMA ExecInitTypes == ExecInit => TypeInv
<1> SUFFICES ASSUME ExecInit PROVE TypeInv
  OBVIOUS
<1>1. NewStatus \in RunStatus
  BY DEF NewStatus, RunStatus
<1>2. runs \in [Items -> RunStatus] /\ runView \in [Items -> RunStatus]
  BY <1>1 DEF ExecInit
<1>3. jobs \in [Items -> JobStates] /\ jobView \in [Items -> JobStates]
  BY DEF ExecInit, JobStates
<1>4. /\ terminal \in [Items -> Evidence]
      /\ \A r \in Items : terminal[r] \in Results(r) \cup {None}
  BY DEF ExecInit, Evidence
<1>5. restarts \in 0..MaxRestarts
  BY FaultsAssumption DEF ExecInit
<1> QED
  BY <1>2, <1>3, <1>4, <1>5 DEF ExecInit, TypeInv

(* A restart keeps what it does not read from the cluster. *)
LEMMA StartTypes ==
  ASSUME TypeInv, StartManager, runs' \in [Items -> RunStatus],
         jobs' \in [Items -> JobStates],
         UNCHANGED <<terminal, mutated, created>>
  PROVE  TypeInv'
<1>1. restarts' \in 0..MaxRestarts
  BY FaultsAssumption DEF StartManager, TypeInv
<1>2. runView' \in [Items -> RunStatus] /\ jobView' \in [Items -> JobStates]
  BY DEF StartManager, TypeInv
<1> QED
  BY <1>1, <1>2 DEF StartManager, TypeInv

(* Steps about one run keep the types. *)
LEMMA RunStepTypes ==
  ASSUME TypeInv, NEW r \in Items, RunStep(r)
  PROVE  TypeInv'
<1>1. CASE Judges(r)
  BY <1>1 DEF Judges, Writes, TypeInv, viewVars, managerVars
<1>2. CASE Binds(r)
  BY <1>2 DEF Binds, TypeInv, viewVars, managerVars
<1>3. CASE Intends(r)
  BY <1>3 DEF Intends, TypeInv, viewVars
<1>4. CASE CreateJob(r) \/ LoseCreate(r)
  <2>1. jobs' \in [Items -> JobStates] /\ created' \in [Items -> Nat]
    BY <1>4 DEF CreateJob, LoseCreate, Creates, TypeInv, JobStates, Running
  <2>2. worker' \in {Idle} \cup [step : {"create", "record"}, run : Items]
    BY <1>4 DEF CreateJob, LoseCreate
  <2> QED
    BY <1>4, <2>1, <2>2 DEF CreateJob, LoseCreate, TypeInv, viewVars
<1>5. CASE FailCreate(r)
  BY <1>5 DEF FailCreate, clusterVars, viewVars, TypeInv
<1>6. CASE RecordJob(r)
  BY <1>6, RecordJobEffect DEF RecordJob, viewVars, TypeInv
<1>7. CASE StartRunner(r)
  BY <1>7 DEF StartRunner, viewVars, managerVars, TypeInv, JobStates, Running
<1>8. CASE Mutate(r)
  BY <1>8 DEF Mutate, viewVars, managerVars, TypeInv
<1>9. CASE StoreResult(r)
  <2>1. \A q \in Items : terminal'[q] \in Results(q) \cup {None}
    BY <1>9 DEF StoreResult, TypeInv
  <2>2. terminal' \in [Items -> Evidence]
    <3>1. Results(r) \subseteq Evidence
      BY DEF Results, ReadyResults, Evidence
    <3> QED
      BY <1>9, <3>1 DEF StoreResult, TypeInv
  <2> QED
    BY <1>9, <2>1, <2>2 DEF StoreResult, viewVars, managerVars, TypeInv
<1>10. CASE FinishJob(r)
  BY <1>10 DEF FinishJob, viewVars, managerVars, TypeInv, JobStates, Finished
<1>11. CASE DisturbJob(r)
  BY <1>11 DEF DisturbJob, viewVars, managerVars, TypeInv, JobStates
<1>12. CASE CacheRun(r) \/ CacheJob(r)
  BY <1>12 DEF CacheRun, CacheJob, clusterVars, managerVars, TypeInv
<1>13. CASE Retires(r)
  BY <1>13 DEF Retires, TypeInv, viewVars, managerVars
<1> QED
  BY <1>1, <1>2, <1>3, <1>4, <1>5, <1>6, <1>7, <1>8, <1>9, <1>10, <1>11, <1>12,
     <1>13 DEF RunStep

(* All steps keep the types. *)
LEMMA StepTypes == TypeInv /\ [ExecNext]_execVars => TypeInv'
<1> SUFFICES ASSUME TypeInv, [ExecNext]_execVars PROVE TypeInv'
  OBVIOUS
<1>1. CASE Restart
  BY <1>1, StartTypes DEF Restart, clusterVars, TypeInv
<1>2. CASE RestoreBackup
  <2>1. NewStatus \in RunStatus /\ None \in JobStates
    BY DEF NewStatus, RunStatus, JobStates
  <2>2. runs' \in [Items -> RunStatus] /\ jobs' \in [Items -> JobStates]
    BY <1>2, <2>1 DEF RestoreBackup, TypeInv
  <2> QED
    BY <1>2, <2>2, StartTypes DEF RestoreBackup
<1>3. CASE ListActive
  <2> DEFINE foreign == \E q \in Items : jobs[q] = "Foreign"
             listed == {q \in Items : Lists(q)}
  <2>1. PICK unmatched \in {FALSE, foreign} :
          recon' = [phase |-> "listed", active |-> listed,
                    unmatched |-> unmatched]
    BY <1>3 DEF ListActive
  <2>2. unmatched \in BOOLEAN
    <3> HIDE DEF listed
    <3> QED
      BY <2>1
  <2>3. listed \in SUBSET Items
    OBVIOUS
  <2>4. recon' \in [phase     : {"unlisted", "listed", "done"},
                    active    : SUBSET Items,
                    unmatched : BOOLEAN]
    <3> HIDE DEF listed, foreign
    <3> QED
      BY <2>1, <2>2, <2>3
  <2> QED
    BY <1>3, <2>4 DEF ListActive, clusterVars, viewVars, TypeInv
<1>4. CASE FillGate
  BY <1>4 DEF FillGate, clusterVars, viewVars, TypeInv
<1>5. CASE UNCHANGED execVars
  BY <1>5 DEF execVars, clusterVars, viewVars, managerVars, TypeInv
<1> QED
  BY <1>1, <1>2, <1>3, <1>4, <1>5, StepKinds, RunStepTypes DEF ManagerStep

-----------------------------------------------------------------------------
(* The gate inside the manager *)

(* Until the reconstruction has filled the gate, it stays closed. *)
ReconInv == recon.phase # "done" => ~gateReady

(* What a step of the system is for the gate. *)
LEMMA GateEffect ==
  ASSUME [ExecNext]_execVars
  PROVE  \/ recon' = recon /\ UNCHANGED gateVars
         \/ /\ recon' = recon
            /\ \E r \in Items : Acquire(r) \/ Release(r)
         \/ ListActive
         \/ FillGate
         \/ GateRestart
<1>1. ASSUME NEW r \in Items, Rejects(r) \/ Executes(r)
      PROVE  /\ recon' = recon
             /\ UNCHANGED gateVars \/ Acquire(r) \/ Release(r)
  BY <1>1
     DEF Rejects, RejectProfile, RejectBinding, Executes, AdoptEvidence,
         WaitForSlot, FindJob, PersistIntent, CreateJob, FailCreate,
         LoseCreate, RecordJob, LoseJob, WaitForReconstructedSlot, ObserveJob,
         CaptureResult, managerVars
<1>2. ASSUME NEW r \in Items,
             \/ Supersede(r) \/ Runner(r) \/ DisturbJob(r)
             \/ CacheRun(r) \/ CacheJob(r)
      PROVE  recon' = recon /\ UNCHANGED gateVars
  BY <1>2 DEF Supersede, Runner, StartRunner, Mutate, StoreResult, FinishJob,
              DisturbJob, CacheRun, CacheJob, managerVars
<1>3. CASE Restart \/ RestoreBackup
  BY <1>3 DEF Restart, RestoreBackup, StartManager
<1>4. CASE UNCHANGED execVars
  BY <1>4 DEF execVars, managerVars
<1> QED
  BY <1>1, <1>2, <1>3, <1>4 DEF ExecNext

(* Acquire and Release do not open the gate. *)
LEMMA CallsKeepReady ==
  ASSUME NEW r \in Items, Acquire(r) \/ Release(r)
  PROVE  gateReady' = gateReady
BY DEF Acquire, Reserve, Release, gateVars

(* The gate stays closed until the reconstruction has filled it. *)
LEMMA ReconStep == ReconInv /\ [ExecNext]_execVars => ReconInv'
<1> SUFFICES ASSUME ReconInv, [ExecNext]_execVars PROVE ReconInv'
  OBVIOUS
<1>1. CASE recon' = recon /\ UNCHANGED gateVars
  BY <1>1 DEF ReconInv, gateVars
<1>2. CASE recon' = recon /\ \E r \in Items : Acquire(r) \/ Release(r)
  BY <1>2, CallsKeepReady DEF ReconInv
<1>3. CASE ListActive
  BY <1>3 DEF ListActive, ReconInv, gateVars
<1>4. CASE FillGate
  BY <1>4 DEF FillGate, ReconInv
<1>5. CASE GateRestart
  BY <1>5 DEF GateRestart, ReconInv
<1> QED
  BY <1>1, <1>2, <1>3, <1>4, <1>5, GateEffect

(* Every step of the system is a step of the gate alone or none. *)
LEMMA GateStep ==
  TypeInv /\ ReconInv /\ [ExecNext]_execVars => [GateNext]_gateVars
<1> SUFFICES ASSUME TypeInv, ReconInv, [ExecNext]_execVars
             PROVE  [GateNext]_gateVars
  OBVIOUS
<1>1. CASE FillGate
  <2>1. /\ ~gateReady
        /\ recon.active \in SUBSET Items /\ recon.unmatched \in BOOLEAN
    BY <1>1 DEF FillGate, ReconInv, TypeInv
  <2>2. UniqueIDs(recon.active)
    BY <2>1, RunsAssumption DEF UniqueIDs
  <2> QED
    BY <1>1, <2>1, <2>2 DEF FillGate, GateNext
<1>2. CASE ListActive
  BY <1>2 DEF ListActive
<1> QED
  BY <1>1, <1>2, GateEffect DEF GateNext

(* Every call the reconciler and the reconstruction make of the gate, in     *)
(* every interleaving and with every fault, is one the gate alone allows: in *)
(* particular the gate is reconstructed once per process, before it opens.   *)
THEOREM ManagerUsesGate == ExecSpec => GateSpec
<1>1. ExecInit => GateInit /\ ReconInv
  BY DEF ExecInit, GateInit, ReconInv
<1> QED
  BY <1>1, ExecInitTypes, StepTypes, ReconStep, GateStep, PTL
     DEF ExecSpec, GateSpec

(* The state of the whole system keeps its types. *)
THEOREM ExecTypeCorrect == ExecSpec => []ExecTypeOK
<1>1. TypeInv /\ GateTypeOK => ExecTypeOK
  BY DEF TypeInv, ExecTypeOK
<1> QED
  BY <1>1, ExecInitTypes, StepTypes, ManagerUsesGate, GateTypeCorrect, PTL
     DEF ExecSpec

-----------------------------------------------------------------------------
(* Evidence *)

(* Ready evidence never changes and was earned; statuses only repeat it. *)
EvidenceInv ==
  \A r \in Items :
    /\ r.Kind = "Apply" /\ terminal[r] = "Succeeded" => r \in mutated
    /\ runs[r].outcome \in {"Succeeded", "NoChange", "ChangesPresent"} =>
         terminal[r] = runs[r].outcome

(* Steps that change neither the cluster nor what the worker is about to do, *)
(* except that the worker may forget it.                                     *)
Quiet == UNCHANGED clusterVars /\ worker' \in {worker, Idle}

(* The steps that only move what the manager remembers. *)
LEMMA QuietSteps ==
  ASSUME \/ Restart \/ ListActive \/ FillGate \/ UNCHANGED execVars
         \/ \E r \in Items : FailCreate(r) \/ CacheRun(r) \/ CacheJob(r)
  PROVE  Quiet
BY DEF Quiet, Restart, StartManager, ListActive, FillGate, FailCreate,
       CacheRun, CacheJob, execVars, managerVars

(* Nothing but the evidence itself makes an outcome a success. *)
LEMMA SuccessNeedsEvidence ==
  ASSUME TypeInv, NEW r \in Items, NEW o \in Outcomes, Permitted(r, o),
         o \in {"Succeeded", "NoChange", "ChangesPresent"}
  PROVE  terminal[r] = o
BY DEF TypeInv, Permitted, CapturedOutcomes, OutcomeOfEvidence,
       OutcomeOfNothing, Results, ReadyResults

(* Steps about one run keep what statuses say of the evidence. *)
LEMMA RunStepEvidence ==
  ASSUME TypeInv, EvidenceInv, NEW r \in Items, RunStep(r)
  PROVE  EvidenceInv'
<1>1. CASE Judges(r)
  <2>1. PICK o \in Outcomes : Permitted(r, o) /\ Writes(r, o)
    BY <1>1 DEF Judges
  <2> QED
    BY <1>1, <2>1, SuccessNeedsEvidence DEF Judges, Writes, EvidenceInv
<1>2. CASE Binds(r) \/ Intends(r)
  <2>1. \A q \in Items : runs'[q].outcome = runs[q].outcome
    BY <1>2 DEF Binds, Intends
  <2> QED
    BY <1>2, <2>1 DEF Binds, Intends, EvidenceInv
<1>3. CASE CreateJob(r) \/ LoseCreate(r)
  BY <1>3 DEF CreateJob, LoseCreate, EvidenceInv
<1>4. CASE RecordJob(r)
  BY <1>4, RecordJobEffect DEF RecordJob, EvidenceInv
<1>5. CASE StartRunner(r) \/ FinishJob(r) \/ DisturbJob(r)
  BY <1>5 DEF StartRunner, FinishJob, DisturbJob, EvidenceInv
<1>6. CASE Mutate(r)
  BY <1>6 DEF Mutate, EvidenceInv
<1>7. CASE StoreResult(r)
  <2>1. terminal[r] = None
    BY <1>7 DEF StoreResult
  <2>2. runs[r].outcome \notin {"Succeeded", "NoChange", "ChangesPresent"}
    BY <2>1 DEF EvidenceInv, None
  <2> QED
    BY <1>7, <2>2 DEF StoreResult, EvidenceInv, TypeInv
<1>8. CASE FailCreate(r) \/ CacheRun(r) \/ CacheJob(r)
  BY <1>8, QuietSteps DEF Quiet, clusterVars, EvidenceInv
<1>9. CASE Retires(r)
  BY <1>9, RetiresMeans DEF Retires, EvidenceInv
<1> QED
  BY <1>1, <1>2, <1>3, <1>4, <1>5, <1>6, <1>7, <1>8, <1>9 DEF RunStep

(* So do all steps. *)
LEMMA EvidenceStep ==
  TypeInv /\ EvidenceInv /\ [ExecNext]_execVars => EvidenceInv'
<1> SUFFICES ASSUME TypeInv, EvidenceInv, [ExecNext]_execVars
             PROVE  EvidenceInv'
  OBVIOUS
<1>1. CASE Restart \/ ListActive \/ FillGate \/ UNCHANGED execVars
  BY <1>1, QuietSteps DEF Quiet, clusterVars, EvidenceInv
<1>2. CASE RestoreBackup
  <2>1. NewStatus.outcome = ""
    BY DEF NewStatus
  <2> QED
    BY <1>2, <2>1 DEF RestoreBackup, EvidenceInv
<1> QED
  BY <1>1, <1>2, StepKinds, RunStepEvidence DEF ManagerStep

(* A run is reported successful only on evidence that its runner stored, and *)
(* an Apply only after its runner did change the infrastructure: also when   *)
(* statuses are lost, caches lag and the store fails (captureTerminalResult, *)
(* applyTerminalResult).                                                     *)
THEOREM SuccessEvidenced == ExecSpec => []SuccessIsEvidenced
<1>1. ExecInit => EvidenceInv
  <2> SUFFICES ASSUME ExecInit PROVE EvidenceInv
    OBVIOUS
  <2>1. \A r \in Items : runs[r].outcome = "" /\ terminal[r] = "None"
    BY DEF ExecInit, NewStatus, None
  <2> QED
    BY <2>1 DEF EvidenceInv
<1>2. EvidenceInv /\ TypeInv => SuccessIsEvidenced
  <2> SUFFICES ASSUME EvidenceInv, TypeInv, NEW r \in Items,
                      runs[r].outcome \in
                        {"Succeeded", "NoChange", "ChangesPresent"}
               PROVE  /\ terminal[r] = runs[r].outcome
                      /\ r.Kind = "Apply" => r \in mutated
    BY DEF SuccessIsEvidenced
  <2>1. terminal[r] = runs[r].outcome
    BY DEF EvidenceInv
  <2>2. ASSUME r.Kind = "Apply" PROVE r \in mutated
    <3>1. Results(r) = {"Succeeded", "NotReady"}
      BY <2>2 DEF Results, ReadyResults
    <3>2. terminal[r] \in {"Succeeded", "NotReady", "None"}
      BY <3>1 DEF TypeInv, None
    <3> QED
      BY <2>1, <2>2, <3>2 DEF EvidenceInv
  <2> QED
    BY <2>1, <2>2
<1> QED
  BY <1>1, <1>2, ExecInitTypes, StepTypes, EvidenceStep, PTL DEF ExecSpec

-----------------------------------------------------------------------------
(* One Job per run *)

AboutTo(step, r) == worker = [step |-> step, run |-> r]

(* While statuses are not lost, a Job stands behind a JobRef that stays, and *)
(* a run that ended as if nothing had happened never had a Job.              *)
HistoryOf(r) ==
  /\ created[r] \in {0, 1}
  /\ created[r] = 1 => runs[r].jobRef # "none"
  /\ AboutTo("create", r) => created[r] = 0
  /\ AboutTo("create", r) \/ AboutTo("record", r) =>
       runs[r].jobRef # "none" /\ ~Ended(runs[r])
  /\ jobs[r] \in Running => created[r] = 1
  /\ r \in mutated => created[r] = 1 /\ r.Kind = "Apply"
  /\ /\ r.Kind = "Apply" /\ Ended(runs[r])
     /\ runs[r].outcome \notin {"Succeeded", "Indeterminate"}
     => created[r] = 0

HistoryInv == \A r \in Items : HistoryOf(r)

(* An Apply that ends otherwise than Succeeded or Indeterminate is Rejected, *)
(* and that only before it has a JobRef.                                     *)
LEMMA ApplyOutcomes ==
  ASSUME TypeInv, NEW r \in Items, NEW o \in Outcomes, Permitted(r, o),
         r.Kind = "Apply", o \in TerminalOutcomes \ {"Succeeded", "Indeterminate"}
  PROVE  Seen(r).jobRef = "none"
BY DEF TypeInv, Permitted, CapturedOutcomes, OutcomeOfEvidence,
       OutcomeOfNothing, Results, ReadyResults, TerminalOutcomes, None

(* An idle worker is not about to create or to record anything. *)
LEMMA IdleMeans ==
  ASSUME NEW r
  PROVE  /\ Idle # [step |-> "create", run |-> r]
         /\ Idle # [step |-> "record", run |-> r]
<1>1. Idle.step = "idle"
  BY DEF Idle
<1>2. /\ [step |-> "create", run |-> r].step = "create"
      /\ [step |-> "record", run |-> r].step = "record"
  OBVIOUS
<1> QED
  BY <1>1, <1>2

(* Steps about one run keep what is known of created Jobs. *)
LEMMA RunStepHistory ==
  ASSUME TypeInv, HistoryInv, NEW r \in Items, RunStep(r)
  PROVE  HistoryInv'
<1> SUFFICES ASSUME NEW q \in Items PROVE HistoryOf(q)'
  BY DEF HistoryInv
<1>0. HistoryOf(q) /\ HistoryOf(r)
  BY DEF HistoryInv
<1>1. CASE Judges(r)
  <2>1. PICK o \in Outcomes : Permitted(r, o) /\ Writes(r, o)
    BY <1>1 DEF Judges
  <2>2. worker' = Idle
    BY <1>1 DEF Judges, Reconciles, managerVars
  <2>3. ~AboutTo("create", q)' /\ ~AboutTo("record", q)'
    BY <2>2, IdleMeans DEF AboutTo
  <2>4. CASE runs'[q] = runs[q]
    BY <1>0, <1>1, <2>3, <2>4 DEF Judges, HistoryOf, Ended
  <2>5. CASE runs'[q] # runs[q]
    <3>1. /\ q = r /\ Seen(r) = runs[r]
          /\ runs'[r].outcome = o /\ runs'[r].jobRef = runs[r].jobRef
      BY <2>1, <2>5 DEF Writes
    <3>2. ASSUME r.Kind = "Apply",
                 o \in TerminalOutcomes \ {"Succeeded", "Indeterminate"}
          PROVE  created[r] = 0
      <4>1. runs[r].jobRef = "none"
        BY <2>1, <3>1, <3>2, ApplyOutcomes
      <4> QED
        BY <1>0, <4>1 DEF HistoryOf
    <3> QED
      BY <1>0, <1>1, <2>3, <3>1, <3>2 DEF Judges, HistoryOf, Ended
  <2> QED
    BY <2>4, <2>5
<1>2. CASE Binds(r)
  <2>1. worker' = Idle
    BY <1>2 DEF Binds, Reconciles, managerVars
  <2>2. ~AboutTo("create", q)' /\ ~AboutTo("record", q)'
    BY <2>1, IdleMeans DEF AboutTo
  <2>3. /\ runs'[q].outcome = runs[q].outcome
        /\ runs[q].jobRef # "none" => runs'[q].jobRef # "none"
    BY <1>2 DEF Binds
  <2> QED
    BY <1>0, <1>2, <2>2, <2>3 DEF Binds, HistoryOf, Ended
<1>3. CASE Intends(r)
  <2>1. CASE runs' = runs /\ worker' = worker
    BY <1>0, <1>3, <2>1 DEF Intends, HistoryOf, Ended, AboutTo
  <2>2. CASE ~(runs' = runs /\ worker' = worker)
    <3>1. /\ Reconciles(r) /\ Seen(r) = runs[r] /\ runs[r].jobRef = "none"
          /\ runs'[r].outcome = runs[r].outcome /\ runs'[r].jobRef = "named"
          /\ worker' = [step |-> "create", run |-> r]
      BY <1>3, <2>2 DEF Intends
    <3>2. ~AboutTo("record", q)' /\ (AboutTo("create", q)' => q = r)
      BY <3>1 DEF AboutTo
    <3>3. created[r] = 0 /\ ~Ended(runs[r])
      BY <1>0, <3>1 DEF HistoryOf, Reconciles
    <3>4. CASE q = r
      BY <1>0, <1>3, <3>1, <3>2, <3>3, <3>4 DEF Intends, HistoryOf, Ended
    <3>5. CASE q # r
      BY <1>0, <1>3, <3>2, <3>5 DEF Intends, HistoryOf, Ended
    <3> QED
      BY <3>4, <3>5
  <2> QED
    BY <2>1, <2>2
<1>4. CASE CreateJob(r) \/ LoseCreate(r)
  <2>1. /\ AboutTo("create", r) /\ UNCHANGED <<runs, mutated>>
        /\ jobs' = [jobs EXCEPT ![r] = "Pending"]
        /\ created' = [created EXCEPT ![r] = @ + 1]
        /\ worker' \in {Idle, [step |-> "record", run |-> r]}
    BY <1>4 DEF CreateJob, LoseCreate, Creates, AboutTo
  <2>2. /\ created[r] = 0 /\ runs[r].jobRef # "none" /\ ~Ended(runs[r])
    BY <1>0, <2>1 DEF HistoryOf
  <2>3. ~AboutTo("create", q)' /\ (AboutTo("record", q)' => q = r)
    BY <2>1 DEF AboutTo, Idle
  <2>4. CASE q = r
    <3>1. created'[r] = 1
      BY <2>1, <2>2 DEF TypeInv
    <3> QED
      BY <1>0, <2>1, <2>2, <2>3, <2>4, <3>1 DEF HistoryOf, Ended
  <2>5. CASE q # r
    <3>1. created'[q] = created[q] /\ jobs'[q] = jobs[q]
      BY <2>1, <2>5 DEF TypeInv
    <3> QED
      BY <1>0, <2>1, <2>3, <2>5, <3>1 DEF HistoryOf, Ended
  <2> QED
    BY <2>4, <2>5
<1>5. CASE RecordJob(r)
  <2>1. worker' = Idle
    BY <1>5 DEF RecordJob
  <2>2. ~AboutTo("create", q)' /\ ~AboutTo("record", q)'
    BY <2>1, IdleMeans DEF AboutTo
  <2>3. /\ runs'[q].outcome = runs[q].outcome
        /\ runs[q].jobRef # "none" => runs'[q].jobRef # "none"
    BY <1>5, RecordJobEffect
  <2> QED
    BY <1>0, <1>5, <2>2, <2>3 DEF RecordJob, HistoryOf, Ended
<1>6. CASE StartRunner(r) \/ FinishJob(r) \/ DisturbJob(r)
  <2>1. /\ UNCHANGED <<runs, mutated, created, worker>>
        /\ jobs'[q] \in Running => jobs[q] \in Running
    BY <1>6
       DEF StartRunner, FinishJob, DisturbJob, managerVars, TypeInv, Running,
           Finished, None
  <2> QED
    BY <1>0, <2>1 DEF HistoryOf, Ended, AboutTo
<1>7. CASE Mutate(r)
  BY <1>0, <1>7 DEF Mutate, HistoryOf, Ended, AboutTo, managerVars, Running
<1>8. CASE StoreResult(r)
  BY <1>0, <1>8 DEF StoreResult, HistoryOf, Ended, AboutTo, managerVars
<1>9. CASE FailCreate(r) \/ CacheRun(r) \/ CacheJob(r)
  <2>1. Quiet
    BY <1>9, QuietSteps
  <2>2. /\ AboutTo("create", q)' => AboutTo("create", q)
        /\ AboutTo("record", q)' => AboutTo("record", q)
    BY <2>1 DEF Quiet, AboutTo, Idle
  <2> QED
    BY <1>0, <2>1, <2>2 DEF Quiet, clusterVars, HistoryOf, Ended
<1>10. CASE Retires(r)
  <2>1. UNCHANGED <<jobs, mutated, created, worker>>
    BY <1>10 DEF Retires, managerVars
  <2>2. CASE runs'[q] = runs[q]
    BY <1>0, <2>1, <2>2 DEF HistoryOf, Ended, AboutTo
  <2>3. CASE runs'[q] # runs[q]
    <3>1. /\ q.Kind = "Plan" /\ Ended(runs[q])
          /\ runs'[q].jobRef = runs[q].jobRef
      BY <1>10, <2>3, RetiresMeans
    <3>2. ~AboutTo("create", q)' /\ ~AboutTo("record", q)'
      BY <1>0, <2>1, <3>1 DEF HistoryOf, AboutTo
    <3>3. q.Kind # "Apply"
      BY <3>1
    <3> QED
      BY <1>0, <2>1, <3>1, <3>2, <3>3 DEF HistoryOf
  <2> QED
    BY <2>2, <2>3
<1> QED
  BY <1>1, <1>2, <1>3, <1>4, <1>5, <1>6, <1>7, <1>8, <1>9, <1>10 DEF RunStep

(* Nothing was created at the start. *)
LEMMA HistoryInit == ExecInit => HistoryInv
<1> SUFFICES ASSUME ExecInit, NEW r \in Items PROVE HistoryOf(r)
  BY DEF HistoryInv
<1>1. /\ runs[r].outcome = "" /\ jobs[r] = "None"
      /\ created = [q \in Items |-> 0] /\ mutated = {}
  BY DEF ExecInit, NewStatus, None
<1>2. ~AboutTo("create", r) /\ ~AboutTo("record", r)
  BY IdleMeans DEF ExecInit, AboutTo
<1>3. ~Ended(runs[r])
  BY <1>1 DEF Ended, TerminalOutcomes
<1>4. jobs[r] \notin Running /\ r \notin mutated
  BY <1>1 DEF Running
<1>5. created[r] = 0
  BY <1>1
<1> QED
  BY <1>2, <1>3, <1>4, <1>5 DEF HistoryOf

(* While no status is lost, no step loses what is known of Jobs. *)
LEMMA HistoryStep ==
  ASSUME ~StatusLoss
  PROVE  TypeInv /\ HistoryInv /\ [ExecNext]_execVars => HistoryInv'
<1> SUFFICES ASSUME TypeInv, HistoryInv, [ExecNext]_execVars
             PROVE  HistoryInv'
  OBVIOUS
<1>1. CASE Quiet
  <2> SUFFICES ASSUME NEW q \in Items PROVE HistoryOf(q)'
    BY DEF HistoryInv
  <2>1. /\ AboutTo("create", q)' => AboutTo("create", q)
        /\ AboutTo("record", q)' => AboutTo("record", q)
    BY <1>1, IdleMeans DEF Quiet, AboutTo
  <2>2. HistoryOf(q)
    BY DEF HistoryInv
  <2> QED
    BY <1>1, <2>1, <2>2 DEF Quiet, clusterVars, HistoryOf, Ended
<1>2. CASE RestoreBackup
  BY <1>2 DEF RestoreBackup
<1> QED
  BY <1>1, <1>2, QuietSteps, StepKinds, RunStepHistory DEF ManagerStep

(* As long as no status is lost, whatever else fails, no second Job is ever  *)
(* created for a run (the intent persisted before the Create request,        *)
(* Reconcile 170-177).                                                       *)
THEOREM JobCreatedOnce ==
  ASSUME ~StatusLoss
  PROVE  ExecSpec => []AtMostOneJob
<1>1. HistoryInv => AtMostOneJob
  BY DEF HistoryInv, HistoryOf, AtMostOneJob
<1> QED
  BY <1>1, ExecInitTypes, StepTypes, HistoryInit, HistoryStep, PTL DEF ExecSpec

(* As long as no status is lost, an Apply that began to change the           *)
(* infrastructure ends Succeeded or Indeterminate, however its Job, its      *)
(* evidence and the manager fared (applyMissingTerminalResult).              *)
THEOREM MutationVisible ==
  ASSUME ~StatusLoss
  PROVE  ExecSpec => []MutationNeverHidden
<1>1. TypeInv /\ HistoryInv => MutationNeverHidden
  <2> SUFFICES ASSUME TypeInv, HistoryInv, NEW r \in mutated, Ended(runs[r])
               PROVE  runs[r].outcome \in {"Succeeded", "Indeterminate"}
    BY DEF MutationNeverHidden
  <2>1. r \in Items
    BY DEF TypeInv
  <2> QED
    BY <2>1 DEF HistoryInv, HistoryOf
<1> QED
  BY <1>1, ExecInitTypes, StepTypes, HistoryInit, HistoryStep, PTL DEF ExecSpec

(* As long as no status is lost, a terminal outcome stays, however stale     *)
(* what its two writers read: the one change is that the controller of       *)
(* stacks supersedes an attempt of a Plan, once, for good and keeping its    *)
(* JobRef (Reconcile 100-102, ensurePlanRun 189-197).                        *)
THEOREM OutcomesFinal ==
  ASSUME ~StatusLoss
  PROVE  ExecSpec => OutcomesAreFinal
<1> DEFINE Final ==
      \A r \in Items :
        Ended(runs[r]) =>
          \/ runs'[r] = runs[r]
          \/ r.Kind = "Plan" /\ Superseded(runs[r], runs'[r])
<1>1. TypeInv /\ HistoryInv /\ [ExecNext]_execVars => [Final]_execVars
  <2> SUFFICES ASSUME TypeInv, HistoryInv, [ExecNext]_execVars PROVE Final
    OBVIOUS
  <2>1. ASSUME NEW r \in Items, RunStep(r) PROVE Final
    <3>1. CASE Judges(r)
      BY <3>1 DEF Judges, Reconciles, Writes
    <3>2. CASE Binds(r) \/ Intends(r)
      BY <3>2 DEF Binds, Intends, Reconciles
    <3>3. CASE RecordJob(r)
      <4>1. ~Ended(runs[r])
        BY <3>3 DEF RecordJob, HistoryInv, HistoryOf, AboutTo
      <4> QED
        BY <3>3, <4>1, RecordJobEffect
    <3>4. CASE runs' = runs
      BY <3>4
    <3>5. CASE Retires(r)
      BY <3>5 DEF Retires
    <3> QED
      BY <2>1, <3>1, <3>2, <3>3, <3>4, <3>5
         DEF RunStep, CreateJob, FailCreate, LoseCreate, StartRunner, Mutate,
             StoreResult, FinishJob, DisturbJob, CacheRun, CacheJob,
             clusterVars
  <2>2. CASE RestoreBackup
    BY <2>2 DEF RestoreBackup
  <2>3. CASE Quiet
    BY <2>3 DEF Quiet, clusterVars
  <2> QED
    BY <2>1, <2>2, <2>3, QuietSteps, StepKinds DEF ManagerStep
<1> QED
  BY <1>1, ExecInitTypes, StepTypes, HistoryInit, HistoryStep, PTL
     DEF ExecSpec, OutcomesAreFinal

-----------------------------------------------------------------------------
(* Evidence prevents a second execution *)

(* Behind a running Job there is a persisted intent, and what is about to be *)
(* created neither runs nor has left evidence.  No fault disturbs this.      *)
IntentOf(r) ==
  /\ jobs[r] \in Running => runs[r].jobRef # "none"
  /\ AboutTo("create", r) =>
       /\ jobs[r] \notin Running /\ terminal[r] = None
       /\ runs[r].jobRef # "none" /\ ~Ended(runs[r])

IntentInv == \A r \in Items : IntentOf(r)

(* There are no intents at the start. *)
LEMMA IntentInit == ExecInit => IntentInv
<1> SUFFICES ASSUME ExecInit, NEW r \in Items PROVE IntentOf(r)
  BY DEF IntentInv
<1>1. jobs[r] \notin Running
  BY DEF ExecInit, None, Running
<1>2. ~AboutTo("create", r)
  BY IdleMeans DEF ExecInit, AboutTo
<1> QED
  BY <1>1, <1>2 DEF IntentOf

(* Steps about one run keep the intents true. *)
LEMMA RunStepIntent ==
  ASSUME TypeInv, IntentInv, NEW r \in Items, RunStep(r)
  PROVE  IntentInv'
<1> SUFFICES ASSUME NEW q \in Items PROVE IntentOf(q)'
  BY DEF IntentInv
<1>0. IntentOf(q) /\ IntentOf(r)
  BY DEF IntentInv
<1>1. CASE Judges(r) \/ Binds(r)
  <2>1. worker' = Idle /\ jobs' = jobs
    BY <1>1 DEF Judges, Binds, Reconciles, managerVars
  <2>2. ~AboutTo("create", q)'
    BY <2>1, IdleMeans DEF AboutTo
  <2>3. runs[q].jobRef # "none" => runs'[q].jobRef # "none"
    BY <1>1 DEF Judges, Binds, Writes
  <2> QED
    BY <1>0, <2>1, <2>2, <2>3 DEF IntentOf
<1>2. CASE Intends(r)
  <2>1. CASE runs' = runs /\ worker' = worker
    BY <1>0, <1>2, <2>1 DEF Intends, IntentOf, Ended, AboutTo
  <2>2. CASE ~(runs' = runs /\ worker' = worker)
    <3>1. /\ Reconciles(r) /\ Seen(r) = runs[r] /\ runs[r].jobRef = "none"
          /\ terminal[r] = None
          /\ runs'[r].outcome = runs[r].outcome /\ runs'[r].jobRef = "named"
          /\ worker' = [step |-> "create", run |-> r]
          /\ jobs' = jobs /\ terminal' = terminal
          /\ \A p \in Items \ {r} : runs'[p] = runs[p]
      BY <1>2, <2>2 DEF Intends
    <3>2. AboutTo("create", q)' => q = r
      BY <3>1 DEF AboutTo
    <3>3. jobs[r] \notin Running /\ ~Ended(runs[r])
      BY <1>0, <3>1 DEF IntentOf, Reconciles
    <3> QED
      BY <1>0, <3>1, <3>2, <3>3 DEF IntentOf, Ended
  <2> QED
    BY <2>1, <2>2
<1>3. CASE CreateJob(r) \/ LoseCreate(r)
  <2>1. /\ AboutTo("create", r) /\ runs' = runs
        /\ jobs' = [jobs EXCEPT ![r] = "Pending"]
        /\ worker' \in {Idle, [step |-> "record", run |-> r]}
    BY <1>3 DEF CreateJob, LoseCreate, Creates, AboutTo
  <2>2. ~AboutTo("create", q)'
    BY <2>1 DEF AboutTo, Idle
  <2>3. jobs'[q] \in Running => jobs[q] \in Running \/ q = r
    BY <2>1 DEF TypeInv
  <2> QED
    BY <1>0, <2>1, <2>2, <2>3 DEF IntentOf
<1>4. CASE RecordJob(r)
  <2>1. worker' = Idle /\ jobs' = jobs
    BY <1>4 DEF RecordJob
  <2>2. ~AboutTo("create", q)'
    BY <2>1, IdleMeans DEF AboutTo
  <2>3. runs[q].jobRef # "none" => runs'[q].jobRef # "none"
    BY <1>4, RecordJobEffect
  <2> QED
    BY <1>0, <2>1, <2>2, <2>3 DEF IntentOf
<1>5. CASE StartRunner(r) \/ FinishJob(r) \/ DisturbJob(r)
  <2>1. /\ UNCHANGED <<runs, terminal, worker>>
        /\ jobs'[q] \in Running => jobs[q] \in Running
    BY <1>5
       DEF StartRunner, FinishJob, DisturbJob, managerVars, TypeInv, Running,
           Finished, None
  <2> QED
    BY <1>0, <2>1 DEF IntentOf, Ended, AboutTo
<1>6. CASE Mutate(r)
  BY <1>0, <1>6 DEF Mutate, IntentOf, Ended, AboutTo, managerVars
<1>7. CASE StoreResult(r)
  <2>1. /\ jobs[r] \in Running /\ UNCHANGED <<runs, jobs, worker>>
        /\ \A p \in Items \ {r} : terminal'[p] = terminal[p]
    BY <1>7 DEF StoreResult, managerVars, Running, TypeInv
  <2> QED
    BY <1>0, <2>1 DEF IntentOf, Ended, AboutTo
<1>8. CASE FailCreate(r) \/ CacheRun(r) \/ CacheJob(r)
  <2>1. Quiet
    BY <1>8, QuietSteps
  <2>2. AboutTo("create", q)' => AboutTo("create", q)
    BY <2>1 DEF Quiet, AboutTo, Idle
  <2> QED
    BY <1>0, <2>1, <2>2 DEF Quiet, clusterVars, IntentOf, Ended
<1>9. CASE Retires(r)
  <2>1. UNCHANGED <<jobs, terminal, worker>>
    BY <1>9 DEF Retires, managerVars
  <2>2. CASE runs'[q] = runs[q]
    BY <1>0, <2>1, <2>2 DEF IntentOf, Ended, AboutTo
  <2>3. CASE runs'[q] # runs[q]
    <3>1. Ended(runs[q]) /\ runs'[q].jobRef = runs[q].jobRef
      BY <1>9, <2>3, RetiresMeans
    <3> QED
      BY <1>0, <2>1, <3>1 DEF IntentOf, AboutTo
  <2> QED
    BY <2>2, <2>3
<1> QED
  BY <1>1, <1>2, <1>3, <1>4, <1>5, <1>6, <1>7, <1>8, <1>9 DEF RunStep

(* So do all steps, also the restore of a backup. *)
LEMMA IntentStep ==
  TypeInv /\ IntentInv /\ [ExecNext]_execVars => IntentInv'
<1> SUFFICES ASSUME TypeInv, IntentInv, [ExecNext]_execVars
             PROVE  IntentInv'
  OBVIOUS
<1>1. CASE Quiet
  <2> SUFFICES ASSUME NEW q \in Items PROVE IntentOf(q)'
    BY DEF IntentInv
  <2>1. AboutTo("create", q)' => AboutTo("create", q)
    BY <1>1 DEF Quiet, AboutTo, Idle
  <2>2. IntentOf(q)
    BY DEF IntentInv
  <2> QED
    BY <1>1, <2>1, <2>2 DEF Quiet, clusterVars, IntentOf, Ended
<1>2. CASE RestoreBackup
  <2> SUFFICES ASSUME NEW q \in Items PROVE IntentOf(q)'
    BY DEF IntentInv
  <2>1. worker' = Idle
    BY <1>2 DEF RestoreBackup, StartManager
  <2>2. ~AboutTo("create", q)'
    BY <2>1, IdleMeans DEF AboutTo
  <2>3. jobs'[q] \in Running => jobs'[q] = jobs[q] /\ runs'[q] = runs[q]
    BY <1>2 DEF RestoreBackup, None, Running
  <2>4. IntentOf(q)
    BY DEF IntentInv
  <2> QED
    BY <2>2, <2>3, <2>4 DEF IntentOf
<1> QED
  BY <1>1, <1>2, QuietSteps, StepKinds, RunStepIntent DEF ManagerStep

(* A run whose result is in the artifact store is never executed again: not  *)
(* when its status and its Job are lost, not with stale caches, not when the *)
(* manager stops between the read of the evidence and the Create request     *)
(* (Reconcile 120-133).                                                      *)
THEOREM RerunPrevented == ExecSpec => EvidencePreventsRerun
<1> DEFINE Prevented == \A r \in Items : created'[r] # created[r] => terminal[r] = None
<1>1. TypeInv /\ IntentInv /\ [ExecNext]_execVars => [Prevented]_execVars
  <2> SUFFICES ASSUME TypeInv, IntentInv, [ExecNext]_execVars PROVE Prevented
    OBVIOUS
  <2>1. ASSUME NEW r \in Items, CreateJob(r) \/ LoseCreate(r) PROVE Prevented
    <3>1. /\ AboutTo("create", r)
          /\ created' = [created EXCEPT ![r] = @ + 1]
      BY <2>1 DEF CreateJob, LoseCreate, Creates, AboutTo
    <3>2. terminal[r] = None
      BY <3>1 DEF IntentInv, IntentOf
    <3> QED
      BY <3>1, <3>2 DEF TypeInv
  <2>2. CASE created' = created
    BY <2>2
  <2>3. ASSUME NEW r \in Items, RunStep(r), ~CreateJob(r), ~LoseCreate(r)
        PROVE  created' = created
    BY <2>3
       DEF RunStep, Judges, Binds, Intends, Retires, FailCreate, RecordJob,
           StartRunner, Mutate, StoreResult, FinishJob, DisturbJob, CacheRun,
           CacheJob, clusterVars
  <2>4. ASSUME ManagerStep \/ UNCHANGED execVars PROVE created' = created
    BY <2>4 DEF ManagerStep, Restart, RestoreBackup, ListActive, FillGate,
                execVars, clusterVars
  <2> QED
    BY <2>1, <2>2, <2>3, <2>4, StepKinds
<1> QED
  BY <1>1, ExecInitTypes, StepTypes, IntentInit, IntentStep, PTL
     DEF ExecSpec, EvidencePreventsRerun

-----------------------------------------------------------------------------
(* Running Jobs *)

(* Read without a cache, a Job that still runs gets its run no terminal      *)
(* outcome.                                                                  *)
LEMMA JudgedJobs ==
  ASSUME ~StaleReads, TypeInv, IntentInv, NEW r \in Items, Judges(r),
         Ended(runs[r])', ~Ended(runs[r])
  PROVE  jobs[r] \notin Running
<1>1. PICK o \in Outcomes : Permitted(r, o) /\ Writes(r, o)
  BY DEF Judges
<1>2. Seen(r) = runs[r] /\ SeenJob(r) = jobs[r]
  BY DEF Seen, SeenJob
<1>3. o \in TerminalOutcomes
  BY <1>1 DEF Writes, Ended
<1>4. o \notin {"Pending", "Running"}
  BY <1>3 DEF TerminalOutcomes
<1>5. runs[r].jobRef = "none" \/ jobs[r] \in {None, "Foreign"} \cup Finished
  BY <1>1, <1>2, <1>4 DEF Permitted
<1>6. runs[r].jobRef = "none" => jobs[r] \notin Running
  BY DEF IntentInv, IntentOf
<1> QED
  BY <1>5, <1>6 DEF None, Finished, Running

(* No step ends a run whose Job runs, or starts the Job of an ended run. *)
LEMMA AbandonStep ==
  ASSUME ~StaleReads
  PROVE  /\ TypeInv /\ IntentInv /\ NoRunningJobIsAbandoned
         /\ [ExecNext]_execVars
         => NoRunningJobIsAbandoned'
<1> SUFFICES ASSUME TypeInv, IntentInv, NoRunningJobIsAbandoned,
                    [ExecNext]_execVars, NEW q \in Items, Ended(runs[q])'
             PROVE  jobs'[q] \notin Running
  BY DEF NoRunningJobIsAbandoned
<1>0. Ended(runs[q]) => jobs[q] \notin Running
  BY DEF NoRunningJobIsAbandoned
<1>1. ASSUME NEW r \in Items, RunStep(r) PROVE jobs'[q] \notin Running
  <2>1. CASE Judges(r)
    <3>1. CASE runs'[q] = runs[q]
      BY <1>0, <2>1, <3>1 DEF Judges, Ended
    <3>2. CASE runs'[q] # runs[q]
      <4>1. q = r /\ ~Ended(runs[r])
        BY <2>1, <3>2 DEF Judges, Writes, Reconciles, Seen
      <4> QED
        BY <2>1, <4>1, JudgedJobs DEF Judges
    <3> QED
      BY <3>1, <3>2
  <2>2. CASE Binds(r) \/ Intends(r)
    <3>1. runs'[q].outcome = runs[q].outcome /\ jobs' = jobs
      BY <2>2 DEF Binds, Intends
    <3> QED
      BY <1>0, <3>1 DEF Ended
  <2>3. CASE CreateJob(r) \/ LoseCreate(r)
    <3>1. /\ AboutTo("create", r) /\ runs' = runs
          /\ jobs' = [jobs EXCEPT ![r] = "Pending"]
      BY <2>3 DEF CreateJob, LoseCreate, Creates, AboutTo
    <3>2. ~Ended(runs[r])
      BY <3>1 DEF IntentInv, IntentOf
    <3>3. q # r
      BY <3>1, <3>2 DEF Ended
    <3> QED
      BY <1>0, <3>1, <3>3 DEF Ended, TypeInv
  <2>4. CASE RecordJob(r)
    <3>1. runs'[q].outcome = runs[q].outcome /\ jobs' = jobs
      BY <2>4, RecordJobEffect DEF RecordJob
    <3> QED
      BY <1>0, <3>1 DEF Ended
  <2>5. CASE StartRunner(r) \/ FinishJob(r) \/ DisturbJob(r)
    <3>1. /\ runs' = runs
          /\ jobs'[q] \in Running => jobs[q] \in Running
      BY <2>5
         DEF StartRunner, FinishJob, DisturbJob, TypeInv, Running, Finished,
             None
    <3> QED
      BY <1>0, <3>1 DEF Ended
  <2>6. CASE Mutate(r) \/ StoreResult(r)
    BY <1>0, <2>6 DEF Mutate, StoreResult, Ended
  <2>7. CASE FailCreate(r) \/ CacheRun(r) \/ CacheJob(r)
    BY <1>0, <2>7 DEF FailCreate, CacheRun, CacheJob, clusterVars, Ended
  <2>8. CASE Retires(r)
    <3>1. Ended(runs[q])
      BY <2>8, RetiresMeans DEF Ended
    <3> QED
      BY <1>0, <2>8, <3>1 DEF Retires
  <2> QED
    BY <1>1, <2>1, <2>2, <2>3, <2>4, <2>5, <2>6, <2>7, <2>8 DEF RunStep
<1>2. CASE Quiet
  BY <1>0, <1>2 DEF Quiet, clusterVars, Ended
<1>3. CASE RestoreBackup
  <2>1. jobs'[q] \in Running => jobs'[q] = jobs[q] /\ runs'[q] = runs[q]
    BY <1>3 DEF RestoreBackup, None, Running
  <2> QED
    BY <1>0, <2>1 DEF Ended
<1> QED
  BY <1>1, <1>2, <1>3, QuietSteps, StepKinds DEF ManagerStep

(* When its reads are current, the reconciler gives no run a terminal        *)
(* outcome while the Job of the run still runs, also after statuses and Jobs *)
(* were lost and whatever the artifact store answers.                        *)
THEOREM NoneAbandoned ==
  ASSUME ~StaleReads
  PROVE  ExecSpec => []NoRunningJobIsAbandoned
<1>1. ExecInit => NoRunningJobIsAbandoned
  BY DEF ExecInit, NoRunningJobIsAbandoned, None, Running
<1> QED
  BY <1>1, ExecInitTypes, StepTypes, IntentInit, IntentStep, AbandonStep, PTL
     DEF ExecSpec

-----------------------------------------------------------------------------
(* The limits of the manager hold for the Jobs in the cluster *)

Working == {r \in Items : jobs[r] \in Running}

(* The reconciler does not start r (again). *)
Taken(r) == runs[r].jobRef # "none" \/ Ended(runs[r])

Bounded(S) == Pool!WithinLimits(S) /\ Pool!Exclusive(S)

(* Once the gate is filled, every running Job holds a slot; what holds a     *)
(* slot was started; and a Job is about to be created only while the holders *)
(* of slots, its run among them, are within the limits.                      *)
SlotInv ==
  /\ recon.phase # "done" => activeItems = {}
  /\ recon.phase = "listed" =>
       Working \subseteq recon.active /\ \A r \in recon.active : Taken(r)
  /\ recon.phase = "done" => Working \subseteq activeItems
  /\ \A r \in activeItems : Taken(r)
  /\ \A r \in Items :
       AboutTo("create", r) =>
         recon.phase = "done" /\ r \in activeItems /\ Bounded(activeItems)
  /\ Bounded(Working)

(* Fewer are within the limits when more are. *)
LEMMA BoundedSubset ==
  ASSUME NEW S \in SUBSET Items, NEW T \in SUBSET S, Bounded(S)
  PROVE  Bounded(T)
<1>1. IsFiniteSet(S)
  BY FS_Subset, ItemsAssumption
<1>2. ASSUME NEW k
      PROVE  /\ Cardinality(OfKind(T, k)) \in Nat
             /\ Cardinality(OfKind(S, k)) \in Nat
             /\ Cardinality(OfKind(T, k)) <= Cardinality(OfKind(S, k))
  <2>1. OfKind(T, k) \subseteq OfKind(S, k) /\ OfKind(S, k) \subseteq S
    BY DEF OfKind
  <2>2. IsFiniteSet(OfKind(S, k)) /\ IsFiniteSet(OfKind(T, k))
    BY <1>1, <2>1, FS_Subset
  <2> QED
    BY <2>1, <2>2, FS_Subset, FS_CardinalityType
<1>3. Pool!WithinLimits(T)
  <2>1. /\ Cardinality(OfKind(S, "Plan")) <= MaxPlans
        /\ Cardinality(OfKind(S, "Apply")) <= MaxApplies
    BY PoolSets DEF Bounded, Pool!WithinLimits
  <2>2. /\ Cardinality(OfKind(T, "Plan")) <= MaxPlans
        /\ Cardinality(OfKind(T, "Apply")) <= MaxApplies
    BY <1>2, <2>1, LimitsAssumption
  <2> QED
    BY <2>2, PoolSets DEF Pool!WithinLimits
<1>4. Pool!Exclusive(T)
  <2>1. \A i, j \in OfKind(S, "Apply") : i.Stack = j.Stack => i = j
    BY PoolSets DEF Bounded, Pool!Exclusive
  <2>2. OfKind(T, "Apply") \subseteq OfKind(S, "Apply")
    BY DEF OfKind
  <2>3. \A i, j \in OfKind(T, "Apply") : i.Stack = j.Stack => i = j
    BY <2>1, <2>2
  <2> QED
    BY <2>3, PoolSets DEF Pool!Exclusive
<1> QED
  BY <1>3, <1>4 DEF Bounded

(* The bounds are constants: what fits at the next moment fits now. *)
LEMMA BoundedPrimed ==
  /\ Bounded(Working') => Bounded(Working)'
  /\ Bounded(activeItems') => Bounded(activeItems)'
BY DEF Bounded, Pool!WithinLimits, Pool!Exclusive, Pool!OfKind,
       Pool!Cardinality

(* No slots at all are within any limits. *)
LEMMA BoundedEmpty == Bounded({})
<1>1. Pool!WithinLimits({})
  BY EmptyCounts, PoolSets, LimitsAssumption DEF Pool!WithinLimits
<1>2. Pool!Exclusive({})
  <2>1. OfKind({}, "Apply") = {}
    BY DEF OfKind
  <2> QED
    BY <2>1, PoolSets DEF Pool!Exclusive
<1> QED
  BY <1>1, <1>2 DEF Bounded

(* A call of the gate for one run, between reconciliations. *)
Calls(r) ==
  /\ worker' = Idle
  /\ \/ Release(r) /\ jobs[r] \notin Running
     \/ Acquire(r) /\ Taken(r)'

(* A step that starts no Job and keeps what is started. *)
Settles ==
  /\ recon' = recon
  /\ worker' \in {worker, Idle}
  /\ Working' \subseteq Working
  /\ \A q \in Items : Taken(q) => Taken(q)'
  /\ UNCHANGED gateVars \/ \E r \in Items : Calls(r)

(* A run whose Job is found, its own or a foreign one, is not started again. *)
LEMMA FoundJob ==
  ASSUME ~StaleReads, TypeInv, NEW r \in Items, FindJob(r)
  PROVE  Taken(r)'
<1>1. Fresh(r) /\ Seen(r) = runs[r] /\ runs[r] \in RunStatus
  BY DEF Fresh, Seen, TypeInv
<1>2. CASE SeenJob(r) = "Foreign"
  <2> DEFINE new == [runs[r] EXCEPT !.outcome = "Indeterminate"]
  <2>1. new.outcome = "Indeterminate"
    BY <1>1 DEF RunStatus
  <2>2. runs' = [runs EXCEPT ![r] = new]
    BY <1>1, <1>2 DEF FindJob, WriteOutcome, WriteStatus
  <2> HIDE DEF new
  <2>3. runs'[r].outcome = "Indeterminate"
    BY <2>1, <2>2 DEF TypeInv
  <2> QED
    BY <2>3 DEF Taken, Ended, TerminalOutcomes
<1>3. CASE SeenJob(r) # "Foreign"
  <2> DEFINE new == [runs[r] EXCEPT !.jobRef = "bound"]
  <2>1. new.jobRef = "bound"
    BY <1>1 DEF RunStatus
  <2>2. runs' = [runs EXCEPT ![r] = new]
    BY <1>1, <1>3 DEF FindJob, WriteStatus
  <2> HIDE DEF new
  <2>3. runs'[r].jobRef = "bound"
    BY <2>1, <2>2 DEF TypeInv
  <2> QED
    BY <2>3 DEF Taken
<1> QED
  BY <1>2, <1>3

(* What a path of Reconcile that ends does to the gate. *)
LEMMA ReconcilesCalls ==
  ASSUME ~StaleReads, TypeInv, IntentInv, NEW r \in Items,
         \/ RejectProfile(r) \/ AdoptEvidence(r) \/ WaitForSlot(r)
         \/ RejectBinding(r) \/ LoseJob(r) \/ WaitForReconstructedSlot(r)
         \/ ObserveJob(r) \/ CaptureResult(r) \/ FindJob(r)
  PROVE  UNCHANGED gateVars \/ Calls(r)
<1>1. Seen(r) = runs[r] /\ SeenJob(r) = jobs[r]
  BY DEF Seen, SeenJob
<1>2. worker' = Idle
  BY DEF RejectProfile, AdoptEvidence, WaitForSlot, RejectBinding, LoseJob,
         WaitForReconstructedSlot, ObserveJob, CaptureResult, FindJob,
         NoEvidence, Unstarted, Started, Reconciles, managerVars
<1>3. CASE RejectBinding(r)
  <2>1. Release(r) /\ runs[r].jobRef = "none"
    BY <1>1, <1>3 DEF RejectBinding, NoEvidence, Unstarted
  <2> QED
    BY <1>2, <2>1 DEF Calls, IntentInv, IntentOf
<1>4. CASE ObserveJob(r)
  <2>1. Acquire(r) /\ runs[r].jobRef # "none"
    BY <1>1, <1>4 DEF ObserveJob, Started
  <2>2. Judges(r)
    BY <1>4, JudgingSteps
  <2>3. runs'[r].jobRef = runs[r].jobRef
    BY <2>2 DEF Judges, Writes
  <2> QED
    BY <1>2, <2>1, <2>3 DEF Calls, Taken
<1>5. CASE CaptureResult(r)
  <2>1. jobs[r] \notin Running
    BY <1>1, <1>5 DEF CaptureResult, Finished, Running
  <2>2. UNCHANGED gateVars \/ Release(r)
    BY <1>5 DEF CaptureResult
  <2> QED
    BY <1>2, <2>1, <2>2 DEF Calls
<1>6. CASE FindJob(r)
  <2>1. Acquire(r)
    BY <1>6 DEF FindJob
  <2> QED
    BY <1>2, <1>6, <2>1, FoundJob DEF Calls
<1> QED
  BY <1>3, <1>4, <1>5, <1>6
     DEF RejectProfile, AdoptEvidence, WaitForSlot, LoseJob,
         WaitForReconstructedSlot

(* All steps settle, but for those that start a Job or a process. *)
LEMMA SettlingSteps ==
  ASSUME ~StaleReads, ~CreateLoss, TypeInv, IntentInv, [ExecNext]_execVars
  PROVE  \/ Settles
         \/ Restart \/ RestoreBackup \/ ListActive \/ FillGate
         \/ \E r \in Items : CreateJob(r) \/ PersistIntent(r)
<1>1. ASSUME NEW r \in Items,
             \/ RejectProfile(r) \/ AdoptEvidence(r) \/ WaitForSlot(r)
             \/ RejectBinding(r) \/ LoseJob(r) \/ WaitForReconstructedSlot(r)
             \/ ObserveJob(r) \/ CaptureResult(r) \/ FindJob(r)
      PROVE  Settles
  <2>1. Judges(r) \/ Binds(r)
    BY <1>1, JudgingSteps, FindJobEffect
  <2>2. recon' = recon /\ worker' = worker /\ jobs' = jobs
    BY <2>1 DEF Judges, Binds, managerVars
  <2>3. \A q \in Items : Taken(q) => Taken(q)'
    <3> SUFFICES ASSUME NEW q \in Items, Taken(q) PROVE Taken(q)'
      OBVIOUS
    <3>1. runs'[q] = runs[q] \/ (q = r /\ ~Ended(runs[r]))
      BY <2>1 DEF Judges, Binds, Writes, Reconciles, Seen
    <3>2. runs[q].jobRef # "none" => runs'[q].jobRef # "none"
      BY <2>1 DEF Judges, Binds, Writes
    <3> QED
      BY <3>1, <3>2 DEF Taken, Ended
  <2>4. UNCHANGED gateVars \/ Calls(r)
    BY <1>1, ReconcilesCalls
  <2>5. Working' = Working
    BY <2>2 DEF Working
  <2> QED
    BY <2>2, <2>3, <2>4, <2>5 DEF Settles
<1>2. ASSUME NEW r \in Items, FailCreate(r) PROVE Settles
  <2>1. jobs[r] \notin Running
    BY <1>2 DEF FailCreate, IntentInv, IntentOf, AboutTo
  <2>2. Calls(r)
    BY <1>2, <2>1 DEF FailCreate, Calls
  <2> QED
    BY <1>2, <2>2 DEF FailCreate, Settles, Working, Taken, Ended, clusterVars
<1>3. ASSUME NEW r \in Items, RecordJob(r) PROVE Settles
  <2>1. \A q \in Items : Taken(q) => Taken(q)'
    BY <1>3, RecordJobEffect DEF Taken, Ended
  <2> QED
    BY <1>3, <2>1 DEF RecordJob, Settles, Working
<1>4. ASSUME NEW r \in Items, StartRunner(r) \/ FinishJob(r) \/ DisturbJob(r)
      PROVE  Settles
  <2>1. \A q \in Items : jobs'[q] \in Running => jobs[q] \in Running
    BY <1>4
       DEF StartRunner, FinishJob, DisturbJob, TypeInv, Running, Finished, None
  <2>2. Working' \subseteq Working
    BY <2>1 DEF Working
  <2> QED
    BY <1>4, <2>2
       DEF StartRunner, FinishJob, DisturbJob, Settles, Taken, Ended,
           managerVars
<1>5. ASSUME NEW r \in Items,
             Mutate(r) \/ StoreResult(r) \/ CacheRun(r) \/ CacheJob(r)
      PROVE  Settles
  BY <1>5 DEF Mutate, StoreResult, CacheRun, CacheJob, Settles, Working, Taken,
              Ended, clusterVars, managerVars
<1>6. CASE UNCHANGED execVars
  BY <1>6 DEF execVars, clusterVars, managerVars, Settles, Working, Taken, Ended
<1>7. ASSUME NEW r \in Items, LoseCreate(r) PROVE FALSE
  BY <1>7 DEF LoseCreate
<1>8. ASSUME NEW r \in Items, Supersede(r) PROVE Settles
  <2>1. Retires(r) /\ UNCHANGED gateVars
    BY <1>8, SupersedeEffect DEF Supersede
  <2>2. \A q \in Items : Taken(q) => Taken(q)'
    BY <2>1, RetiresMeans DEF Taken, Ended
  <2>3. recon' = recon /\ worker' = worker /\ Working' = Working
    BY <2>1 DEF Retires, managerVars, Working
  <2> QED
    BY <2>1, <2>2, <2>3 DEF Settles
<1> QED
  BY <1>1, <1>2, <1>3, <1>4, <1>5, <1>6, <1>7, <1>8
     DEF ExecNext, Rejects, Executes, Runner

(* Calls of the gate move at most their own run in or out. *)
LEMMA CallHolders ==
  ASSUME TypeInv, GateInv, ReconInv, SlotInv, NEW r \in Items, Calls(r)
  PROVE  /\ recon.phase # "done" => activeItems' = {}
         /\ \A q \in activeItems : jobs[q] \in Running => q \in activeItems'
         /\ \A q \in activeItems' : q \in activeItems \/ Taken(q)'
<1>0. activeItems \in SUBSET Items
  BY DEF GateInv, GateTypeOK
<1>1. CASE Release(r) /\ jobs[r] \notin Running
  <2>1. CASE ~Active(r.ID)
    BY <1>1, <2>1 DEF Release, gateVars, counterVars, SlotInv
  <2>2. CASE Active(r.ID)
    <3>1. PICK held \in activeItems :
            held.ID = r.ID /\ activeItems' = activeItems \ {held}
      BY <1>1, <2>2 DEF Release
    <3>2. held = r
      BY <1>0, <3>1, RunsAssumption DEF UniqueIDs
    <3>3. recon.phase = "done"
      BY <3>1 DEF SlotInv
    <3> QED
      BY <1>1, <3>1, <3>2, <3>3
  <2> QED
    BY <2>1, <2>2
<1>2. CASE Acquire(r) /\ Taken(r)'
  <2>1. CASE Active(r.ID)
    BY <1>2, <2>1 DEF Acquire, gateVars, counterVars, SlotInv
  <2>2. CASE ~Active(r.ID)
    <3>1. Admissible(r) /\ activeItems' = activeItems \cup {r}
      BY <1>2, <2>2 DEF Acquire, Acquires, Reserve, SameWork, Active
    <3>2. recon.phase = "done"
      BY <3>1 DEF Admissible, ReconInv
    <3> QED
      BY <1>2, <3>1, <3>2
  <2> QED
    BY <2>1, <2>2
<1> QED
  BY <1>1, <1>2 DEF Calls

(* Settling keeps running Jobs in slots and what holds a slot started. *)
LEMMA SettlesSlots ==
  ASSUME TypeInv, GateInv, ReconInv, SlotInv, Settles
  PROVE  SlotInv'
<1>0. Working \in SUBSET Items /\ activeItems \in SUBSET Items
  BY DEF Working, GateInv, GateTypeOK
<1>1. Bounded(Working)'
  <2>1. Bounded(Working) /\ Working' \in SUBSET Working
    BY DEF Settles, SlotInv
  <2>2. Bounded(Working')
    BY <1>0, <2>1, BoundedSubset
  <2> QED
    BY <2>2, BoundedPrimed
<1>2. /\ recon.phase # "done" => activeItems' = {}
      /\ \A q \in activeItems : jobs[q] \in Running => q \in activeItems'
      /\ \A q \in activeItems' : q \in activeItems \/ Taken(q)'
  <2>1. CASE UNCHANGED gateVars
    BY <2>1 DEF gateVars, counterVars, SlotInv
  <2>2. CASE \E r \in Items : Calls(r)
    BY <2>2, CallHolders
  <2> QED
    BY <2>1, <2>2 DEF Settles
<1>3. \A q \in activeItems' : Taken(q)'
  BY <1>0, <1>2 DEF Settles, SlotInv
<1>4. recon.phase = "done" => Working' \subseteq activeItems'
  BY <1>2 DEF Settles, SlotInv, Working
<1>5. recon.phase = "listed" =>
        Working' \subseteq recon.active /\ \A q \in recon.active : Taken(q)'
  BY DEF Settles, SlotInv, TypeInv
<1>6. ASSUME NEW q \in Items, AboutTo("create", q)'
      PROVE  /\ recon.phase = "done" /\ q \in activeItems'
             /\ Bounded(activeItems')
  <2>1. worker' # Idle
    BY <1>6, IdleMeans DEF AboutTo
  <2>2. worker' = worker /\ UNCHANGED gateVars
    BY <2>1 DEF Settles, Calls
  <2>3. AboutTo("create", q) /\ activeItems' = activeItems
    BY <1>6, <2>2 DEF AboutTo, gateVars, counterVars
  <2> QED
    BY <2>3 DEF SlotInv
<1>7. recon' = recon
  BY DEF Settles
<1> QED
  BY <1>1, <1>2, <1>3, <1>4, <1>5, <1>6, <1>7 DEF SlotInv

(* A Job is created for a run that holds a slot, among holders that fit. *)
LEMMA CreateSlots ==
  ASSUME TypeInv, GateInv, SlotInv, NEW r \in Items, CreateJob(r)
  PROVE  SlotInv'
<1>1. /\ recon.phase = "done" /\ r \in activeItems /\ Bounded(activeItems)
  BY DEF CreateJob, SlotInv, AboutTo
<1>2. /\ UNCHANGED <<activeItems, runs, recon>>
      /\ jobs' = [jobs EXCEPT ![r] = "Pending"]
      /\ worker' = [step |-> "record", run |-> r]
  BY DEF CreateJob, Creates, gateVars, counterVars
<1>3. Working' \subseteq activeItems
  <2>1. Working \subseteq activeItems
    BY <1>1 DEF SlotInv
  <2> QED
    BY <1>1, <1>2, <2>1 DEF Working, TypeInv
<1>4. Bounded(Working')
  BY <1>1, <1>3, BoundedSubset DEF GateInv, GateTypeOK
<1>5. \A q \in Items : ~AboutTo("create", q)'
  BY <1>2 DEF AboutTo
<1>6. \A q \in activeItems' : Taken(q)'
  BY <1>2 DEF SlotInv, Taken, Ended
<1>7. Bounded(Working)'
  BY <1>4, BoundedPrimed
<1> QED
  BY <1>1, <1>2, <1>3, <1>5, <1>6, <1>7 DEF SlotInv

(* The intent of a run is persisted with a slot that the gate admitted. *)
LEMMA IntentSlots ==
  ASSUME ~StaleReads, TypeInv, GateInv, GateInv', ReconInv, SlotInv,
         NEW r \in Items, PersistIntent(r)
  PROVE  SlotInv'
<1>0. activeItems \in SUBSET Items
  BY DEF GateInv, GateTypeOK
<1>1. /\ Acquire(r) /\ worker' = [step |-> "create", run |-> r]
      /\ runs[r].jobRef = "none" /\ ~Ended(runs[r])
      /\ UNCHANGED <<jobs, recon>>
  BY DEF PersistIntent, Fresh, NoEvidence, Unstarted, Reconciles, Seen
<1>2. r \notin activeItems
  BY <1>1 DEF SlotInv, Taken
<1>3. ~Active(r.ID)
  BY <1>0, <1>2, RunsAssumption DEF Active, UniqueIDs
<1>4. Admissible(r) /\ Reserve(r)
  BY <1>1, <1>3 DEF Acquire, Acquires, SameWork, Active
<1>5. Pool!Admit(r)
  BY <1>3, <1>4, ReserveAdmits
<1>6. Bounded(activeItems') /\ activeItems' = activeItems \cup {r}
  BY <1>4, <1>5 DEF Pool!Admit, Bounded, Reserve
<1>7. recon.phase = "done"
  BY <1>4 DEF Admissible, ReconInv
<1>8. Intends(r)
  BY PersistIntentEffect
<1>9. /\ runs'[r].jobRef = "named"
      /\ \A q \in Items \ {r} : runs'[q] = runs[q]
  <2>1. worker' # worker
    BY <1>1, IdleMeans DEF PersistIntent, NoEvidence, Unstarted, Reconciles
  <2> QED
    BY <1>8, <2>1 DEF Intends
<1>10. \A q \in activeItems' : Taken(q)'
  BY <1>0, <1>6, <1>9 DEF SlotInv, Taken, Ended
<1>11. Working' = Working
  BY <1>1 DEF Working
<1>12. Bounded(Working)'
  <2>1. Bounded(Working')
    BY <1>11 DEF SlotInv
  <2> QED
    BY <2>1, BoundedPrimed
<1>13. \A q \in Items : AboutTo("create", q)' => q = r
  BY <1>1 DEF AboutTo
<1>14. Bounded(activeItems)'
  BY <1>6, BoundedPrimed
<1> QED
  BY <1>1, <1>6, <1>7, <1>10, <1>11, <1>12, <1>13, <1>14 DEF SlotInv

(* A new process holds no slot and is about to create nothing. *)
LEMMA StartSlots ==
  ASSUME TypeInv, SlotInv, StartManager,
         \A q \in Items : jobs'[q] \in Running => jobs[q] \in Running
  PROVE  SlotInv'
<1>1. Working' \in SUBSET Working /\ Working \in SUBSET Items
  BY DEF Working
<1>2. Bounded(Working')
  BY <1>1, BoundedSubset DEF SlotInv
<1>3. Bounded(Working)'
  BY <1>2, BoundedPrimed
<1>4. activeItems' = {} /\ recon'.phase = "unlisted" /\ worker' = Idle
  BY DEF StartManager, GateRestart
<1>5. \A q \in Items : ~AboutTo("create", q)'
  BY <1>4, IdleMeans DEF AboutTo
<1> QED
  BY <1>3, <1>4, <1>5 DEF SlotInv

(* All steps keep the relation of Jobs and slots. *)
LEMMA SlotStep ==
  ASSUME ~StaleReads, ~CreateLoss
  PROVE  /\ TypeInv /\ IntentInv /\ GateInv /\ GateInv' /\ ReconInv /\ SlotInv
         /\ [ExecNext]_execVars
         => SlotInv'
<1> SUFFICES ASSUME TypeInv, IntentInv, GateInv, GateInv', ReconInv, SlotInv,
                    [ExecNext]_execVars
             PROVE  SlotInv'
  OBVIOUS
<1>1. CASE Restart
  BY <1>1, StartSlots DEF Restart, clusterVars
<1>2. CASE RestoreBackup
  <2>1. \A q \in Items : jobs'[q] \in Running => jobs[q] \in Running
    BY <1>2 DEF RestoreBackup, None, Running
  <2> QED
    BY <1>2, <2>1, StartSlots DEF RestoreBackup
<1>3. CASE ListActive
  <2>1. /\ recon.phase = "unlisted" /\ recon'.phase = "listed"
        /\ recon'.active = Working
    BY <1>3 DEF ListActive, Lists, Working
  <2>2. UNCHANGED <<activeItems, runs, jobs, worker>>
    BY <1>3 DEF ListActive, gateVars, counterVars, clusterVars
  <2>3. Working' = Working
    BY <2>2 DEF Working
  <2>4. \A q \in Working : Taken(q)'
    BY <2>2 DEF Working, IntentInv, IntentOf, Taken
  <2>5. Bounded(Working)'
    <3>1. Bounded(Working')
      BY <2>3 DEF SlotInv
    <3> QED
      BY <3>1, BoundedPrimed
  <2>6. \A q \in Items : ~AboutTo("create", q)'
    BY <2>1, <2>2 DEF SlotInv, AboutTo
  <2> QED
    BY <2>1, <2>2, <2>3, <2>4, <2>5, <2>6 DEF SlotInv
<1>4. CASE FillGate
  <2>1. /\ recon.phase = "listed" /\ recon'.phase = "done"
        /\ activeItems' = recon.active
        /\ UNCHANGED <<runs, jobs, worker>>
    BY <1>4 DEF FillGate, Reconstruct, clusterVars
  <2>2. Working' = Working
    BY <2>1 DEF Working
  <2>3. \A q \in activeItems' : Taken(q)'
    BY <2>1 DEF SlotInv, Taken, Ended
  <2>4. Bounded(Working)'
    <3>1. Bounded(Working')
      BY <2>2 DEF SlotInv
    <3> QED
      BY <3>1, BoundedPrimed
  <2>5. \A q \in Items : ~AboutTo("create", q)'
    BY <2>1 DEF SlotInv, AboutTo
  <2> QED
    BY <2>1, <2>2, <2>3, <2>4, <2>5 DEF SlotInv
<1>5. CASE Settles
  BY <1>5, SettlesSlots
<1>6. ASSUME NEW r \in Items, CreateJob(r) \/ PersistIntent(r) PROVE SlotInv'
  BY <1>6, CreateSlots, IntentSlots
<1> QED
  BY <1>1, <1>2, <1>3, <1>4, <1>5, <1>6, SettlingSteps

(* No Jobs and no slots at the start. *)
LEMMA SlotInit == ExecInit => SlotInv
<1> SUFFICES ASSUME ExecInit PROVE SlotInv
  OBVIOUS
<1>1. Working = {}
  BY DEF ExecInit, Working, None, Running
<1>2. \A q \in Items : ~AboutTo("create", q)
  BY IdleMeans DEF ExecInit, AboutTo
<1>3. activeItems = {} /\ recon.phase = "unlisted"
  BY DEF ExecInit, GateInit
<1> QED
  BY <1>1, <1>2, <1>3, BoundedEmpty DEF SlotInv

(* When its reads are current and no answer to a Create request is lost, the *)
(* Jobs that run in the cluster respect the limits of the manager and the    *)
(* exclusion of Applies of one stack, across restarts, restores, deleted     *)
(* Jobs and foreign ones (TryAcquire, EnsureActive, Release,                 *)
(* ReconstructActiveTerraformRuns).                                          *)
THEOREM LimitsHold ==
  ASSUME ~StaleReads, ~CreateLoss
  PROVE  ExecSpec => []ActiveWithinLimits
<1>1. SlotInv => ActiveWithinLimits
  BY DEF SlotInv, Bounded, Working, ActiveWithinLimits
<1>2. ExecInit => ReconInv
  BY DEF ExecInit, ReconInv, GateInit
<1> QED
  BY <1>1, <1>2, ExecInitTypes, StepTypes, IntentInit, IntentStep, SlotInit,
     SlotStep, ReconStep, ManagerUsesGate, GateInvariant, PTL
     DEF ExecSpec
=============================================================================
