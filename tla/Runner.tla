-------------------------------- MODULE Runner --------------------------------
(***************************************************************************)
(* The Pods of the Job of one TerraformRun, each of which executes the     *)
(* terraform-runner once; the artifact store they upload to; and what the  *)
(* controller of the run accepts as the terminal evidence.                 *)
(*                                                                         *)
(* A Job never replaces a Pod that failed, but Kubernetes does not promise *)
(* that it starts only one.  Uploads are conditional on the key being      *)
(* free.  Their answers may be lost, in which case the client of the store *)
(* repeats the request.                                                    *)
(***************************************************************************)
EXTENDS Naturals

CONSTANTS
  Operations,  \* what the run may be for: "Plan", "Apply" or "Destroy"
  MaxPods,     \* how many Pods the Job may start
  MaxFaults    \* bound: lost answers, failed requests, killed Pods, damage

ASSUME RunnerAssumption ==
  /\ Operations \subseteq {"Plan", "Apply", "Destroy"}
  /\ MaxPods \in Nat \ {0} /\ MaxFaults \in Nat

VARIABLES
  operation,  \* what the run is for; "Destroy" is the Apply of a Destroy Plan
  store,      \* the objects in the store, see Object
  pods,       \* the Pods, see Pod
  faults,     \* how many faults there have been
  damaged     \* whether an object was damaged in the store

runnerVars == <<operation, store, pods, faults, damaged>>

-----------------------------------------------------------------------------
(* Content is told apart by who made it.  Some artifacts are the same in     *)
(* every attempt, others contain times or follow from such.                  *)
Pods == 1..MaxPods
Same == 0
Spoiled == MaxPods + 1
Contents == 0..Spoiled

(* retained stands for the artifacts of the Plan that an Apply executes.     *)
Keys ==
  {"inputs", "plan", "report", "graph", "backend", "source", "discovery",
   "terminal", "retained"}

ContentOf(p, key) ==
  IF \/ key \in {"plan", "report", "graph", "terminal"}
     \/ key = "discovery" /\ operation = "Plan"
  THEN p ELSE Same

(* What an object holds and the digest its metadata names. *)
Absent == [here |-> FALSE, bytes |-> 0, digest |-> 0]
Object == [here : BOOLEAN, bytes : Contents, digest : Contents]

Holding(content) == [here |-> TRUE, bytes |-> content, digest |-> content]

Uploads == {"inputs", "plan", "report", "graph", "backend", "source",
            "discovery", "terminal"}

(* Each reference names a key with a digest; ready is ArtifactsReady, erred  *)
(* that Terraform failed.  blamed is history: something failed that is not   *)
(* an upload finding its key taken.                                          *)
Missing == Spoiled
Pod ==
  [at : Uploads \cup {"idle", "start", "terraform", "readback", "retained", "end"},
   met : BOOLEAN, early : BOOLEAN, ready : BOOLEAN, erred : BOOLEAN,
   outcome : {"", "NoChange", "ChangesPresent", "Succeeded", "Failed"},
   refs : [{"plan", "report", "backend", "source", "discovery"} -> Contents],
   exit : {"none", "0", "1", "2", "killed"}, blamed : BOOLEAN]

NewPod ==
  [at |-> "idle", met |-> FALSE, early |-> FALSE, ready |-> FALSE,
   erred |-> FALSE, outcome |-> "",
   refs |-> [k \in {"plan", "report", "backend", "source", "discovery"} |-> Missing],
   exit |-> "none", blamed |-> FALSE]

RunnerInit ==
  /\ operation \in Operations
  /\ store = [k \in Keys |-> IF k = "retained" /\ operation # "Plan"
                             THEN Holding(Same) ELSE Absent]
  /\ pods = [p \in Pods |-> NewPod]
  /\ faults = 0 /\ damaged = FALSE

-----------------------------------------------------------------------------
(* Where a Pod goes from here. *)

Becomes(p, new) == pods' = [pods EXCEPT ![p] = new]

NoFault == UNCHANGED <<operation, faults, damaged>>

Fault == faults < MaxFaults /\ faults' = faults + 1 /\ UNCHANGED <<operation, damaged>>

Blamed(pod) == [pod EXCEPT !.blamed = TRUE]

(* The first artifact after the Plan, the first after an Apply. *)
AfterTerraform(outcome) ==
  CASE outcome \in {"NoChange", "ChangesPresent"}          -> "plan"
    [] outcome = "Succeeded" /\ operation = "Destroy"      -> "retained"
    [] outcome = "Succeeded" /\ operation # "Destroy"      -> "discovery"
    [] OTHER                                               -> "terminal"

AfterUpload(pod) ==
  CASE pod.at = "inputs"    -> "terraform"
    [] pod.at = "plan"      -> "report"
    [] pod.at = "report"    -> "graph"
    [] pod.at = "graph"     -> "backend"
    [] pod.at = "backend"   -> "source"
    [] pod.at = "source"    -> IF pod.outcome = "NoChange" THEN "discovery"
                               ELSE "terminal"
    [] pod.at = "discovery" -> "readback"
    [] pod.at = "terminal"  -> "end"

(* The exit code.  A Pod that could not prepare exits with 2. *)
ExitOf(pod, stored) ==
  IF pod.early THEN "2"
  ELSE IF pod.ready /\ ~pod.erred /\ stored THEN "0" ELSE "1"

(* An upload is done; the reference is built from the digest of what is      *)
(* stored, and the one of the discovery only when it has been read back.     *)
Uploaded(pod, content) ==
  [pod EXCEPT !.at = AfterUpload(pod), !.met = FALSE,
              !.refs = IF pod.at \in {"plan", "report", "backend", "source"}
                       THEN [@ EXCEPT ![pod.at] = content] ELSE @,
              !.exit = IF pod.at = "terminal" THEN ExitOf(pod, TRUE) ELSE @]

(* Mutant: the report is treated as the visualization is. *)
FailedSoftly(pod) ==
  CASE pod.at \in {"graph", "report"} -> [pod EXCEPT !.at = AfterUpload(pod), !.met = FALSE]
    [] pod.at = "inputs"   -> [pod EXCEPT !.at = "terminal", !.met = FALSE,
                                          !.outcome = "Failed", !.early = TRUE]
    [] pod.at = "terminal" -> [pod EXCEPT !.at = "end", !.met = FALSE,
                                          !.exit = ExitOf(pod, FALSE)]
    [] OTHER               -> [pod EXCEPT !.at = "terminal", !.met = FALSE, !.ready = FALSE]

(* An upload fails.  The visualization is optional; without another artifact *)
(* the evidence is not ready; without module inputs nothing is executed.     *)
Failed(pod) ==
  CASE pod.at = "graph"    -> [pod EXCEPT !.at = AfterUpload(pod), !.met = FALSE]
    [] pod.at = "inputs"   -> [pod EXCEPT !.at = "terminal", !.met = FALSE,
                                          !.outcome = "Failed", !.early = TRUE]
    [] pod.at = "terminal" -> [pod EXCEPT !.at = "end", !.met = FALSE,
                                          !.exit = ExitOf(pod, FALSE)]
    [] OTHER               -> [pod EXCEPT !.at = "terminal", !.met = FALSE, !.ready = FALSE]

-----------------------------------------------------------------------------
(* The Job. *)

StartPod(p) ==
  /\ pods[p].at = "idle" /\ (p > 1 => pods[p - 1].at # "idle")
  /\ \A q \in Pods : pods[q].exit = "none"
  /\ Becomes(p, [NewPod EXCEPT !.at = "start"])
  /\ NoFault /\ UNCHANGED store

Running(p) == pods[p].at \notin {"idle", "end"}

(* A deadline, an eviction, a lost node. *)
KillPod(p) ==
  /\ Running(p) /\ Fault
  /\ Becomes(p, Blamed([pods[p] EXCEPT !.at = "end", !.met = FALSE, !.exit = "killed"]))
  /\ UNCHANGED store

-----------------------------------------------------------------------------
(* The runner. *)

(* Without Job identity or store it leaves nothing behind. *)
FailToStart(p) ==
  /\ pods[p].at = "start" /\ Fault
  /\ Becomes(p, Blamed([pods[p] EXCEPT !.at = "end", !.exit = "2"]))
  /\ UNCHANGED store

Genuine(key) == store[key].here /\ store[key].bytes = store[key].digest

(* prepareArtifacts restores what an Apply executes, each file checked       *)
(* against its digest.                                                       *)
Prepare(p) ==
  /\ pods[p].at = "start"
  /\ operation = "Plan" \/ Genuine("retained")
  /\ Becomes(p, [pods[p] EXCEPT !.at = "inputs"])
  /\ NoFault /\ UNCHANGED store

(* A bad artifact, input, profile or module, or, after the upload of the     *)
(* inputs, the wrong version of Terraform.                                   *)
FailToPrepare(p) ==
  /\ pods[p].at \in {"start", "terraform"}
  /\ IF pods[p].at = "start" /\ operation # "Plan" /\ ~Genuine("retained")
     THEN NoFault ELSE Fault
  /\ Becomes(p, Blamed([pods[p] EXCEPT !.at = "terminal", !.outcome = "Failed",
                                       !.early = TRUE]))
  /\ UNCHANGED store

(* What the execution leaves in the result.  A Plan whose init fails has the *)
(* exit code 0 and no outcome, so that its artifacts count as ready.         *)
Ends(p, outcome, ready, erred) ==
  /\ pods[p].at = "terraform"
  /\ Becomes(p, [pods[p] EXCEPT !.at = AfterTerraform(outcome), !.outcome = outcome,
                                !.ready = ready, !.erred = erred,
                                !.blamed = @ \/ erred])
  /\ NoFault /\ UNCHANGED store

TerraformSucceeds(p) ==
  IF operation = "Plan"
  THEN \E outcome \in {"NoChange", "ChangesPresent"} : Ends(p, outcome, TRUE, FALSE)
  ELSE Ends(p, "Succeeded", TRUE, FALSE)

TerraformFails(p) == Ends(p, "Failed", FALSE, TRUE)

InitFails(p) == operation = "Plan" /\ Ends(p, "", TRUE, TRUE)

-----------------------------------------------------------------------------
(* PutImmutable. *)

Uploading(p) == pods[p].at \in Uploads /\ ~pods[p].met

(* Mutant: the put has no condition. *)
FreeForAll(key) == TRUE

(* IfNoneMatch is "*". *)
Free(key) == ~store[key].here

Put(p) ==
  store' = [store EXCEPT ![pods[p].at] = Holding(ContentOf(p, pods[p].at))]

Create(p) ==
  /\ Uploading(p) /\ Free(pods[p].at) /\ Put(p)
  /\ Becomes(p, Uploaded(pods[p], ContentOf(p, pods[p].at)))
  /\ NoFault

(* The answer is lost after the object was stored: the request is repeated.  *)
LoseAnswer(p) ==
  /\ Uploading(p) /\ Free(pods[p].at) /\ Put(p) /\ Fault
  /\ UNCHANGED pods

(* The request fails for good, whether or not an earlier try took effect. *)
FailToPut(p) ==
  /\ Uploading(p) /\ Fault
  /\ Becomes(p, Blamed(Failed(pods[p])))
  /\ UNCHANGED store

(* The precondition failed: what is there? *)
Meet(p) ==
  /\ Uploading(p) /\ ~Free(pods[p].at)
  /\ Becomes(p, [pods[p] EXCEPT !.met = TRUE])
  /\ NoFault /\ UNCHANGED store

(* Mutant: whatever is there is taken for the same. *)
Identical(p) == Genuine(pods[p].at)

(* Mutant: a key that is taken is an error. *)
NeverIdentical(p) == FALSE

(* The digest in the metadata is that of the content to be stored, and the   *)
(* bytes have it.                                                            *)
SameContent(p) ==
  /\ Genuine(pods[p].at)
  /\ store[pods[p].at].digest = ContentOf(p, pods[p].at)

Compare(p) ==
  /\ pods[p].met
  /\ Becomes(p, IF SameContent(p) THEN Uploaded(pods[p], store[pods[p].at].digest)
                ELSE Failed(pods[p]))
  /\ NoFault /\ UNCHANGED store

FailToCompare(p) ==
  /\ pods[p].met /\ Fault
  /\ Becomes(p, Blamed(Failed(pods[p])))
  /\ UNCHANGED store

-----------------------------------------------------------------------------
(* The discovery is read back for its digest.  Without it the result stays   *)
(* ready.                                                                    *)
ReadBack(p) ==
  /\ pods[p].at = "readback" /\ Genuine("discovery")
  /\ Becomes(p, [pods[p] EXCEPT !.at = "terminal",
                                !.refs["discovery"] = store["discovery"].digest])
  /\ NoFault /\ UNCHANGED store

FailToReadBack(p) ==
  /\ pods[p].at = "readback"
  /\ IF Genuine("discovery") THEN Fault ELSE NoFault
  /\ Becomes(p, Blamed([pods[p] EXCEPT !.at = "terminal"]))
  /\ UNCHANGED store

(* A Destroy keeps the discovery of the Apply it undoes. *)
Retain(p) ==
  /\ pods[p].at = "retained" /\ Genuine("retained")
  /\ Becomes(p, [pods[p] EXCEPT !.at = "terminal", !.refs["discovery"] = Same])
  /\ NoFault /\ UNCHANGED store

FailToRetain(p) ==
  /\ pods[p].at = "retained"
  /\ IF Genuine("retained") THEN Fault ELSE NoFault
  /\ Becomes(p, Blamed([pods[p] EXCEPT !.at = "terminal", !.ready = FALSE]))
  /\ UNCHANGED store

-----------------------------------------------------------------------------
(* Bytes rot in the store. *)
Damage(key) ==
  /\ Genuine(key) /\ faults < MaxFaults
  /\ store' = [store EXCEPT ![key].bytes = Spoiled]
  /\ damaged' = TRUE /\ faults' = faults + 1
  /\ UNCHANGED <<operation, pods>>

PodStep(p) ==
  \/ Prepare(p) \/ FailToPrepare(p) \/ FailToStart(p)
  \/ TerraformSucceeds(p) \/ TerraformFails(p) \/ InitFails(p)
  \/ Create(p) \/ LoseAnswer(p) \/ FailToPut(p)
  \/ Meet(p) \/ Compare(p) \/ FailToCompare(p)
  \/ ReadBack(p) \/ FailToReadBack(p) \/ Retain(p) \/ FailToRetain(p)

RunnerNext ==
  \/ \E p \in Pods : StartPod(p) \/ PodStep(p) \/ KillPod(p)
  \/ \E key \in Keys : Damage(key)

RunnerSpec == RunnerInit /\ [][RunnerNext]_runnerVars

-----------------------------------------------------------------------------
(* verifyTerminalEvidence *)

Author == store["terminal"].bytes

(* A reference is a key and the digest it must have. *)
Refs ==
  LET refs == pods[Author].refs
  IN  {<<"inputs", Same>>}
        \cup (IF operation = "Plan"
              THEN {<<k, refs[k]>> : k \in {"plan", "report", "backend", "source"}}
              ELSE {<<"retained", Same>>})
        \cup (IF pods[Author].outcome \in {"NoChange", "Succeeded"}
              THEN {<<IF operation = "Destroy" THEN "retained" ELSE "discovery",
                      refs["discovery"]>>}
              ELSE {})

Verified(ref) ==
  ref[2] # Missing /\ store[ref[1]].here /\ store[ref[1]].bytes = ref[2]

Accepts ==
  /\ Genuine("terminal") /\ Author \in Pods
  /\ pods[Author].outcome # ""
  /\ pods[Author].ready => \A ref \in Refs : Verified(ref)

-----------------------------------------------------------------------------
(* The store and the Pods keep their types, and an object carries the digest *)
(* of what one of the Pods uploads under its key (PutImmutable).             *)
RunnerTypeOK ==
  /\ operation \in Operations
  /\ store \in [Keys -> Object] /\ pods \in [Pods -> Pod]
  /\ faults \in 0..MaxFaults /\ damaged \in BOOLEAN
  /\ \A k \in Uploads : store[k].here =>
       \E p \in Pods : store[k].digest = ContentOf(p, k)

(* What was stored stays: no attempt replaces what another one, or an        *)
(* earlier try of the same one, has stored (PutImmutable).                   *)
StoredStays ==
  [][\A k \in Keys : store[k].here => store'[k].digest = store[k].digest]_runnerVars

(* Evidence that is accepted as ready was made by one attempt, although      *)
(* several may upload to the same keys: every artifact is the one that       *)
(* attempt made, or one that is the same in all of them.                     *)
AcceptedIsOneAttempt ==
  Accepts /\ pods[Author].ready =>
    \A ref \in Refs : store[ref[1]].bytes = ContentOf(Author, ref[1])

(* Evidence is accepted unless objects were damaged, with two exceptions: a  *)
(* Plan whose init failed claims to be ready, and so does a result whose     *)
(* discovery could not be read back (main.go 193, 216-219, 280-283).  The    *)
(* Pod that exits with 0 is the one whose evidence it is.                    *)
EvidenceIsAccepted ==
  /\ store["terminal"].here /\ ~damaged =>
       \/ Accepts
       \/ pods[Author].ready /\ pods[Author].outcome = ""
       \/ pods[Author].ready /\ pods[Author].refs["discovery"] = Missing
  /\ \A p \in Pods :
       pods[p].exit = "0" /\ ~damaged =>
         store["terminal"].here /\ Author = p /\ pods[p].outcome \notin {"", "Failed"}

(* An attempt that is alone fails only because something failed: a repeated  *)
(* request that meets its own object is no failure (PutImmutable).           *)
FailsForAReason ==
  \A p \in Pods :
    pods[p].exit \notin {"none", "0"} =>
      pods[p].blamed \/ damaged \/ \E q \in Pods \ {p} : pods[q].at # "idle"
=============================================================================
