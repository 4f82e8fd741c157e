----------------------------- MODULE RunnerProofs -----------------------------
(***************************************************************************)
(* Proofs about Runner, for any number of Pods and of faults: what is      *)
(* stored stays as it is; evidence that is accepted as ready was made by   *)
(* one attempt; undamaged evidence is accepted; and an attempt that is     *)
(* alone fails only for a reason.                                          *)
(***************************************************************************)
EXTENDS Runner, TLAPS

RefKeys == {"plan", "report", "backend", "source", "discovery"}

TypeInv ==
  /\ operation \in Operations
  /\ store \in [Keys -> Object] /\ pods \in [Pods -> Pod]
  /\ faults \in 0..MaxFaults /\ damaged \in BOOLEAN

(* A Pod that has met its object is still at the upload, and it is there.    *)
MetInv ==
  \A p \in Pods : pods[p].met =>
    pods[p].at \in Uploads /\ store[pods[p].at].here

(* An object carries the digest of what a Pod that has started uploads under *)
(* its key.                                                                  *)
AuthorInv ==
  \A k \in Uploads : store[k].here =>
    \E p \in Pods : pods[p].at # "idle" /\ store[k].digest = ContentOf(p, k)

(* What a Pod refers to it has made itself, or it is the same for all; and   *)
(* what it is about to refer to is that, too.                                *)
SoundPod(p, pod) ==
  /\ \A k \in RefKeys : pod.refs[k] \in {Missing, ContentOf(p, k)}
  /\ pod.at = "readback" =>
       /\ store["discovery"].here
       /\ store["discovery"].digest = ContentOf(p, "discovery")
  /\ pod.at = "retained" => operation = "Destroy"

SoundInv == \A p \in Pods : SoundPod(p, pods[p])

-----------------------------------------------------------------------------
(* The content of any Pod and key is one of the contents, and is not         *)
(* Missing.                                                                  *)
LEMMA ContentTyped ==
  \A p \in Pods, k \in Keys : ContentOf(p, k) \in Contents \ {Missing}
BY RunnerAssumption DEF ContentOf, Pods, Contents, Missing, Spoiled, Same

(* A Pod that goes on after an upload is still a Pod.                        *)
LEMMA UploadedTyped ==
  ASSUME NEW pod \in Pod, pod.at \in Uploads, NEW content \in Contents
  PROVE  Uploaded(pod, content) \in Pod
<1> DEFINE
  at == AfterUpload(pod)
  refs == IF pod.at \in {"plan", "report", "backend", "source"}
          THEN [pod.refs EXCEPT ![pod.at] = content] ELSE pod.refs
  exit == IF pod.at = "terminal" THEN ExitOf(pod, TRUE) ELSE pod.exit
<1>1. at \in Uploads \cup {"terraform", "readback", "end"}
  BY DEF AfterUpload, Uploads
<1>2. refs \in [RefKeys -> Contents]
  BY DEF Pod, RefKeys
<1>3. exit \in {"none", "0", "1", "2", "killed"}
  BY DEF ExitOf, Pod
<1>4. Uploaded(pod, content) =
        [pod EXCEPT !.at = at, !.met = FALSE, !.refs = refs, !.exit = exit]
  BY DEF Uploaded
<1> HIDE DEF at, refs, exit
<1> QED
  BY <1>1, <1>2, <1>3, <1>4 DEF Pod, RefKeys

(* So is one whose upload has failed.                                        *)
LEMMA FailedTyped ==
  ASSUME NEW pod \in Pod, pod.at \in Uploads
  PROVE  Failed(pod) \in Pod /\ Blamed(Failed(pod)) \in Pod
<1> DEFINE next == AfterUpload(pod)  exit == ExitOf(pod, FALSE)
<1>1. next \in Uploads \cup {"terraform", "readback", "end"}
  BY DEF AfterUpload, Uploads
<1>2. exit \in {"0", "1", "2"}
  BY DEF ExitOf
<1>3. [pod EXCEPT !.at = next, !.met = FALSE] \in Pod
  BY <1>1 DEF Pod, Uploads
<1>4. [pod EXCEPT !.at = "end", !.met = FALSE, !.exit = exit] \in Pod
  BY <1>2 DEF Pod, Uploads
<1>5. /\ [pod EXCEPT !.at = "terminal", !.met = FALSE,
                     !.outcome = "Failed", !.early = TRUE] \in Pod
      /\ [pod EXCEPT !.at = "terminal", !.met = FALSE, !.ready = FALSE] \in Pod
  BY DEF Pod, Uploads
<1>6. Failed(pod) \in Pod
  <2> HIDE DEF next, exit
  <2>1. CASE pod.at = "graph"
    BY <1>3, <2>1 DEF Failed, next
  <2>2. CASE pod.at = "inputs"
    BY <1>5, <2>2 DEF Failed
  <2>3. CASE pod.at = "terminal"
    BY <1>4, <2>3 DEF Failed, exit
  <2>4. CASE pod.at \notin {"graph", "inputs", "terminal"}
    BY <1>5, <2>4 DEF Failed
  <2> QED
    BY <2>1, <2>2, <2>3, <2>4
<1> QED
  BY <1>6 DEF Blamed, Pod

(* What is put under a key is an object.                                     *)
LEMMA HoldingTyped ==
  \A c \in Contents : Holding(c) \in Object
BY DEF Holding, Object

(* Every step keeps the types.                                               *)
LEMMA TypeStep ==
  TypeInv /\ MetInv /\ [RunnerNext]_runnerVars => TypeInv'
<1> SUFFICES ASSUME TypeInv, MetInv, [RunnerNext]_runnerVars PROVE TypeInv'
  OBVIOUS
<1> USE RunnerAssumption DEF TypeInv
<1>1. ASSUME NEW p \in Pods, StartPod(p) PROVE TypeInv'
  <2>1. NewPod \in Pod
    <3>1. [k \in RefKeys |-> Missing] \in [RefKeys -> Contents]
      BY DEF Contents, Missing, Spoiled
    <3> QED
      BY <3>1 DEF NewPod, Pod, RefKeys
  <2>2. [NewPod EXCEPT !.at = "start"] \in Pod
    BY <2>1 DEF Pod
  <2> QED
    BY <1>1, <2>2 DEF StartPod, Becomes, NoFault
<1>2. ASSUME NEW p \in Pods, KillPod(p) PROVE TypeInv'
  <2>1. PICK pod \in Pod : pod = pods[p]
    OBVIOUS
  <2>2. [pod EXCEPT !.at = "end", !.met = FALSE, !.exit = "killed"] \in Pod
    BY DEF Pod
  <2>3. \A new \in Pod : Blamed(new) \in Pod
    BY DEF Blamed, Pod
  <2> QED
    BY <1>2, <2>1, <2>2, <2>3 DEF KillPod, Becomes, Fault
<1>3. ASSUME NEW p \in Pods, PodStep(p) PROVE TypeInv'
  <2> pods[p] \in Pod
    OBVIOUS
  <2>1. CASE Prepare(p)
    <3>1. [pods[p] EXCEPT !.at = "inputs"] \in Pod
      BY DEF Pod, Uploads
    <3> QED
      BY <2>1, <3>1 DEF Prepare, Becomes, NoFault
  <2>2. CASE FailToPrepare(p)
    <3>1. Blamed([pods[p] EXCEPT !.at = "terminal", !.outcome = "Failed",
                                 !.early = TRUE]) \in Pod
      BY DEF Blamed, Pod, Uploads
    <3> QED
      BY <2>2, <3>1 DEF FailToPrepare, Becomes, NoFault, Fault
  <2>3. CASE FailToStart(p)
    <3>1. Blamed([pods[p] EXCEPT !.at = "end", !.exit = "2"]) \in Pod
      BY DEF Blamed, Pod
    <3> QED
      BY <2>3, <3>1 DEF FailToStart, Becomes, Fault
  <2>4. ASSUME NEW outcome \in {"", "NoChange", "ChangesPresent", "Succeeded", "Failed"},
               NEW ready \in BOOLEAN, NEW erred \in BOOLEAN,
               Ends(p, outcome, ready, erred)
        PROVE  TypeInv'
    <3>1. AfterTerraform(outcome) \in Uploads \cup {"retained"}
      BY DEF AfterTerraform, Uploads
    <3>2. PICK blamed \in BOOLEAN : blamed = (pods[p].blamed \/ erred)
      OBVIOUS
    <3>3. PICK at \in Uploads \cup {"retained"} : at = AfterTerraform(outcome)
      BY <3>1
    <3>4. [pods[p] EXCEPT !.at = at, !.outcome = outcome, !.ready = ready,
                          !.erred = erred, !.blamed = blamed] \in Pod
      BY DEF Pod
    <3>5. /\ pods' = [pods EXCEPT ![p] = [pods[p] EXCEPT !.at = at,
                          !.outcome = outcome, !.ready = ready, !.erred = erred,
                          !.blamed = blamed]]
          /\ UNCHANGED <<operation, faults, damaged, store>>
      BY <2>4, <3>2, <3>3 DEF Ends, Becomes, NoFault
    <3> QED
      BY <3>4, <3>5
  <2>5. CASE TerraformSucceeds(p) \/ TerraformFails(p) \/ InitFails(p)
    BY <2>4, <2>5 DEF TerraformSucceeds, TerraformFails, InitFails
  <2>6. ASSUME Uploading(p) PROVE pods[p].at \in Uploads
    BY <2>6 DEF Uploading
  <2>7. ASSUME NEW k \in Keys PROVE Holding(ContentOf(p, k)) \in Object
    BY ContentTyped, HoldingTyped
  <2>8. Uploads \subseteq Keys
    BY DEF Uploads, Keys
  <2>9. CASE Create(p)
    <3>1. Uploaded(pods[p], ContentOf(p, pods[p].at)) \in Pod
      BY <2>6, <2>8, <2>9, ContentTyped, UploadedTyped DEF Create
    <3> QED
      BY <2>6, <2>7, <2>8, <2>9, <3>1 DEF Create, Put, Becomes, NoFault
  <2>10. CASE LoseAnswer(p)
    BY <2>6, <2>7, <2>8, <2>10 DEF LoseAnswer, Put, Fault
  <2>11. CASE FailToPut(p)
    BY <2>6, <2>11, FailedTyped DEF FailToPut, Becomes, Fault
  <2>12. CASE Meet(p)
    BY <2>12 DEF Meet, Becomes, NoFault, Pod
  <2>13. CASE Compare(p)
    <3>1. pods[p].at \in Keys /\ store[pods[p].at].digest \in Contents
      BY <2>8, <2>13 DEF Compare, Object, MetInv
    <3>2. /\ Uploaded(pods[p], store[pods[p].at].digest) \in Pod
          /\ Failed(pods[p]) \in Pod
      BY <2>13, <3>1, UploadedTyped, FailedTyped DEF Compare, MetInv
    <3> QED
      BY <2>13, <3>2 DEF Compare, Becomes, NoFault
  <2>14. CASE FailToCompare(p)
    BY <2>14, FailedTyped DEF FailToCompare, Becomes, Fault, MetInv
  <2>15. CASE ReadBack(p)
    <3>1. store["discovery"].digest \in Contents
      BY DEF Object, Keys
    <3>2. [pods[p] EXCEPT !.at = "terminal",
                          !.refs["discovery"] = store["discovery"].digest] \in Pod
      BY <3>1 DEF Pod, Uploads
    <3> QED
      BY <2>15, <3>2 DEF ReadBack, Becomes, NoFault
  <2>16. CASE FailToReadBack(p)
    <3>1. Blamed([pods[p] EXCEPT !.at = "terminal"]) \in Pod
      BY DEF Blamed, Pod, Uploads
    <3> QED
      BY <2>16, <3>1 DEF FailToReadBack, Becomes, NoFault, Fault
  <2>17. CASE Retain(p)
    <3>1. Same \in Contents
      BY DEF Contents, Same, Spoiled
    <3>2. [pods[p] EXCEPT !.at = "terminal", !.refs["discovery"] = Same] \in Pod
      BY <3>1 DEF Pod, Uploads
    <3> QED
      BY <2>17, <3>2 DEF Retain, Becomes, NoFault
  <2>18. CASE FailToRetain(p)
    <3>1. Blamed([pods[p] EXCEPT !.at = "terminal", !.ready = FALSE]) \in Pod
      BY DEF Blamed, Pod, Uploads
    <3> QED
      BY <2>18, <3>1 DEF FailToRetain, Becomes, NoFault, Fault
  <2> QED
    BY <1>3, <2>1, <2>2, <2>3, <2>5, <2>9, <2>10, <2>11, <2>12, <2>13, <2>14,
       <2>15, <2>16, <2>17, <2>18 DEF PodStep
<1>4. ASSUME NEW key \in Keys, Damage(key) PROVE TypeInv'
  BY <1>4 DEF Damage, Object, Contents, Spoiled
<1>5. CASE UNCHANGED runnerVars
  BY <1>5 DEF runnerVars
<1> QED
  BY <1>1, <1>2, <1>3, <1>4, <1>5 DEF RunnerNext

-----------------------------------------------------------------------------
(* The store *)

(* A step creates an object, as the Pod that uploads it has it, damages one, *)
(* or leaves the store as it is.                                             *)
StoreStep ==
  /\ operation' = operation
  /\ damaged' # damaged => \E key \in Keys : Damage(key)
  /\ \/ UNCHANGED store
     \/ \E p \in Pods : Uploading(p) /\ Free(pods[p].at) /\ Put(p)
     \/ \E key \in Keys : Damage(key)

LEMMA StoreSteps ==
  [RunnerNext]_runnerVars => StoreStep
<1> SUFFICES ASSUME [RunnerNext]_runnerVars PROVE StoreStep
  OBVIOUS
<1>1. ASSUME NEW p \in Pods, StartPod(p) \/ KillPod(p) PROVE StoreStep
  BY <1>1 DEF StartPod, KillPod, NoFault, Fault, StoreStep
<1>2. ASSUME NEW p \in Pods, PodStep(p) PROVE StoreStep
  <2>1. CASE Create(p) \/ LoseAnswer(p)
    BY <2>1 DEF Create, LoseAnswer, NoFault, Fault, StoreStep
  <2>2. CASE ~(Create(p) \/ LoseAnswer(p))
    BY <1>2, <2>2 DEF PodStep, Prepare, FailToPrepare, FailToStart,
       TerraformSucceeds, TerraformFails, InitFails, Ends, FailToPut, Meet, Compare,
       FailToCompare, ReadBack, FailToReadBack, Retain, FailToRetain, NoFault, Fault,
       StoreStep
  <2> QED
    BY <2>1, <2>2
<1>3. ASSUME NEW key \in Keys, Damage(key) PROVE StoreStep
  BY <1>3 DEF Damage, StoreStep
<1>4. CASE UNCHANGED runnerVars
  BY <1>4 DEF runnerVars, StoreStep
<1> QED
  BY <1>1, <1>2, <1>3, <1>4 DEF RunnerNext

(* What is there keeps its digest.                                           *)
LEMMA DigestsStay ==
  ASSUME TypeInv, StoreStep, NEW k \in Keys, store[k].here
  PROVE  store'[k].here /\ store'[k].digest = store[k].digest
<1>1. CASE UNCHANGED store
  BY <1>1
<1>2. ASSUME NEW p \in Pods, Uploading(p), Free(pods[p].at), Put(p)
      PROVE  store'[k] = store[k]
  BY <1>2 DEF TypeInv, Free, Put
<1>3. ASSUME NEW key \in Keys, Damage(key)
      PROVE  store'[k].here /\ store'[k].digest = store[k].digest
  BY <1>3 DEF TypeInv, Damage, Object
<1> QED
  BY <1>1, <1>2, <1>3 DEF StoreStep

(* A Pod does not start twice, and only an upload that finds its key taken   *)
(* has met its object.                                                       *)
Onward ==
  \A p \in Pods :
    /\ pods[p].at # "idle" => pods'[p].at # "idle"
    /\ pods'[p].met => /\ pods[p].at \in Uploads /\ pods'[p].at = pods[p].at
                       /\ ~Free(pods[p].at)

LEMMA OnwardStep ==
  TypeInv /\ MetInv /\ [RunnerNext]_runnerVars => Onward
<1> SUFFICES ASSUME TypeInv, MetInv, [RunnerNext]_runnerVars PROVE Onward
  OBVIOUS
<1> USE DEF TypeInv, MetInv, Onward, Free
<1>0. ASSUME NEW pod \in Pod, pod.at \in Uploads
      PROVE  /\ AfterUpload(pod) # "idle"
             /\ Failed(pod).at # "idle" /\ Blamed(Failed(pod)).at # "idle"
  BY <1>0 DEF AfterUpload, Failed, Blamed, Pod, Uploads
<1>1. ASSUME NEW p \in Pods, StartPod(p) PROVE Onward
  BY <1>1 DEF StartPod, Becomes, NewPod
<1>2. ASSUME NEW p \in Pods, KillPod(p) PROVE Onward
  BY <1>2 DEF KillPod, Running, Becomes, Blamed, Pod
<1>3. ASSUME NEW p \in Pods, PodStep(p) PROVE Onward
  <2> pods[p] \in Pod
    OBVIOUS
  <2>1. CASE Prepare(p) \/ FailToPrepare(p) \/ FailToStart(p)
    <3>1. pods[p].at \notin Uploads /\ ~pods[p].met
      BY <2>1 DEF Prepare, FailToPrepare, FailToStart, Uploads
    <3>2. CASE Prepare(p)
      BY <3>1, <3>2 DEF Prepare, Becomes, Pod
    <3>3. CASE FailToPrepare(p)
      BY <3>1, <3>3 DEF FailToPrepare, Becomes, Blamed, Pod
    <3>4. CASE FailToStart(p)
      BY <3>1, <3>4 DEF FailToStart, Becomes, Blamed, Pod
    <3> QED
      BY <2>1, <3>2, <3>3, <3>4
  <2>2. CASE TerraformSucceeds(p) \/ TerraformFails(p) \/ InitFails(p)
    <3>1. ASSUME NEW outcome, NEW ready, NEW erred, Ends(p, outcome, ready, erred)
          PROVE  Onward
      <4>1. pods[p].at \notin Uploads /\ ~pods[p].met
        BY <3>1 DEF Ends, Uploads
      <4>2. AfterTerraform(outcome) # "idle"
        BY DEF AfterTerraform
      <4> QED
        BY <3>1, <4>1, <4>2 DEF Ends, Becomes, Pod
    <3> QED
      BY <2>2, <3>1 DEF TerraformSucceeds, TerraformFails, InitFails
  <2>3. CASE Create(p)
    BY <1>0, <2>3 DEF Create, Uploading, Becomes, Uploaded, Pod
  <2>4. CASE LoseAnswer(p)
    BY <2>4 DEF LoseAnswer
  <2>5. ASSUME NEW pod \in Pod PROVE ~Failed(pod).met /\ ~Blamed(Failed(pod)).met
    BY DEF Failed, Blamed, Pod
  <2>6. CASE FailToPut(p) \/ FailToCompare(p)
    BY <1>0, <2>5, <2>6 DEF FailToPut, FailToCompare, Uploading, Becomes
  <2>7. CASE Meet(p)
    BY <2>7 DEF Meet, Becomes, Uploading, Pod
  <2>8. CASE Compare(p)
    BY <1>0, <2>5, <2>8 DEF Compare, Becomes, Uploaded, Pod
  <2>9. CASE ReadBack(p) \/ FailToReadBack(p) \/ Retain(p) \/ FailToRetain(p)
    <3>1. pods[p].at \notin Uploads /\ ~pods[p].met
      BY <2>9 DEF ReadBack, FailToReadBack, Retain, FailToRetain, Uploads
    <3>2. CASE ReadBack(p)
      BY <3>1, <3>2 DEF ReadBack, Becomes, Pod
    <3>3. CASE Retain(p)
      BY <3>1, <3>3 DEF Retain, Becomes, Pod
    <3>4. CASE FailToReadBack(p)
      BY <3>1, <3>4 DEF FailToReadBack, Becomes, Blamed, Pod
    <3>5. CASE FailToRetain(p)
      BY <3>1, <3>5 DEF FailToRetain, Becomes, Blamed, Pod
    <3> QED
      BY <2>9, <3>2, <3>3, <3>4, <3>5
  <2> QED
    BY <1>3, <2>1, <2>2, <2>3, <2>4, <2>6, <2>7, <2>8, <2>9 DEF PodStep
<1>4. ASSUME NEW key \in Keys, Damage(key) PROVE Onward
  BY <1>4 DEF Damage
<1>5. CASE UNCHANGED runnerVars
  BY <1>5 DEF runnerVars
<1> QED
  BY <1>1, <1>2, <1>3, <1>4, <1>5 DEF RunnerNext

(* What a Pod has met stays.                                                 *)
LEMMA MetStep ==
  TypeInv /\ MetInv /\ [RunnerNext]_runnerVars => MetInv'
<1> SUFFICES ASSUME TypeInv, MetInv, [RunnerNext]_runnerVars,
                    NEW p \in Pods, pods'[p].met
             PROVE  pods'[p].at \in Uploads /\ store'[pods'[p].at].here
  BY DEF MetInv
<1>1. pods[p].at \in Uploads /\ pods'[p].at = pods[p].at /\ store[pods[p].at].here
  BY OnwardStep DEF Onward, Free
<1>2. pods[p].at \in Keys
  BY <1>1 DEF Uploads, Keys
<1> QED
  BY <1>1, <1>2, StoreSteps, DigestsStay

(* What one Pod has made itself does not change by what others do.           *)
LEMMA SoundStays ==
  ASSUME TypeInv, StoreStep, NEW p \in Pods, NEW pod, SoundPod(p, pod)
  PROVE  SoundPod(p, pod)'
<1>1. "discovery" \in Keys
  BY DEF Keys
<1>2. operation' = operation
  BY DEF StoreStep
<1>3. \A k \in Keys : ContentOf(p, k)' = ContentOf(p, k)
  BY <1>2 DEF ContentOf
<1>4. RefKeys \subseteq Keys
  BY DEF RefKeys, Keys
<1> QED
  BY <1>1, <1>2, <1>3, <1>4, DigestsStay DEF SoundPod

(* It is enough to look at the Pod that takes the step.                      *)
LEMMA SoundSuffices ==
  ASSUME TypeInv, SoundInv, StoreStep,
         NEW p \in Pods, NEW new, pods' = [pods EXCEPT ![p] = new],
         SoundPod(p, new)'
  PROVE  SoundInv'
BY SoundStays DEF SoundInv, TypeInv

(* A Pod that keeps its references and is not about to refer to a discovery  *)
(* stays sound.                                                              *)
LEMMA SoundKept ==
  ASSUME TypeInv, StoreStep, NEW p \in Pods, NEW pod, SoundPod(p, pod),
         NEW new, new.refs = pod.refs, new.at \notin {"readback", "retained"}
  PROVE  SoundPod(p, new)'
<1>1. SoundPod(p, pod)'
  BY SoundStays
<1> QED
  BY <1>1 DEF SoundPod

(* An upload whose object is there refers to it.                             *)
LEMMA SoundUploaded ==
  ASSUME TypeInv, StoreStep, NEW p \in Pods, NEW pod \in Pod, SoundPod(p, pod),
         pod.at \in Uploads, store'[pod.at].here,
         store'[pod.at].digest = ContentOf(p, pod.at),
         NEW content, content = ContentOf(p, pod.at),
         NEW new, new = Uploaded(pod, content)
  PROVE  SoundPod(p, new)'
<1>1. SoundPod(p, pod)'
  BY SoundStays
<1>2. \A k \in Keys : ContentOf(p, k)' = ContentOf(p, k)
  BY DEF ContentOf, StoreStep
<1>3. /\ new.at = AfterUpload(pod)
      /\ new.refs = IF pod.at \in {"plan", "report", "backend", "source"}
                    THEN [pod.refs EXCEPT ![pod.at] = content] ELSE pod.refs
  BY DEF Uploaded, Pod
<1>4. ASSUME NEW k \in RefKeys PROVE new.refs[k] \in {Missing, ContentOf(p, k)'}
  <2>1. pod.refs[k] \in {Missing, ContentOf(p, k)'}
    BY <1>1 DEF SoundPod
  <2>2. new.refs[k] = pod.refs[k] \/ (k = pod.at /\ new.refs[k] = content)
    BY <1>3 DEF RefKeys, Pod
  <2>3. k \in Keys
    BY DEF RefKeys, Keys
  <2> QED
    BY <1>2, <2>1, <2>2, <2>3
<1>5. new.at # "retained" /\ (new.at = "readback" => pod.at = "discovery")
  BY <1>3 DEF AfterUpload, Uploads
<1> QED
  BY <1>2, <1>4, <1>5 DEF SoundPod, Keys

(* Each Pod keeps to what it has made itself.                                *)
LEMMA SoundStep ==
  TypeInv /\ MetInv /\ SoundInv /\ [RunnerNext]_runnerVars => SoundInv'
<1> SUFFICES ASSUME TypeInv, MetInv, SoundInv, [RunnerNext]_runnerVars
             PROVE  SoundInv'
  OBVIOUS
<1>0. StoreStep
  BY StoreSteps
<1>1. ASSUME UNCHANGED pods PROVE SoundInv'
  BY <1>0, <1>1, SoundStays DEF SoundInv
<1>2. ASSUME NEW p \in Pods, NEW new, Becomes(p, new),
             new.refs = pods[p].refs, new.at \notin {"readback", "retained"}
      PROVE  SoundInv'
  <2>1. PICK pod : pod = pods[p]
    OBVIOUS
  <2>2. SoundPod(p, new)'
    BY <1>0, <1>2, <2>1, SoundKept DEF SoundInv
  <2> QED
    BY <1>0, <1>2, <2>2, SoundSuffices DEF Becomes
<1>3. ASSUME NEW p \in Pods, StartPod(p) PROVE SoundInv'
  <2>1. PICK new : new = [NewPod EXCEPT !.at = "start"]
    OBVIOUS
  <2>2. SoundPod(p, new)'
    BY <2>1 DEF SoundPod, NewPod, RefKeys
  <2> QED
    BY <1>0, <1>3, <2>1, <2>2, SoundSuffices DEF StartPod, Becomes
<1>4. ASSUME NEW p \in Pods, KillPod(p) PROVE SoundInv'
  BY <1>2, <1>4 DEF TypeInv, KillPod, Blamed, Pod
<1>5. ASSUME NEW p \in Pods, PodStep(p) PROVE SoundInv'
  <2>0. PICK pod \in Pod : pod = pods[p]
    BY DEF TypeInv
  <2>1. SoundPod(p, pod)
    BY <2>0 DEF SoundInv
  <2>2. SoundPod(p, pod)'
    BY <1>0, <2>1, SoundStays
  <2>3. ASSUME NEW new, Becomes(p, new), SoundPod(p, new)' PROVE SoundInv'
    BY <1>0, <2>3, SoundSuffices DEF Becomes
  <2>4. CASE Prepare(p)
    BY <1>2, <2>0, <2>4 DEF Prepare, Pod
  <2>5. CASE FailToPrepare(p)
    BY <1>2, <2>0, <2>5 DEF FailToPrepare, Blamed, Pod
  <2>6. CASE FailToStart(p)
    BY <1>2, <2>0, <2>6 DEF FailToStart, Blamed, Pod
  <2>7. ASSUME NEW outcome, NEW ready, NEW erred, Ends(p, outcome, ready, erred)
        PROVE  SoundInv'
    <3>0. PICK blamed : blamed = (pod.blamed \/ erred)
      OBVIOUS
    <3>1. PICK new : new = [pod EXCEPT !.at = AfterTerraform(outcome),
                              !.outcome = outcome, !.ready = ready,
                              !.erred = erred, !.blamed = blamed]
      OBVIOUS
    <3>2. /\ new.refs = pod.refs
          /\ new.at \in {"plan", "discovery", "terminal"}
               \/ (new.at = "retained" /\ operation = "Destroy")
      <4>1. AfterTerraform(outcome) \in {"plan", "discovery", "terminal"}
              \/ (AfterTerraform(outcome) = "retained" /\ operation = "Destroy")
        BY DEF AfterTerraform
      <4>2. new.refs = pod.refs /\ new.at = AfterTerraform(outcome)
        BY <3>1 DEF Pod
      <4> QED
        BY <4>1, <4>2
    <3>3. SoundPod(p, new)'
      BY <1>0, <2>2, <3>2 DEF SoundPod, StoreStep
    <3> QED
      BY <2>0, <2>3, <2>7, <3>0, <3>1, <3>3 DEF Ends
  <2>8. CASE TerraformSucceeds(p) \/ TerraformFails(p) \/ InitFails(p)
    BY <2>7, <2>8 DEF TerraformSucceeds, TerraformFails, InitFails
  <2>9. CASE Create(p)
    <3>1. pod.at \in Uploads /\ pod.at \in Keys
      BY <2>0, <2>9 DEF Create, Uploading, Uploads, Keys
    <3>2. store'[pod.at] = Holding(ContentOf(p, pod.at))
      BY <2>0, <2>9, <3>1 DEF Create, Put, TypeInv
    <3>3. PICK content : content = ContentOf(p, pod.at)
      OBVIOUS
    <3>4. PICK new : new = Uploaded(pod, content)
      OBVIOUS
    <3>5. SoundPod(p, new)'
      BY <1>0, <2>1, <3>1, <3>2, <3>3, <3>4, SoundUploaded DEF Holding
    <3> QED
      BY <2>0, <2>3, <2>9, <3>3, <3>4, <3>5 DEF Create
  <2>10. CASE LoseAnswer(p)
    BY <1>1, <2>10 DEF LoseAnswer
  <2>11. /\ Failed(pod).refs = pod.refs
         /\ Blamed(Failed(pod)).refs = pod.refs
    BY DEF Failed, Blamed, Pod
  <2>12. pod.at \in Uploads =>
           /\ Failed(pod).at \notin {"readback", "retained"}
           /\ Blamed(Failed(pod)).at \notin {"readback", "retained"}
    BY DEF Failed, Blamed, Pod, AfterUpload
  <2>13. CASE FailToPut(p)
    BY <1>2, <2>0, <2>11, <2>12, <2>13 DEF FailToPut, Uploading
  <2>14. CASE FailToCompare(p)
    BY <1>2, <2>0, <2>11, <2>12, <2>14 DEF FailToCompare, MetInv
  <2>15. CASE Meet(p)
    <3>1. [pod EXCEPT !.met = TRUE].refs = pod.refs
      BY DEF Pod
    <3>2. [pod EXCEPT !.met = TRUE].at \notin {"readback", "retained"}
      BY <2>0, <2>15 DEF Meet, Uploading, Uploads, Pod
    <3> QED
      BY <1>2, <2>0, <2>15, <3>1, <3>2 DEF Meet
  <2>16. CASE Compare(p)
    <3>1. pod.at \in Uploads /\ pod.at \in Keys
      BY <2>0, <2>16 DEF Compare, MetInv, Uploads, Keys
    <3>2. CASE SameContent(p)
      <4>1. /\ store[pod.at].here /\ store' = store
            /\ store[pod.at].digest = ContentOf(p, pod.at)
        BY <2>0, <2>16, <3>2 DEF Compare, SameContent, Genuine
      <4>2. PICK content : content = store[pod.at].digest
        OBVIOUS
      <4>3. PICK new : new = Uploaded(pod, content)
        OBVIOUS
      <4>4. SoundPod(p, new)'
        BY <1>0, <2>1, <3>1, <4>1, <4>2, <4>3, SoundUploaded
      <4> QED
        BY <2>0, <2>3, <2>16, <3>2, <4>2, <4>3, <4>4 DEF Compare
    <3>3. CASE ~SameContent(p)
      BY <1>2, <2>0, <2>11, <2>12, <2>16, <3>1, <3>3 DEF Compare
    <3> QED
      BY <3>2, <3>3
  <2>17. CASE ReadBack(p)
    <3>1. PICK digest : digest = store["discovery"].digest
      OBVIOUS
    <3>2. PICK new : new = [pod EXCEPT !.at = "terminal", !.refs["discovery"] = digest]
      OBVIOUS
    <3>3. ContentOf(p, "discovery")' = ContentOf(p, "discovery")
      BY <1>0 DEF ContentOf, StoreStep
    <3>4. /\ new.at = "terminal"
          /\ new.refs = [pod.refs EXCEPT !["discovery"] = digest]
      BY <3>2 DEF Pod
    <3>5. digest = ContentOf(p, "discovery")
      BY <2>0, <2>1, <2>17, <3>1 DEF ReadBack, SoundPod
    <3>6. SoundPod(p, new)'
      BY <2>2, <3>3, <3>4, <3>5 DEF SoundPod, RefKeys, Pod
    <3> QED
      BY <2>0, <2>3, <2>17, <3>1, <3>2, <3>6 DEF ReadBack
  <2>18. CASE Retain(p)
    <3>1. PICK new : new = [pod EXCEPT !.at = "terminal", !.refs["discovery"] = Same]
      OBVIOUS
    <3>2. ContentOf(p, "discovery")' = Same
      BY <1>0, <2>0, <2>1, <2>18 DEF ContentOf, StoreStep, SoundPod, Retain
    <3>3. /\ new.at = "terminal"
          /\ new.refs = [pod.refs EXCEPT !["discovery"] = Same]
      BY <3>1 DEF Pod
    <3>4. SoundPod(p, new)'
      BY <2>2, <3>2, <3>3 DEF SoundPod, RefKeys, Pod
    <3> QED
      BY <2>0, <2>3, <2>18, <3>1, <3>4 DEF Retain
  <2>19. CASE FailToReadBack(p)
    BY <1>2, <2>0, <2>19 DEF FailToReadBack, Blamed, Pod
  <2>20. CASE FailToRetain(p)
    BY <1>2, <2>0, <2>20 DEF FailToRetain, Blamed, Pod
  <2> QED
    BY <1>5, <2>4, <2>5, <2>6, <2>8, <2>9, <2>10, <2>13, <2>14, <2>15, <2>16,
       <2>17, <2>18, <2>19, <2>20 DEF PodStep
<1>6. ASSUME NEW key \in Keys, Damage(key) PROVE SoundInv'
  BY <1>1, <1>6 DEF Damage
<1>7. CASE UNCHANGED runnerVars
  BY <1>1, <1>7 DEF runnerVars
<1> QED
  BY <1>3, <1>4, <1>5, <1>6, <1>7 DEF RunnerNext

-----------------------------------------------------------------------------
(* The objects                                                               *)

(* A step that stores an object is one of the Pod that has it.               *)
LEMMA AuthorStep ==
  TypeInv /\ MetInv /\ AuthorInv /\ [RunnerNext]_runnerVars => AuthorInv'
<1> SUFFICES ASSUME TypeInv, MetInv, AuthorInv, [RunnerNext]_runnerVars
             PROVE  AuthorInv'
  OBVIOUS
<1>1. StoreStep /\ \A p \in Pods : pods[p].at # "idle" => pods'[p].at # "idle"
  BY StoreSteps, OnwardStep DEF Onward
<1>2. \A p \in Pods, k \in Keys : ContentOf(p, k)' = ContentOf(p, k)
  BY <1>1 DEF ContentOf, StoreStep
<1>3. Uploads \subseteq Keys
  BY DEF Uploads, Keys
<1>4. CASE UNCHANGED store
  BY <1>1, <1>2, <1>3, <1>4 DEF AuthorInv
<1>5. ASSUME NEW p \in Pods, Uploading(p), Put(p) PROVE AuthorInv'
  <2>1. pods[p].at \in Uploads /\ pods[p].at # "idle"
    BY <1>5 DEF Uploading, Uploads
  <2> SUFFICES ASSUME NEW k \in Uploads, store'[k].here
               PROVE  \E q \in Pods : /\ pods'[q].at # "idle"
                                       /\ store'[k].digest = ContentOf(q, k)'
    BY DEF AuthorInv
  <2>2. CASE k = pods[p].at
    BY <1>1, <1>2, <1>3, <1>5, <2>1, <2>2 DEF Put, Holding, TypeInv
  <2>3. CASE k # pods[p].at
    BY <1>1, <1>2, <1>3, <1>5, <2>1, <2>3 DEF Put, AuthorInv, TypeInv
  <2> QED
    BY <2>2, <2>3
<1>6. ASSUME NEW key \in Keys, Damage(key) PROVE AuthorInv'
  <2>1. \A k \in Keys : store'[k].here = store[k].here
                        /\ store'[k].digest = store[k].digest
    BY <1>6 DEF Damage, TypeInv, Object
  <2> QED
    BY <1>1, <1>2, <1>3, <2>1 DEF AuthorInv
<1> QED
  BY <1>1, <1>4, <1>5, <1>6 DEF StoreStep

-----------------------------------------------------------------------------
(* What the evidence consists of                                             *)

(* Bytes differ from the digest of their object only if they were damaged.   *)
GenuineInv ==
  ~damaged => \A k \in Keys : store[k].here => store[k].bytes = store[k].digest

(* The artifacts that an Apply works on are there.                           *)
RetainedInv ==
  operation # "Plan" => store["retained"].here /\ store["retained"].digest = Same

Has(p, k) == store[k].here /\ store[k].digest = ContentOf(p, k)

Authored(p) == Has(p, "terminal")

Before == {"idle", "start", "inputs", "terraform"}

(* The artifacts of a Plan that a Pod refers to by now, if none has failed.  *)
Behind(p, pod) ==
  CASE pod.at = "plan"               -> {}
    [] pod.at = "report"             -> {"plan"}
    [] pod.at \in {"graph", "backend"} -> {"plan", "report"}
    [] pod.at = "source"             -> {"plan", "report", "backend"}
    [] pod.at = "end" /\ ~Authored(p)  -> {}
    [] OTHER                         -> {"plan", "report", "backend", "source"}

(* A result that says it is ready refers to what is there.                   *)
ReadyPod(p, pod) ==
  /\ pod.at \notin Before /\ Has(p, "inputs")
  /\ IF pod.outcome = "" THEN pod.erred /\ pod.at \in {"terminal", "end"}
     ELSE pod.outcome \in (IF operation = "Plan" THEN {"NoChange", "ChangesPresent"}
                           ELSE {"Succeeded"})
  /\ operation = "Plan" /\ pod.outcome # "" =>
       \A k \in Behind(p, pod) : Has(p, k) /\ pod.refs[k] = ContentOf(p, k)

CompletePod(p, pod) ==
  /\ Authored(p) => pod.at \in {"terminal", "end"}
  /\ pod.at \notin Before \cup {"end"} \/ Authored(p) => pod.outcome # "" \/ pod.ready
  /\ pod.at = "terraform" => Has(p, "inputs")
  /\ pod.refs["discovery"] # Missing /\ operation # "Destroy" => Has(p, "discovery")
  /\ pod.exit # "none" => pod.at = "end"
  /\ pod.exit = "0" => Authored(p) /\ pod.ready /\ ~pod.erred
  /\ pod.ready => ReadyPod(p, pod)

CompleteInv == \A p \in Pods : CompletePod(p, pods[p])

(* A Pod that is alone, and was not disturbed, has not failed.               *)
Alone(p) == \A q \in Pods \ {p} : pods[q].at = "idle"

WellPod(pod) ==
  /\ ~pod.early /\ ~pod.erred /\ pod.exit \in {"none", "0"}
  /\ pod.at \notin Before => pod.ready

WellInv ==
  ~damaged => \A p \in Pods : Alone(p) /\ ~pods[p].blamed => WellPod(pods[p])

-----------------------------------------------------------------------------
(* A step that damages an object says so.                                    *)
LEMMA GenuineStep ==
  TypeInv /\ GenuineInv /\ [RunnerNext]_runnerVars => GenuineInv'
<1> SUFFICES ASSUME TypeInv, GenuineInv, [RunnerNext]_runnerVars, ~damaged'
             PROVE  \A k \in Keys : store'[k].here => store'[k].bytes = store'[k].digest
  BY DEF GenuineInv
<1>1. StoreStep
  BY StoreSteps
<1>2. \A key \in Keys : ~Damage(key)
  BY DEF Damage
<1>3. ~damaged
  BY <1>1, <1>2 DEF StoreStep, TypeInv
<1>4. CASE UNCHANGED store
  BY <1>3, <1>4 DEF GenuineInv
<1>5. ASSUME NEW p \in Pods, Put(p)
      PROVE  \A k \in Keys : store'[k].here => store'[k].bytes = store'[k].digest
  BY <1>3, <1>5 DEF GenuineInv, Put, Holding, TypeInv
<1> QED
  BY <1>1, <1>2, <1>4, <1>5 DEF StoreStep

(* The artifacts of the Plan stay.                                           *)
LEMMA RetainedStep ==
  TypeInv /\ RetainedInv /\ [RunnerNext]_runnerVars => RetainedInv'
BY StoreSteps, DigestsStay DEF RetainedInv, Keys, StoreStep

(* What is there stays, with its content.                                    *)
LEMMA HasStays ==
  ASSUME TypeInv, StoreStep, NEW p \in Pods, NEW k \in Keys, Has(p, k)
  PROVE  Has(p, k)'
<1>1. ContentOf(p, k)' = ContentOf(p, k)
  BY DEF ContentOf, StoreStep
<1> QED
  BY <1>1, DigestsStay DEF Has

(* A terminal result comes from the Pod that is uploading it.                *)
LEMMA AuthoredStays ==
  ASSUME TypeInv, StoreStep, NEW p \in Pods, Authored(p)'
  PROVE  Authored(p) \/ pods[p].at = "terminal"
<1>0. "terminal" \in Keys
  BY DEF Keys
<1>1. \A q \in Pods : ContentOf(q, "terminal") = q /\ ContentOf(q, "terminal")' = q
  BY DEF ContentOf
<1>2. CASE UNCHANGED store
  BY <1>1, <1>2 DEF Authored, Has
<1>3. ASSUME NEW q \in Pods, Free(pods[q].at), Put(q)
      PROVE  Authored(p) \/ pods[p].at = "terminal"
  <2>1. CASE pods[q].at = "terminal"
    <3>1. store'["terminal"].digest = q
      BY <1>0, <1>1, <1>3, <2>1 DEF Put, TypeInv, Holding
    <3> QED
      BY <1>1, <2>1, <3>1 DEF Authored, Has
  <2>2. CASE pods[q].at # "terminal"
    BY <1>0, <1>1, <1>3, <2>2 DEF Put, TypeInv, Authored, Has
  <2> QED
    BY <2>1, <2>2
<1>4. ASSUME NEW key \in Keys, Damage(key)
      PROVE  Authored(p) \/ pods[p].at = "terminal"
  <2>1. /\ store'["terminal"].here = store["terminal"].here
        /\ store'["terminal"].digest = store["terminal"].digest
    BY <1>0, <1>4 DEF Damage, TypeInv, Object
  <2> QED
    BY <1>1, <2>1 DEF Authored, Has
<1> QED
  BY <1>2, <1>3, <1>4 DEF StoreStep

(* A Pod that is not uploading its result has no result stored after the     *)
(* step either.                                                              *)
LEMMA NoResultYet ==
  ASSUME TypeInv, StoreStep, NEW p \in Pods, NEW pod, pod = pods[p],
         CompletePod(p, pod), pod.at \notin {"terminal", "end"}
  PROVE  ~Authored(p) /\ ~Authored(p)'
BY AuthoredStays DEF CompletePod, Before

(* What a Pod has collected does not change by what others do.               *)
LEMMA CompleteStays ==
  ASSUME TypeInv, StoreStep, NEW p \in Pods, NEW pod, pod = pods[p],
         CompletePod(p, pod)
  PROVE  CompletePod(p, pod)'
<1>1. operation' = operation
  BY DEF StoreStep
<1>2. \A k \in Keys : Has(p, k) => Has(p, k)'
  BY HasStays
<1>3. \A k \in Keys : ContentOf(p, k)' = ContentOf(p, k)
  BY <1>1 DEF ContentOf
<1>4. {"plan", "report", "backend", "source", "inputs", "discovery", "terminal"} \subseteq Keys
  BY DEF Keys
<1>5. /\ Authored(p) => Authored(p)'
      /\ Authored(p)' => Authored(p) \/ pod.at = "terminal"
  BY <1>2, <1>4, AuthoredStays DEF Authored
<1>6. Behind(p, pod)' = Behind(p, pod) /\ Behind(p, pod) \subseteq Keys
  BY <1>4, <1>5 DEF Behind
<1>7. pod.ready => ReadyPod(p, pod)'
  <2> SUFFICES ASSUME pod.ready PROVE ReadyPod(p, pod)'
    OBVIOUS
  <2>1. ReadyPod(p, pod)
    BY DEF CompletePod
  <2>2. ASSUME operation = "Plan", pod.outcome # "", NEW k \in Behind(p, pod)
        PROVE  Has(p, k)' /\ pod.refs[k] = ContentOf(p, k)'
    BY <1>2, <1>3, <1>6, <2>1, <2>2 DEF ReadyPod
  <2> QED
    BY <1>1, <1>2, <1>4, <1>6, <2>1, <2>2 DEF ReadyPod
<1> QED
  BY <1>1, <1>2, <1>4, <1>5, <1>7 DEF CompletePod, Before

(* It is enough to look at the Pod that takes the step.                      *)
LEMMA CompleteSuffices ==
  ASSUME TypeInv, CompleteInv, StoreStep,
         NEW p \in Pods, NEW new, pods' = [pods EXCEPT ![p] = new],
         CompletePod(p, new)'
  PROVE  CompleteInv'
<1>1. ASSUME NEW q \in Pods, NEW pod, pod = pods[q] PROVE CompletePod(q, pod)'
  BY <1>1, CompleteStays DEF CompleteInv
<1> QED
  BY <1>1 DEF CompleteInv, TypeInv

(* A Pod whose result is not ready needs little.                             *)
LEMMA CompleteUnready ==
  ASSUME TypeInv, StoreStep, NEW p \in Pods, NEW pod, pod = pods[p],
         CompletePod(p, pod), NEW new, ~new.ready, new.at # "terraform",
         new.refs["discovery"] = pod.refs["discovery"],
         Authored(p)' => new.at \in {"terminal", "end"},
         new.at \notin Before \cup {"end"} \/ Authored(p)' => new.outcome # "",
         new.exit # "none" => new.at = "end", new.exit # "0"
  PROVE  CompletePod(p, new)'
<1>1. CompletePod(p, pod)'
  BY CompleteStays
<1> QED
  BY <1>1 DEF CompletePod, Before

(* An upload whose object is there goes on with what it refers to.           *)
LEMMA CompleteUploaded ==
  ASSUME TypeInv, StoreStep, NEW p \in Pods, NEW pod \in Pod, pod = pods[p],
         CompletePod(p, pod), pod.at \in Uploads,
         Has(p, pod.at)', pod.at = "terminal" \/ (~Authored(p) /\ ~Authored(p)'),
         NEW content, content = ContentOf(p, pod.at),
         NEW new, new = Uploaded(pod, content)
  PROVE  CompletePod(p, new)'
<1>1. /\ new.at = AfterUpload(pod) /\ new.ready = pod.ready
      /\ new.erred = pod.erred /\ new.outcome = pod.outcome
      /\ new.refs = IF pod.at \in {"plan", "report", "backend", "source"}
                    THEN [pod.refs EXCEPT ![pod.at] = content] ELSE pod.refs
      /\ new.exit = IF pod.at = "terminal" THEN ExitOf(pod, TRUE) ELSE pod.exit
  BY DEF Uploaded, Pod
<1>2. new.refs["discovery"] = pod.refs["discovery"]
  BY <1>1 DEF Pod
<1>3. pod.exit = "none" /\ "inputs" \in Keys
  BY DEF CompletePod, Uploads, Pod, Keys
<1>4. CASE pod.at = "inputs"
  <2>1. new.at = "terraform" /\ ~pod.ready /\ pod.exit = "none"
    BY <1>1, <1>3, <1>4 DEF AfterUpload, CompletePod, ReadyPod, Before
  <2>2. CompletePod(p, pod)'
    BY CompleteStays
  <2> QED
    BY <1>1, <1>2, <1>3, <1>4, <2>1, <2>2 DEF CompletePod, Before
<1>5. CASE pod.at = "terminal"
  <2>1. new.at = "end" /\ Authored(p)'
    BY <1>1, <1>5 DEF AfterUpload, Authored
  <2>2. ASSUME new.exit = "0" PROVE new.ready /\ ~new.erred
    BY <1>1, <1>5, <2>2 DEF ExitOf
  <2>3. CompletePod(p, pod)'
    BY CompleteStays
  <2>4. Behind(p, new)' = Behind(p, pod)'
    BY <1>5, <2>1 DEF Behind
  <2>5. new.refs = pod.refs
    BY <1>1, <1>5
  <2>6. new.ready => ReadyPod(p, new)'
    <3> SUFFICES ASSUME new.ready PROVE ReadyPod(p, new)'
      OBVIOUS
    <3>1. ReadyPod(p, pod)'
      BY <1>1, <2>3 DEF CompletePod
    <3>2. new.outcome = pod.outcome /\ new.erred = pod.erred
      BY <1>1
    <3> QED
      BY <1>5, <2>1, <2>4, <2>5, <3>1, <3>2 DEF ReadyPod, Before
  <2> QED
    BY <1>1, <1>2, <1>5, <2>1, <2>2, <2>3, <2>6 DEF CompletePod, Before
<1>6. CASE pod.at \notin {"inputs", "terminal"}
  <2>1. /\ new.at \in {"report", "graph", "backend", "source", "discovery",
                       "terminal", "readback"}
        /\ new.exit = "none" /\ ~Authored(p)'
    BY <1>1, <1>3, <1>6 DEF AfterUpload, Uploads
  <2>2. CompletePod(p, pod)'
    BY CompleteStays
  <2>3. operation' = operation /\ ContentOf(p, pod.at)' = ContentOf(p, pod.at)
    BY DEF StoreStep, ContentOf
  <2>4. Behind(p, new)' \subseteq Behind(p, pod)' \cup ({pod.at} \ {"graph", "discovery"})
    <3>1. CASE pod.at \in {"plan", "report", "graph", "backend"}
      BY <1>1, <2>1, <3>1 DEF AfterUpload, Behind
    <3>2. CASE pod.at \in {"source", "discovery"}
      BY <1>1, <2>1, <3>2 DEF AfterUpload, Behind
    <3> QED
      BY <1>6, <3>1, <3>2 DEF Uploads
  <2>5. ASSUME NEW k \in Behind(p, pod)' PROVE k \in RefKeys /\ k # pod.at
    BY <1>6, <2>5 DEF Behind, Uploads, RefKeys
  <2>6. new.ready => ReadyPod(p, new)'
    <3> SUFFICES ASSUME new.ready PROVE ReadyPod(p, new)'
      OBVIOUS
    <3>1. ReadyPod(p, pod)'
      BY <1>1, <2>2 DEF CompletePod
    <3>2. new.outcome # ""
      BY <1>1, <1>6, <3>1 DEF ReadyPod, Uploads
    <3>3. ASSUME operation = "Plan", NEW k \in Behind(p, new)'
          PROVE  Has(p, k)' /\ new.refs[k] = ContentOf(p, k)'
      <4>1. CASE k \in Behind(p, pod)'
        <5>1. Has(p, k)' /\ pod.refs[k] = ContentOf(p, k)'
          BY <1>1, <2>3, <3>1, <3>2, <3>3, <4>1 DEF ReadyPod
        <5>2. new.refs[k] = pod.refs[k]
          BY <1>1, <2>5, <4>1 DEF Pod, RefKeys
        <5> QED
          BY <5>1, <5>2
      <4>2. CASE k = pod.at /\ k \notin {"graph", "discovery"}
        <5>1. k \in {"plan", "report", "backend", "source"}
          BY <1>6, <4>2 DEF Uploads
        <5> QED
          BY <1>1, <2>3, <4>2, <5>1 DEF Pod
      <4> QED
        BY <2>4, <3>3, <4>1, <4>2
    <3> QED
      BY <1>1, <2>1, <2>3, <3>1, <3>2, <3>3 DEF ReadyPod, Before
  <2>7. pod.outcome # "" \/ pod.ready
    BY <1>6, <2>2 DEF CompletePod, Before, Uploads
  <2> QED
    BY <1>1, <1>2, <2>1, <2>2, <2>6, <2>7 DEF CompletePod
<1> QED
  BY <1>4, <1>5, <1>6

(* An upload that fails leaves a result that is not ready, or goes on        *)
(* without what nothing refers to.                                           *)
LEMMA CompleteFailed ==
  ASSUME TypeInv, StoreStep, UNCHANGED store,
         NEW p \in Pods, NEW pod \in Pod, pod = pods[p],
         CompletePod(p, pod), pod.at \in Uploads,
         NEW new, new \in {Failed(pod), Blamed(Failed(pod))}
  PROVE  CompletePod(p, new)'
<1>1. /\ new.at = Failed(pod).at /\ new.ready = Failed(pod).ready
      /\ new.erred = pod.erred /\ new.outcome = Failed(pod).outcome
      /\ new.refs = pod.refs /\ new.exit = Failed(pod).exit
  BY DEF Failed, Blamed, Pod
<1>2. CompletePod(p, pod)' /\ Authored(p)' = Authored(p)
  BY CompleteStays DEF Authored, Has, ContentOf, StoreStep
<1>3. pod.exit = "none"
  BY DEF CompletePod, Uploads, Pod
<1>4. CASE pod.at = "graph"
  <2>1. /\ new.at = "backend" /\ new.ready = pod.ready /\ new.outcome = pod.outcome
        /\ new.exit = pod.exit
    BY <1>1, <1>4 DEF Failed, AfterUpload, Pod
  <2>2. Behind(p, new)' = Behind(p, pod)'
    BY <1>4, <2>1 DEF Behind
  <2>3. new.ready => ReadyPod(p, new)'
    BY <1>1, <1>2, <1>4, <2>1, <2>2 DEF CompletePod, ReadyPod, Before
  <2> QED
    BY <1>1, <1>2, <1>3, <1>4, <2>1, <2>3 DEF CompletePod, Before
<1>5. CASE pod.at = "terminal"
  <2>1. /\ new.at = "end" /\ new.ready = pod.ready /\ new.outcome = pod.outcome
        /\ new.exit \in {"1", "2"}
    BY <1>1, <1>5 DEF Failed, ExitOf, Pod
  <2>2. Behind(p, new)' \subseteq Behind(p, pod)'
    BY <1>5, <2>1 DEF Behind
  <2>3. new.ready => ReadyPod(p, new)'
    BY <1>1, <1>2, <1>5, <2>1, <2>2 DEF CompletePod, ReadyPod, Before
  <2> QED
    BY <1>1, <1>2, <1>5, <2>1, <2>3 DEF CompletePod, Before
<1>6. CASE pod.at \notin {"graph", "terminal"}
  <2>1. new.at = "terminal" /\ new.exit = "none"
    BY <1>1, <1>3, <1>6 DEF Failed, Pod
  <2>2. ~new.ready
    <3>1. CASE pod.at = "inputs"
      <4>1. ~pod.ready /\ new.ready = pod.ready
        BY <1>1, <3>1 DEF Failed, Pod, CompletePod, ReadyPod, Before
      <4> QED
        BY <4>1
    <3>2. CASE pod.at # "inputs"
      BY <1>1, <1>6, <3>2 DEF Failed, Pod
    <3> QED
      BY <3>1, <3>2
  <2>3. new.outcome # ""
    <3>1. CASE pod.at = "inputs"
      BY <1>1, <3>1 DEF Failed, Pod
    <3>2. CASE pod.at # "inputs"
      <4>1. pod.outcome # ""
        BY <1>6, <3>2 DEF CompletePod, ReadyPod, Before, Uploads
      <4>2. new.outcome = pod.outcome
        BY <1>1, <1>6, <3>2 DEF Failed, Pod
      <4> QED
        BY <4>1, <4>2
    <3> QED
      BY <3>1, <3>2
  <2> QED
    BY <1>1, <2>1, <2>2, <2>3, CompleteUnready
<1> QED
  BY <1>4, <1>5, <1>6

(* A result that says it is ready keeps what it refers to.                   *)
LEMMA CompleteStep ==
  TypeInv /\ MetInv /\ SoundInv /\ CompleteInv /\ [RunnerNext]_runnerVars
    => CompleteInv'
<1> SUFFICES ASSUME TypeInv, MetInv, SoundInv, CompleteInv, [RunnerNext]_runnerVars
             PROVE  CompleteInv'
  OBVIOUS
<1>0. StoreStep
  BY StoreSteps
<1>1. ASSUME UNCHANGED pods PROVE CompleteInv'
  <2>1. ASSUME NEW p \in Pods, NEW pod, pod = pods[p] PROVE CompletePod(p, pod)'
    BY <1>0, <2>1, CompleteStays DEF CompleteInv
  <2> QED
    BY <1>1, <2>1 DEF CompleteInv
<1>2. ASSUME NEW p \in Pods, StartPod(p) PROVE CompleteInv'
  <2>1. PICK pod : pod = pods[p]
    OBVIOUS
  <2>2. PICK new : new = [NewPod EXCEPT !.at = "start"]
    OBVIOUS
  <2>3. CompletePod(p, pod) /\ pod.at = "idle"
    BY <1>2, <2>1 DEF StartPod, CompleteInv
  <2>4. ~Authored(p)'
    BY <1>0, <2>1, <2>3, NoResultYet
  <2>5. CompletePod(p, new)'
    BY <2>2, <2>4 DEF CompletePod, NewPod, Before
  <2> QED
    BY <1>0, <1>2, <2>2, <2>5, CompleteSuffices DEF StartPod, Becomes
<1>3. ASSUME NEW p \in Pods, KillPod(p) PROVE CompleteInv'
  <2>0. PICK pod \in Pod : pod = pods[p]
    BY DEF TypeInv
  <2>1. PICK new : new = Blamed([pod EXCEPT !.at = "end", !.met = FALSE, !.exit = "killed"])
    OBVIOUS
  <2>2. /\ new.at = "end" /\ new.exit = "killed" /\ new.refs = pod.refs
        /\ new.ready = pod.ready /\ new.erred = pod.erred /\ new.outcome = pod.outcome
    BY <2>1 DEF Blamed, Pod
  <2>3. CompletePod(p, pod) /\ pod.at # "end"
    BY <1>3, <2>0 DEF CompleteInv, KillPod, Running
  <2>4. CompletePod(p, pod)'
    BY <1>0, <2>0, <2>3, CompleteStays
  <2>5. pod.ready => Behind(p, new)' \subseteq Behind(p, pod)'
    <3>1. Authored(p)' => pod.at = "terminal"
      BY <2>3, <2>4 DEF CompletePod
    <3> QED
      BY <2>2, <3>1 DEF Behind
  <2>6. new.ready => ReadyPod(p, new)'
    <3> SUFFICES ASSUME new.ready PROVE ReadyPod(p, new)'
      OBVIOUS
    <3>1. ReadyPod(p, pod)'
      BY <2>2, <2>4 DEF CompletePod
    <3> QED
      BY <2>2, <2>5, <3>1 DEF ReadyPod, Before
  <2>7. CompletePod(p, new)'
    <3>1. Authored(p)' => pod.at \in {"terminal", "end"} /\ (pod.outcome # "" \/ pod.ready)
      BY <2>4 DEF CompletePod
    <3> QED
      BY <2>2, <2>4, <2>6, <3>1 DEF CompletePod
  <2> QED
    BY <1>0, <1>3, <2>0, <2>1, <2>7, CompleteSuffices DEF KillPod, Becomes
<1>4. ASSUME NEW p \in Pods, PodStep(p) PROVE CompleteInv'
  <2>0. PICK pod \in Pod : pod = pods[p]
    BY DEF TypeInv
  <2>1. CompletePod(p, pod) /\ SoundPod(p, pod)
    BY <2>0 DEF CompleteInv, SoundInv
  <2>2. CompletePod(p, pod)'
    BY <1>0, <2>0, <2>1, CompleteStays
  <2>3. ASSUME NEW new, Becomes(p, new), CompletePod(p, new)' PROVE CompleteInv'
    BY <1>0, <2>3, CompleteSuffices DEF Becomes
  <2>4. pod.at \notin {"terminal", "end"} => ~Authored(p)'
    BY <1>0, <2>0, <2>1, NoResultYet
  <2>5. pod.at \in Before => ~pod.ready
    BY <2>1 DEF CompletePod, ReadyPod
  <2>6. pod.at # "end" => pod.exit = "none"
    BY <2>1 DEF CompletePod
  (* A step whose result is not ready. *)
  <2>7. ASSUME NEW new, Becomes(p, new), ~new.ready, new.refs = pod.refs,
               new.at \in {"inputs", "terminal", "end"}, new.exit # "0",
               Authored(p)' => new.at \in {"terminal", "end"},
               new.at = "terminal" \/ Authored(p)' => new.outcome # "",
               new.exit # "none" => new.at = "end"
        PROVE  CompleteInv'
    <3>1. CompletePod(p, new)'
      BY <1>0, <2>0, <2>1, <2>7, CompleteUnready DEF Before
    <3> QED
      BY <2>3, <2>7, <3>1
  <2>8. CASE Prepare(p)
    <3>1. PICK new : new = [pod EXCEPT !.at = "inputs"]
      OBVIOUS
    <3>2. /\ new.at = "inputs" /\ new.exit = pod.exit /\ new.refs = pod.refs
          /\ new.ready = pod.ready /\ pod.at = "start"
      BY <2>0, <2>8, <3>1 DEF Prepare, Blamed, Pod, Before
    <3>3. Becomes(p, new)
      BY <2>0, <2>8, <3>1 DEF Prepare
    <3> QED
      BY <2>4, <2>5, <2>6, <2>7, <3>2, <3>3 DEF Before
  <2>9. CASE FailToPrepare(p)
    <3>1. PICK new : new = Blamed([pod EXCEPT !.at = "terminal", !.outcome = "Failed",
                                          !.early = TRUE])
      OBVIOUS
    <3>2. /\ new.at = "terminal" /\ new.exit = pod.exit /\ new.refs = pod.refs
          /\ new.ready = pod.ready /\ pod.at \in Before \ {"end"}
      BY <2>0, <2>9, <3>1 DEF FailToPrepare, Blamed, Pod, Before
    <3>3. Becomes(p, new)
      BY <2>0, <2>9, <3>1 DEF FailToPrepare
    <3>4. new.outcome = "Failed"
      BY <3>1 DEF Blamed, Pod
    <3> QED
      BY <2>5, <2>6, <2>7, <3>2, <3>3, <3>4 DEF Before
  <2>10. CASE FailToStart(p)
    <3>1. PICK new : new = Blamed([pod EXCEPT !.at = "end", !.exit = "2"])
      OBVIOUS
    <3>2. /\ new.at = "end" /\ new.exit = "2" /\ new.refs = pod.refs
          /\ new.ready = pod.ready /\ pod.at \in Before
      BY <2>0, <2>10, <3>1 DEF FailToStart, Blamed, Pod, Before
    <3>3. Becomes(p, new)
      BY <2>0, <2>10, <3>1 DEF FailToStart
    <3> QED
      BY <2>4, <2>5, <2>7, <3>2, <3>3 DEF Before
  <2>11. CASE FailToRetain(p)
    <3>1. PICK new : new = Blamed([pod EXCEPT !.at = "terminal", !.ready = FALSE])
      OBVIOUS
    <3>2. /\ new.at = "terminal" /\ new.exit = pod.exit /\ new.refs = pod.refs
          /\ ~new.ready /\ pod.at # "end"
      BY <2>0, <2>11, <3>1 DEF FailToRetain, Blamed, Pod, Before
    <3>3. Becomes(p, new)
      BY <2>0, <2>11, <3>1 DEF FailToRetain
    <3>4. pod.outcome # ""
      BY <2>0, <2>1, <2>11 DEF FailToRetain, CompletePod, ReadyPod, Before
    <3>5. new.outcome = pod.outcome
      BY <3>1 DEF Blamed, Pod
    <3> QED
      BY <2>6, <2>7, <3>2, <3>3, <3>4, <3>5
  <2>12. ASSUME NEW outcome, NEW ready \in BOOLEAN, NEW erred \in BOOLEAN,
                ready => IF outcome = "" THEN erred
                         ELSE outcome \in (IF operation = "Plan"
                                           THEN {"NoChange", "ChangesPresent"}
                                           ELSE {"Succeeded"}),
                ready \/ outcome # "", Ends(p, outcome, ready, erred)
         PROVE  CompleteInv'
    <3>1. PICK blamed : blamed = (pod.blamed \/ erred)
      OBVIOUS
    <3>2. PICK new : new = [pod EXCEPT !.at = AfterTerraform(outcome),
                              !.outcome = outcome, !.ready = ready,
                              !.erred = erred, !.blamed = blamed]
      OBVIOUS
    <3>3. /\ new.at = AfterTerraform(outcome) /\ new.outcome = outcome
          /\ new.ready = ready /\ new.erred = erred
          /\ new.refs = pod.refs /\ new.exit = "none"
      BY <2>0, <2>6, <2>12, <3>2 DEF Ends, Pod
    <3>4. ~Authored(p)' /\ Has(p, "inputs")' /\ pod.at = "terraform"
      BY <2>0, <2>2, <2>4, <2>12 DEF Ends, CompletePod
    <3>5. new.at \in {"plan", "retained", "discovery", "terminal"}
      BY <3>3 DEF AfterTerraform
    <3>6. ready => ReadyPod(p, new)'
      <4> SUFFICES ASSUME ready PROVE ReadyPod(p, new)'
        OBVIOUS
      <4>1. operation' = operation
        BY <1>0 DEF StoreStep
      <4>2. CASE outcome = ""
        BY <2>12, <3>3, <3>4, <4>2 DEF ReadyPod, AfterTerraform, Before
      <4>3. CASE outcome # "" /\ operation = "Plan"
        <5>1. new.at = "plan"
          BY <2>12, <3>3, <4>3 DEF AfterTerraform
        <5>2. Behind(p, new)' = {}
          BY <5>1 DEF Behind
        <5> QED
          BY <2>12, <3>3, <3>4, <4>1, <4>3, <5>1, <5>2 DEF ReadyPod, Before
      <4>4. CASE outcome # "" /\ operation # "Plan"
        BY <2>12, <3>3, <3>4, <3>5, <4>1, <4>4 DEF ReadyPod, Before
      <4> QED
        BY <4>2, <4>3, <4>4
    <3>7. CompletePod(p, new)'
      BY <2>2, <2>12, <3>3, <3>4, <3>5, <3>6 DEF CompletePod
    <3> QED
      BY <2>0, <2>3, <2>12, <3>1, <3>2, <3>7 DEF Ends
  <2>13. CASE TerraformSucceeds(p) \/ TerraformFails(p) \/ InitFails(p)
    BY <2>12, <2>13 DEF TerraformSucceeds, TerraformFails, InitFails
  <2>14. CASE Create(p)
    <3>1. pod.at \in Uploads /\ pod.at \in Keys
      BY <2>0, <2>14 DEF Create, Uploading, Uploads, Keys
    <3>2. PICK content : content = ContentOf(p, pod.at)
      OBVIOUS
    <3>3. PICK new : new = Uploaded(pod, content)
      OBVIOUS
    <3>4. Has(p, pod.at)'
      <4>1. store'[pod.at] = Holding(ContentOf(p, pod.at))
        BY <2>0, <2>14, <3>1 DEF Create, Put, TypeInv
      <4>2. ContentOf(p, pod.at)' = ContentOf(p, pod.at)
        BY <1>0 DEF ContentOf, StoreStep
      <4> QED
        BY <4>1, <4>2 DEF Has, Holding
    <3>5. pod.at = "terminal" \/ (~Authored(p) /\ ~Authored(p)')
      BY <1>0, <2>0, <2>1, <3>1, NoResultYet DEF Uploads
    <3>6. CompletePod(p, new)'
      BY <1>0, <2>0, <2>1, <3>1, <3>2, <3>3, <3>4, <3>5, CompleteUploaded
    <3> QED
      BY <2>0, <2>3, <2>14, <3>2, <3>3, <3>6 DEF Create
  <2>15. CASE LoseAnswer(p)
    BY <1>1, <2>15 DEF LoseAnswer
  <2>16. ASSUME NEW new, Becomes(p, new), pod.at \in Uploads, UNCHANGED store,
                new \in {Failed(pod), Blamed(Failed(pod))}
         PROVE  CompleteInv'
    <3>1. CompletePod(p, new)'
      BY <1>0, <2>0, <2>1, <2>16, CompleteFailed
    <3> QED
      BY <2>3, <2>16, <3>1
  <2>17. CASE FailToPut(p)
    BY <2>0, <2>16, <2>17 DEF FailToPut, Uploading
  <2>18. CASE FailToCompare(p)
    BY <2>0, <2>16, <2>18 DEF FailToCompare, MetInv
  <2>19. CASE Compare(p)
    <3>1. pod.at \in Uploads /\ pod.at \in Keys /\ store' = store
      BY <2>0, <2>19 DEF Compare, MetInv, Uploads, Keys
    <3>2. CASE SameContent(p)
      <4>1. PICK content : content = store[pod.at].digest
        OBVIOUS
      <4>2. PICK new : new = Uploaded(pod, content)
        OBVIOUS
      <4>3. /\ Has(p, pod.at) /\ content = ContentOf(p, pod.at)
        BY <2>0, <3>2, <4>1 DEF SameContent, Genuine, Has
      <4>4. Has(p, pod.at)'
        BY <1>0, <3>1, <4>3, HasStays
      <4>5. pod.at = "terminal" \/ (~Authored(p) /\ ~Authored(p)')
        BY <1>0, <2>0, <2>1, <3>1, NoResultYet DEF Uploads
      <4>6. CompletePod(p, new)'
        BY <1>0, <2>0, <2>1, <3>1, <4>2, <4>3, <4>4, <4>5, CompleteUploaded
      <4> QED
        BY <2>0, <2>3, <2>19, <3>2, <4>1, <4>2, <4>6 DEF Compare
    <3>3. CASE ~SameContent(p)
      BY <2>0, <2>16, <2>19, <3>1, <3>3 DEF Compare
    <3> QED
      BY <3>2, <3>3
  (* The result goes on to its upload, with the discovery or without. *)
  <2>20. ASSUME NEW new, Becomes(p, new),
                pod.at \notin {"terminal", "end"} \cup Before, new.at = "terminal",
                new.ready = pod.ready, new.erred = pod.erred,
                new.outcome = pod.outcome, new.exit = pod.exit,
                new.refs["discovery"] = pod.refs["discovery"]
                  \/ Has(p, "discovery")' \/ operation = "Destroy",
                \A k \in RefKeys \ {"discovery"} : new.refs[k] = pod.refs[k],
                pod.at \in {"readback", "retained"}
         PROVE  CompleteInv'
    <3>1. operation' = operation
      BY <1>0 DEF StoreStep
    <3>2. /\ Behind(p, new)' = Behind(p, pod)'
          /\ Behind(p, new)' \subseteq RefKeys \ {"discovery"}
      BY <2>20 DEF Behind, RefKeys
    <3>3. new.ready => ReadyPod(p, new)'
      <4> SUFFICES ASSUME new.ready PROVE ReadyPod(p, new)'
        OBVIOUS
      <4>1. ReadyPod(p, pod)'
        BY <2>2, <2>20 DEF CompletePod
      <4>2. /\ new.outcome = pod.outcome /\ new.erred = pod.erred /\ new.at = "terminal"
            /\ pod.at \notin {"terminal", "end"}
        BY <2>20
      <4>3. \A k \in Behind(p, new)' : k \in Behind(p, pod)' /\ new.refs[k] = pod.refs[k]
        BY <2>20, <3>2
      <4> QED
        BY <4>1, <4>2, <4>3 DEF ReadyPod, Before
    <3>4. CompletePod(p, new)'
      BY <2>2, <2>6, <2>20, <3>1, <3>3 DEF CompletePod, Before
    <3> QED
      BY <2>3, <2>20, <3>4
  <2>21. CASE ReadBack(p)
    <3>1. PICK digest : digest = store["discovery"].digest
      OBVIOUS
    <3>2. PICK new : new = [pod EXCEPT !.at = "terminal", !.refs["discovery"] = digest]
      OBVIOUS
    <3>3. Has(p, "discovery")'
      BY <1>0, <2>0, <2>1, <2>21, HasStays DEF ReadBack, SoundPod, Has, Keys
    <3>4. /\ new.at = "terminal" /\ new.ready = pod.ready /\ new.erred = pod.erred
          /\ new.outcome = pod.outcome /\ new.exit = pod.exit
          /\ \A k \in RefKeys \ {"discovery"} : new.refs[k] = pod.refs[k]
      BY <3>2 DEF Pod, RefKeys
    <3>5. Becomes(p, new) /\ pod.at = "readback"
      BY <2>0, <2>21, <3>1, <3>2 DEF ReadBack
    <3> QED
      BY <2>20, <3>3, <3>4, <3>5 DEF Before
  <2>22. CASE Retain(p)
    <3>1. PICK new : new = [pod EXCEPT !.at = "terminal", !.refs["discovery"] = Same]
      OBVIOUS
    <3>2. /\ new.at = "terminal" /\ new.ready = pod.ready /\ new.erred = pod.erred
          /\ new.outcome = pod.outcome /\ new.exit = pod.exit
          /\ \A k \in RefKeys \ {"discovery"} : new.refs[k] = pod.refs[k]
      BY <3>1 DEF Pod, RefKeys
    <3>3. Becomes(p, new) /\ pod.at = "retained" /\ operation = "Destroy"
      BY <2>0, <2>1, <2>22, <3>1 DEF Retain, SoundPod
    <3> QED
      BY <2>20, <3>2, <3>3 DEF Before
  <2>23. CASE FailToReadBack(p)
    <3>1. PICK new : new = Blamed([pod EXCEPT !.at = "terminal"])
      OBVIOUS
    <3>2. /\ new.at = "terminal" /\ new.ready = pod.ready /\ new.erred = pod.erred
          /\ new.outcome = pod.outcome /\ new.exit = pod.exit /\ new.refs = pod.refs
      BY <3>1 DEF Blamed, Pod
    <3>3. Becomes(p, new) /\ pod.at = "readback"
      BY <2>0, <2>23, <3>1 DEF FailToReadBack
    <3> QED
      BY <2>20, <3>2, <3>3 DEF Before
  <2>24. CASE Meet(p)
    <3>1. PICK new : new = [pod EXCEPT !.met = TRUE]
      OBVIOUS
    <3>2. /\ new.at = pod.at /\ new.ready = pod.ready /\ new.erred = pod.erred
          /\ new.outcome = pod.outcome /\ new.exit = pod.exit /\ new.refs = pod.refs
      BY <3>1 DEF Pod
    <3>3. Behind(p, new)' = Behind(p, pod)'
      BY <3>2 DEF Behind
    <3>4. CompletePod(p, new)'
      BY <2>2, <3>2, <3>3 DEF CompletePod, ReadyPod
    <3> QED
      BY <2>0, <2>3, <2>24, <3>1, <3>4 DEF Meet
  <2> QED
    BY <1>4, <2>8, <2>9, <2>10, <2>11, <2>13, <2>14, <2>15, <2>17, <2>18, <2>19,
       <2>21, <2>22, <2>23, <2>24 DEF PodStep
<1>5. ASSUME NEW key \in Keys, Damage(key) PROVE CompleteInv'
  BY <1>1, <1>5 DEF Damage
<1>6. CASE UNCHANGED runnerVars
  BY <1>1, <1>6 DEF runnerVars
<1> QED
  BY <1>2, <1>3, <1>4, <1>5, <1>6 DEF RunnerNext

(* An undisturbed Pod that is alone meets only what it has stored itself.    *)
LEMMA MeetsItsOwn ==
  ASSUME TypeInv, MetInv, AuthorInv, GenuineInv, ~damaged,
         NEW p \in Pods, Alone(p), pods[p].met
  PROVE  SameContent(p)
<1>1. pods[p].at \in Uploads /\ pods[p].at \in Keys /\ store[pods[p].at].here
  BY DEF MetInv, Uploads, Keys
<1>2. Genuine(pods[p].at)
  BY <1>1 DEF GenuineInv, Genuine
<1>3. PICK q \in Pods : /\ pods[q].at # "idle"
                        /\ store[pods[p].at].digest = ContentOf(q, pods[p].at)
  BY <1>1 DEF AuthorInv
<1>4. q = p
  BY <1>3 DEF Alone
<1> QED
  BY <1>2, <1>3, <1>4 DEF SameContent

(* Such a Pod succeeds in whatever it does.                                  *)
LEMMA WellStep ==
  TypeInv /\ MetInv /\ AuthorInv /\ GenuineInv /\ WellInv /\ [RunnerNext]_runnerVars
    => WellInv'
<1> SUFFICES ASSUME TypeInv, MetInv, AuthorInv, GenuineInv, WellInv,
                    [RunnerNext]_runnerVars, ~damaged',
                    NEW p \in Pods, Alone(p)', ~pods'[p].blamed
             PROVE  WellPod(pods'[p])
  BY DEF WellInv
<1>1. Alone(p)
  BY OnwardStep DEF Onward, Alone
<1>2. ~damaged
  <2>1. \A key \in Keys : ~Damage(key)
    BY DEF Damage
  <2> QED
    BY <2>1, StoreSteps DEF StoreStep, TypeInv
<1>3. PICK pod \in Pod : pod = pods[p]
  BY DEF TypeInv
<1>4. ~pod.blamed => WellPod(pod)
  BY <1>1, <1>2, <1>3 DEF WellInv
<1>5. CASE pods'[p] = pod
  BY <1>4, <1>5
<1>6. ASSUME NEW new, Becomes(p, new), WellPod(new) PROVE WellPod(pods'[p])
  BY <1>6 DEF Becomes, TypeInv
<1>7. ASSUME NEW new, Becomes(p, Blamed(new)), new \in Pod PROVE FALSE
  <2>1. Blamed(new).blamed
    BY <1>7 DEF Blamed, Pod
  <2>2. pods'[p] = Blamed(new)
    BY <1>7 DEF Becomes, TypeInv
  <2> QED
    BY <2>1, <2>2
<1>8. CASE StartPod(p)
  <2>1. WellPod([NewPod EXCEPT !.at = "start"])
    BY DEF WellPod, NewPod, Before
  <2> QED
    BY <1>6, <1>8, <2>1 DEF StartPod
<1>9. CASE KillPod(p)
  <2>1. [pod EXCEPT !.at = "end", !.met = FALSE, !.exit = "killed"] \in Pod
    BY DEF Pod
  <2> QED
    BY <1>3, <1>7, <1>9, <2>1 DEF KillPod
<1>10. CASE PodStep(p)
  <2>1. ASSUME NEW new, Becomes(p, new), new.blamed = pod.blamed,
               new.early = pod.early, new.erred = pod.erred,
               WellPod(pod) => new.exit \in {"none", "0"},
               WellPod(pod) => (new.at \notin Before => new.ready)
        PROVE  WellPod(pods'[p])
    <3>1. pods'[p] = new
      BY <2>1 DEF Becomes, TypeInv
    <3> QED
      BY <1>4, <2>1, <3>1 DEF WellPod
  <2>2. CASE Prepare(p)
    <3>1. PICK new : new = [pod EXCEPT !.at = "inputs"]
      OBVIOUS
    <3>2. /\ new.at \in Before /\ new.blamed = pod.blamed /\ new.exit = pod.exit
          /\ new.early = pod.early /\ new.erred = pod.erred
      BY <3>1 DEF Pod, Before
    <3>3. Becomes(p, new)
      BY <1>3, <2>2, <3>1 DEF Prepare
    <3> QED
      BY <2>1, <3>2, <3>3 DEF WellPod
  <2>3. CASE FailToPrepare(p)
    <3>1. [pod EXCEPT !.at = "terminal", !.outcome = "Failed", !.early = TRUE] \in Pod
      BY DEF Pod, Uploads
    <3> QED
      BY <1>3, <1>7, <2>3, <3>1 DEF FailToPrepare
  <2>4. CASE FailToStart(p)
    <3>1. [pod EXCEPT !.at = "end", !.exit = "2"] \in Pod
      BY DEF Pod
    <3> QED
      BY <1>3, <1>7, <2>4, <3>1 DEF FailToStart
  <2>5. ASSUME NEW outcome, NEW ready \in BOOLEAN, NEW erred \in BOOLEAN,
               ready \/ erred, Ends(p, outcome, ready, erred)
        PROVE  WellPod(pods'[p])
    <3>1. PICK blamed \in BOOLEAN : blamed = (pod.blamed \/ erred)
      BY DEF Pod
    <3>2. PICK new : new = [pod EXCEPT !.at = AfterTerraform(outcome),
                              !.outcome = outcome, !.ready = ready,
                              !.erred = erred, !.blamed = blamed]
      OBVIOUS
    <3>3. /\ new.ready = ready /\ new.erred = erred /\ new.blamed = blamed
          /\ new.early = pod.early /\ new.exit = pod.exit
      BY <3>2 DEF Pod
    <3>4. Becomes(p, new)
      BY <1>3, <2>5, <3>1, <3>2 DEF Ends
    <3>5. pods'[p] = new
      BY <3>4 DEF Becomes, TypeInv
    <3> QED
      BY <1>4, <2>5, <3>1, <3>3, <3>5 DEF WellPod
  <2>6. CASE TerraformSucceeds(p) \/ TerraformFails(p) \/ InitFails(p)
    BY <2>5, <2>6 DEF TerraformSucceeds, TerraformFails, InitFails
  <2>7. ASSUME NEW content, Becomes(p, Uploaded(pod, content)), pod.at \in Uploads
        PROVE  WellPod(pods'[p])
    <3>1. PICK new : new = Uploaded(pod, content)
      OBVIOUS
    <3>2. /\ new.blamed = pod.blamed /\ new.early = pod.early /\ new.erred = pod.erred
          /\ new.ready = pod.ready /\ new.at = AfterUpload(pod)
          /\ new.exit = IF pod.at = "terminal" THEN ExitOf(pod, TRUE) ELSE pod.exit
      BY <3>1 DEF Uploaded, Pod
    <3>3. WellPod(pod) => new.exit \in {"none", "0"}
      BY <3>2 DEF WellPod, ExitOf, Before
    <3>4. new.at \notin Before => pod.at \notin Before
      BY <2>7, <3>2 DEF AfterUpload, Before, Uploads
    <3> QED
      BY <2>1, <2>7, <3>1, <3>2, <3>3, <3>4 DEF WellPod
  <2>8. CASE Create(p)
    BY <1>3, <2>7, <2>8 DEF Create, Uploading
  <2>9. CASE LoseAnswer(p)
    BY <1>3, <1>5, <2>9 DEF LoseAnswer
  <2>10. pod.at \in Uploads => Failed(pod) \in Pod
    BY FailedTyped
  <2>11. CASE FailToPut(p)
    BY <1>3, <1>7, <2>10, <2>11 DEF FailToPut, Uploading
  <2>12. CASE FailToCompare(p)
    BY <1>3, <1>7, <2>10, <2>12 DEF FailToCompare, MetInv
  <2>13. CASE Meet(p)
    <3>1. PICK new : new = [pod EXCEPT !.met = TRUE]
      OBVIOUS
    <3>2. /\ new.at = pod.at /\ new.blamed = pod.blamed /\ new.exit = pod.exit
          /\ new.early = pod.early /\ new.erred = pod.erred /\ new.ready = pod.ready
      BY <3>1 DEF Pod
    <3>3. Becomes(p, new)
      BY <1>3, <2>13, <3>1 DEF Meet
    <3> QED
      BY <2>1, <3>2, <3>3 DEF WellPod
  <2>14. CASE Compare(p)
    <3>1. SameContent(p) /\ pod.at \in Uploads
      BY <1>1, <1>2, <1>3, <2>14, MeetsItsOwn DEF Compare, MetInv
    <3> QED
      BY <1>3, <2>7, <2>14, <3>1 DEF Compare
  <2>15. CASE ReadBack(p)
    <3>1. PICK digest : digest = store["discovery"].digest
      OBVIOUS
    <3>2. PICK new : new = [pod EXCEPT !.at = "terminal", !.refs["discovery"] = digest]
      OBVIOUS
    <3>3. /\ new.blamed = pod.blamed /\ new.exit = pod.exit
          /\ new.early = pod.early /\ new.erred = pod.erred /\ new.ready = pod.ready
      BY <3>2 DEF Pod
    <3>4. Becomes(p, new) /\ pod.at \notin Before
      BY <1>3, <2>15, <3>1, <3>2 DEF ReadBack, Before
    <3> QED
      BY <2>1, <3>3, <3>4 DEF WellPod
  <2>16. CASE Retain(p)
    <3>1. PICK new : new = [pod EXCEPT !.at = "terminal", !.refs["discovery"] = Same]
      OBVIOUS
    <3>2. /\ new.blamed = pod.blamed /\ new.exit = pod.exit
          /\ new.early = pod.early /\ new.erred = pod.erred /\ new.ready = pod.ready
      BY <3>1 DEF Pod
    <3>3. Becomes(p, new) /\ pod.at \notin Before
      BY <1>3, <2>16, <3>1 DEF Retain, Before
    <3> QED
      BY <2>1, <3>2, <3>3 DEF WellPod
  <2>17. CASE FailToReadBack(p)
    <3>1. [pod EXCEPT !.at = "terminal"] \in Pod
      BY DEF Pod, Uploads
    <3> QED
      BY <1>3, <1>7, <2>17, <3>1 DEF FailToReadBack
  <2>18. CASE FailToRetain(p)
    <3>1. [pod EXCEPT !.at = "terminal", !.ready = FALSE] \in Pod
      BY DEF Pod, Uploads
    <3> QED
      BY <1>3, <1>7, <2>18, <3>1 DEF FailToRetain
  <2> QED
    BY <1>10, <2>2, <2>3, <2>4, <2>6, <2>8, <2>9, <2>11, <2>12, <2>13, <2>14,
       <2>15, <2>16, <2>17, <2>18 DEF PodStep
<1>11. ASSUME NEW q \in Pods, q # p, StartPod(q) \/ PodStep(q) \/ KillPod(q)
       PROVE  pods'[p] = pods[p]
  BY <1>11 DEF TypeInv, Becomes, StartPod, KillPod, PodStep, Prepare, FailToPrepare,
     FailToStart, TerraformSucceeds, TerraformFails, InitFails, Ends, Create,
     LoseAnswer, FailToPut, Meet, Compare, FailToCompare, ReadBack, FailToReadBack,
     Retain, FailToRetain
<1>12. ASSUME NEW key \in Keys, Damage(key) PROVE pods'[p] = pods[p]
  BY <1>12 DEF Damage
<1>13. CASE UNCHANGED runnerVars
  BY <1>3, <1>5, <1>13 DEF runnerVars
<1> QED
  BY <1>3, <1>5, <1>8, <1>9, <1>10, <1>11, <1>12, <1>13 DEF RunnerNext

-----------------------------------------------------------------------------
(* The theorems                                                              *)

RunnerInv ==
  /\ TypeInv /\ MetInv /\ AuthorInv /\ SoundInv
  /\ GenuineInv /\ RetainedInv /\ CompleteInv /\ WellInv

(* The invariant holds at first.                                             *)
LEMMA RunnerInvInit == RunnerInit => RunnerInv
<1> SUFFICES ASSUME RunnerInit PROVE RunnerInv
  OBVIOUS
<1> USE RunnerAssumption DEF RunnerInit
<1>1. NewPod \in Pod
  <2>1. [k \in RefKeys |-> Missing] \in [RefKeys -> Contents]
    BY DEF Contents, Missing, Spoiled
  <2> QED
    BY <2>1 DEF NewPod, Pod, RefKeys
<1>2. Holding(Same) \in Object /\ Absent \in Object
  BY DEF Holding, Absent, Object, Same, Contents, Spoiled
<1>3. TypeInv
  <2>1. store \in [Keys -> Object]
    BY <1>2
  <2>2. pods \in [Pods -> Pod]
    BY <1>1
  <2>3. faults \in 0..MaxFaults
    <3>1. faults = 0
      OBVIOUS
    <3> QED
      BY <3>1
  <2>4. operation \in Operations /\ damaged \in BOOLEAN
    OBVIOUS
  <2> QED
    BY <2>1, <2>2, <2>3, <2>4 DEF TypeInv
<1>4. MetInv
  BY DEF MetInv, NewPod
<1>5. AuthorInv
  BY DEF AuthorInv, Uploads, Keys, Absent
<1>6. SoundInv
  BY DEF SoundInv, SoundPod, NewPod, RefKeys
<1>7. GenuineInv /\ RetainedInv
  BY DEF GenuineInv, RetainedInv, Absent, Holding, Keys
<1>8. CompleteInv
  <2> SUFFICES ASSUME NEW p \in Pods PROVE CompletePod(p, pods[p])
    BY DEF CompleteInv
  <2>1. ~store["terminal"].here /\ pods[p] = NewPod
    BY DEF Keys, Absent
  <2> QED
    BY <2>1 DEF CompletePod, Authored, Has, NewPod, Before
<1>9. WellInv
  BY DEF WellInv, WellPod, NewPod, Before
<1> QED
  BY <1>3, <1>4, <1>5, <1>6, <1>7, <1>8, <1>9 DEF RunnerInv

(* It is an invariant.                                                       *)
LEMMA RunnerInvHolds == RunnerSpec => []RunnerInv
<1>1. RunnerInv /\ [RunnerNext]_runnerVars => RunnerInv'
  BY TypeStep, MetStep, AuthorStep, SoundStep, GenuineStep, RetainedStep, CompleteStep,
     WellStep DEF RunnerInv
<1> QED
  BY RunnerInvInit, <1>1, PTL DEF RunnerSpec

(* The store and the Pods keep their types, and every object has the digest  *)
(* of what some Pod uploads under its key.                                   *)
THEOREM RunnerTypeCorrect == RunnerSpec => []RunnerTypeOK
<1>1. RunnerInv => RunnerTypeOK
  BY DEF RunnerInv, TypeInv, AuthorInv, RunnerTypeOK
<1> QED
  BY RunnerInvHolds, <1>1, PTL

(* However many Pods run, and however often a request is repeated, what was  *)
(* stored stays.                                                             *)
THEOREM StoredForGood == RunnerSpec => StoredStays
<1>1. TypeInv /\ [RunnerNext]_runnerVars =>
        [\A k \in Keys : store[k].here => store'[k].digest = store[k].digest]_runnerVars
  BY StoreSteps, DigestsStay
<1>2. RunnerInv => TypeInv
  BY DEF RunnerInv
<1> QED
  BY RunnerInvHolds, <1>1, <1>2, PTL DEF RunnerSpec, StoredStays

(* Evidence that the controller accepts as ready was made by one attempt.    *)
THEOREM OneAttempt == RunnerSpec => []AcceptedIsOneAttempt
<1>1. RunnerInv => AcceptedIsOneAttempt
  <2> SUFFICES ASSUME RunnerInv, Accepts, pods[Author].ready, NEW ref \in Refs
               PROVE  store[ref[1]].bytes = ContentOf(Author, ref[1])
    BY DEF AcceptedIsOneAttempt
  <2>1. PICK p : p = Author
    OBVIOUS
  <2>2. p \in Pods /\ Verified(ref)
    BY <2>1 DEF Accepts
  <2>3. \A k \in RefKeys : pods[p].refs[k] \in {Missing, ContentOf(p, k)}
    BY <2>2 DEF RunnerInv, SoundInv, SoundPod
  <2>4. operation \in {"Plan", "Apply", "Destroy"}
    BY RunnerAssumption DEF RunnerInv, TypeInv
  <2>5. store[ref[1]].bytes = ref[2] /\ ref[2] # Missing
    BY <2>2 DEF Verified
  <2>6. CASE ref = <<"inputs", Same>>
    BY <2>1, <2>5, <2>6 DEF ContentOf
  <2>7. CASE ref = <<"retained", Same>>
    BY <2>1, <2>5, <2>7 DEF ContentOf
  <2>8. ASSUME NEW k \in {"plan", "report", "backend", "source"},
               ref = <<k, pods[p].refs[k]>>
        PROVE  store[ref[1]].bytes = ContentOf(p, ref[1])
    BY <2>3, <2>5, <2>8 DEF RefKeys
  <2>9. CASE ref = <<IF operation = "Destroy" THEN "retained" ELSE "discovery",
                     pods[p].refs["discovery"]>>
    <3>1. ContentOf(p, ref[1]) = ContentOf(p, "discovery")
      BY <2>9 DEF ContentOf
    <3> QED
      BY <2>1, <2>3, <2>5, <2>9, <3>1 DEF RefKeys
  <2> QED
    BY <2>1, <2>6, <2>7, <2>8, <2>9 DEF Refs
<1> QED
  BY RunnerInvHolds, <1>1, PTL

(* The Pod whose result is stored is the one that uploaded it.               *)
LEMMA TheAuthor ==
  ASSUME RunnerInv, ~damaged
  PROVE  /\ store["terminal"].here =>
              Genuine("terminal") /\ Author \in Pods /\ Authored(Author)
         /\ \A p \in Pods : Authored(p) => Author = p
<1>1. "terminal" \in Keys /\ "terminal" \in Uploads
  BY DEF Keys, Uploads
<1>2. \A p \in Pods : ContentOf(p, "terminal") = p
  BY DEF ContentOf
<1>3. store["terminal"].here => store["terminal"].bytes = store["terminal"].digest
  BY <1>1 DEF RunnerInv, GenuineInv
<1>4. ASSUME store["terminal"].here
      PROVE  \E p \in Pods : store["terminal"].digest = p
  BY <1>1, <1>2, <1>4 DEF RunnerInv, AuthorInv
<1> QED
  BY <1>2, <1>3, <1>4 DEF Genuine, Author, Authored, Has

(* If objects are not damaged, evidence is accepted unless it claims to be   *)
(* ready without an outcome or without the discovery; and a Pod that exits   *)
(* with 0 is the one whose evidence is there, with an outcome.               *)
THEOREM EvidenceAccepted == RunnerSpec => []EvidenceIsAccepted
<1>1. ASSUME RunnerInv, ~damaged, store["terminal"].here,
             ~(pods[Author].ready /\ pods[Author].outcome = ""),
             ~(pods[Author].ready /\ pods[Author].refs["discovery"] = Missing)
      PROVE  Accepts
  <2>1. PICK p : p = Author
    OBVIOUS
  <2>2. Genuine("terminal") /\ p \in Pods /\ Authored(p)
    BY <1>1, <2>1, TheAuthor
  <2>3. PICK pod \in Pod : pod = pods[p]
    BY <1>1, <2>2 DEF RunnerInv, TypeInv
  <2>4. CompletePod(p, pod) /\ SoundPod(p, pod)
    BY <1>1, <2>2, <2>3 DEF RunnerInv, CompleteInv, SoundInv
  <2>5. pod.outcome # ""
    BY <1>1, <2>1, <2>2, <2>3, <2>4 DEF CompletePod
  <2>6. ASSUME pod.ready, NEW ref \in Refs PROVE Verified(ref)
    <3>1. ReadyPod(p, pod) /\ pod.refs["discovery"] # Missing
      BY <1>1, <2>1, <2>3, <2>4, <2>6 DEF CompletePod
    <3>2. ASSUME NEW k \in Keys, Has(p, k) PROVE Verified(<<k, ContentOf(p, k)>>)
      <4>1. store[k].here /\ store[k].bytes = ContentOf(p, k)
        BY <1>1, <3>2 DEF Has, RunnerInv, GenuineInv
      <4>2. ContentOf(p, k) # Missing
        BY <2>2, ContentTyped
      <4> QED
        BY <4>1, <4>2 DEF Verified
    <3>3. CASE ref = <<"inputs", Same>>
      <4>1. Has(p, "inputs") /\ "inputs" \in Keys
        BY <3>1 DEF ReadyPod, Keys
      <4>2. ContentOf(p, "inputs") = Same
        BY DEF ContentOf
      <4> QED
        BY <3>2, <3>3, <4>1, <4>2
    <3>4. ASSUME operation # "Plan" PROVE Verified(<<"retained", Same>>)
      <4>1. Has(p, "retained") /\ "retained" \in Keys
        BY <1>1, <3>4 DEF RunnerInv, RetainedInv, Has, ContentOf, Keys
      <4>2. ContentOf(p, "retained") = Same
        BY DEF ContentOf
      <4> QED
        BY <3>2, <4>1, <4>2
    <3>5. ASSUME operation = "Plan", NEW k \in {"plan", "report", "backend", "source"},
                 ref = <<k, pod.refs[k]>>
          PROVE  Verified(ref)
      <4>1. k \in Behind(p, pod) /\ k \in Keys
        BY <2>2, <2>4, <3>5 DEF CompletePod, Behind, Keys
      <4>2. Has(p, k) /\ pod.refs[k] = ContentOf(p, k)
        BY <2>5, <3>1, <3>5, <4>1 DEF ReadyPod
      <4> QED
        BY <3>2, <3>5, <4>1, <4>2
    <3>6. CASE ref = <<IF operation = "Destroy" THEN "retained" ELSE "discovery",
                       pod.refs["discovery"]>>
      <4>1. pod.refs["discovery"] = ContentOf(p, "discovery")
        BY <2>4, <3>1 DEF SoundPod, RefKeys
      <4>2. CASE operation = "Destroy"
        <5>1. pod.refs["discovery"] = Same
          BY <4>1, <4>2 DEF ContentOf
        <5> QED
          BY <3>4, <3>6, <4>2, <5>1
      <4>3. CASE operation # "Destroy"
        <5>1. Has(p, "discovery") /\ "discovery" \in Keys
          BY <2>4, <3>1, <4>3 DEF CompletePod, Keys
        <5> QED
          BY <3>2, <3>6, <4>1, <4>3, <5>1
      <4> QED
        BY <4>2, <4>3
    <3> QED
      BY <2>1, <2>3, <2>6, <3>3, <3>4, <3>5, <3>6 DEF Refs
  <2> QED
    BY <2>1, <2>2, <2>3, <2>5, <2>6 DEF Accepts
<1>2. ASSUME RunnerInv, ~damaged, NEW p \in Pods, pods[p].exit = "0"
      PROVE  store["terminal"].here /\ Author = p /\ pods[p].outcome \notin {"", "Failed"}
  <2>1. PICK pod : pod = pods[p]
    OBVIOUS
  <2>2. Authored(p) /\ ReadyPod(p, pod) /\ ~pod.erred
    BY <1>2, <2>1 DEF RunnerInv, CompleteInv, CompletePod
  <2>3. pod.outcome \notin {"", "Failed"}
    BY <2>2 DEF ReadyPod
  <2> QED
    BY <1>2, <2>1, <2>2, <2>3, TheAuthor DEF Authored, Has
<1>3. RunnerInv => EvidenceIsAccepted
  BY <1>1, <1>2 DEF EvidenceIsAccepted
<1> QED
  BY RunnerInvHolds, <1>3, PTL

(* An attempt that is alone fails only because something failed: repeated    *)
(* requests do no harm.                                                      *)
THEOREM FailsOnlyForAReason == RunnerSpec => []FailsForAReason
<1>1. RunnerInv => FailsForAReason
  BY DEF RunnerInv, WellInv, WellPod, Alone, FailsForAReason
<1> QED
  BY RunnerInvHolds, <1>1, PTL
=============================================================================
