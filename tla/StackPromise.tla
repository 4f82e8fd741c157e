----------------------------- MODULE StackPromise -----------------------------
(***************************************************************************)
(* What an InfraStack promises to whoever owns it, without Plans, runs and *)
(* caches: it is reported ready or removed only under the conditions the   *)
(* owner relies on, and infrastructure comes and goes only through an      *)
(* Apply.  InfraStack implements it; Environment is built on it.           *)
(***************************************************************************)

VARIABLES
  stack,     \* the object, see StackRecord
  infra,     \* whether Terraform manages anything
  applying,  \* the mode of the Apply whose Job runs, "none" without one
  asked      \* whether anybody has ever asked for the removal

promiseVars == <<stack, infra, applying, asked>>

(* The reasons of the Ready condition an owner tells apart; Pending stands   *)
(* for all others.  current tells that the condition is that of the current  *)
(* generation.                                                               *)
StackReasons == {"Pending", "Ready", "Removed", "Recovery"}

StackRecord ==
  [exists : BOOLEAN, deleting : BOOLEAN, finalizer : BOOLEAN,
   desired : {"Present", "Destroy"}, fence : BOOLEAN,
   reason : StackReasons, current : BOOLEAN]

NewStack ==
  [exists |-> TRUE, deleting |-> FALSE, finalizer |-> FALSE,
   desired |-> "Present", fence |-> FALSE,
   reason |-> "Pending", current |-> FALSE]

NoStack == [NewStack EXCEPT !.exists = FALSE]

AskedToGo == stack.desired = "Destroy" \/ stack.deleting

PromiseInit ==
  /\ stack \in {NoStack, NewStack}
  /\ infra = "absent" /\ applying = "none" /\ asked = FALSE

-----------------------------------------------------------------------------
(* The owner. *)

Own(new) ==
  /\ stack' = [new EXCEPT !.current = FALSE]
  /\ asked' = (asked \/ new.desired = "Destroy" \/ new.deleting)
  /\ UNCHANGED <<infra, applying>>

CreateOwned == stack = NoStack /\ Own(NewStack)

(* The whole spec is written, with or without fence. *)
WriteSpec ==
  /\ stack.exists
  /\ \E desired \in {"Present", "Destroy"}, fence \in BOOLEAN :
       Own([stack EXCEPT !.desired = desired, !.fence = fence])

(* An object without finalizer is gone at once. *)
DeleteOwned ==
  stack.exists /\ Own([stack EXCEPT !.deleting = TRUE, !.exists = @ /\ stack.finalizer])

-----------------------------------------------------------------------------
(* The reconciler. *)

KeepsInfra == UNCHANGED <<infra, applying, asked>>

Adopt ==
  /\ stack.exists /\ ~stack.deleting
  /\ stack' = [stack EXCEPT !.finalizer = TRUE]
  /\ KeepsInfra

(* A stack is reconciled once it has its finalizer. *)
Reconcilable == stack.exists /\ (stack.finalizer \/ stack.deleting)

Fence ==
  /\ Reconcilable /\ AskedToGo
  /\ stack' = [stack EXCEPT !.fence = TRUE, !.current = FALSE]
  /\ KeepsInfra

(* What has to be the case for a reason to be reported.  Ready promises      *)
(* nothing about the infrastructure itself: the Plan of a new generation may *)
(* be judged while an Apply of an earlier one has started and not changed    *)
(* anything yet.  Removed is not taken back.                                 *)
Justified(reason) ==
  /\ reason = "Ready" => ~AskedToGo /\ ~stack.fence
  /\ reason = "Recovery" => AskedToGo /\ stack.fence
  /\ reason = "Removed" =>
       AskedToGo /\ stack.fence /\ infra = "absent" /\ applying = "none"
  /\ stack.reason = "Removed" /\ AskedToGo => reason = "Removed"

Reported(reason) == [stack EXCEPT !.reason = reason, !.current = TRUE]

Report(reason) ==
  /\ Reconcilable /\ Justified(reason)
  /\ stack' = Reported(reason)
  /\ KeepsInfra

(* The finalizer goes when the removal is reported. *)
ReportAndRelease ==
  /\ Reconcilable /\ Justified("Removed")
  /\ stack' = [Reported("Removed") EXCEPT !.finalizer = FALSE,
                                          !.exists = ~stack.deleting]
  /\ KeepsInfra

-----------------------------------------------------------------------------
(* Applies. *)

StartRunning(mode) ==
  /\ applying = "none"
  /\ stack.exists /\ stack.reason # "Removed"
  /\ mode = "Destroy" => asked
  /\ applying' = mode
  /\ UNCHANGED <<stack, infra, asked>>

(* With or without success. *)
EndRunning ==
  /\ applying # "none"
  /\ infra' \in {infra, IF applying = "Destroy" THEN "absent" ELSE "present"}
  /\ applying' = "none"
  /\ UNCHANGED <<stack, asked>>

Owner == CreateOwned \/ WriteSpec \/ DeleteOwned

StackReconciler ==
  \/ Adopt \/ Fence \/ ReportAndRelease
  \/ \E reason \in StackReasons : Report(reason)

StackApplies ==
  (\E mode \in {"Reconcile", "Destroy"} : StartRunning(mode)) \/ EndRunning

PromiseNext == Owner \/ StackReconciler \/ StackApplies

PromiseSpec == PromiseInit /\ [][PromiseNext]_promiseVars
=============================================================================
