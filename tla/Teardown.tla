------------------------------- MODULE Teardown -------------------------------
(***************************************************************************)
(* What deleting an environment promises to its user: first nothing is     *)
(* recorded in the target cluster any more, then the infrastructure goes,  *)
(* then the environment.  Environment implements it.                       *)
(***************************************************************************)
VARIABLES
  env,      \* "wanted", "deleting" or "gone"
  runtime,  \* whether runtime objects may be recorded or applied
  infra     \* whether Terraform manages anything

teardownVars == <<env, runtime, infra>>

TeardownInit == env = "wanted" /\ runtime = "unused" /\ infra = "absent"

(* The environment, as long as it is not gone, may put objects into the      *)
(* cluster.                                                                  *)
Use ==
  /\ env # "gone" /\ runtime = "unused"
  /\ runtime' = "used"
  /\ UNCHANGED <<env, infra>>

StopUsing ==
  /\ runtime = "used"
  /\ runtime' = "unused"
  /\ UNCHANGED <<env, infra>>

(* An Apply that was under way may still succeed during the deletion. *)
Build ==
  /\ env # "gone" /\ infra = "absent"
  /\ infra' = "present"
  /\ UNCHANGED <<env, runtime>>

Demolish ==
  /\ env = "deleting" /\ runtime = "unused" /\ infra = "present"
  /\ infra' = "absent"
  /\ UNCHANGED <<env, runtime>>

RequestDeletion ==
  /\ env = "wanted"
  /\ env' = "deleting"
  /\ UNCHANGED <<runtime, infra>>

Leave ==
  /\ env # "gone" /\ runtime = "unused" /\ infra = "absent"
  /\ env' = "gone"
  /\ UNCHANGED <<runtime, infra>>

TeardownNext ==
  Use \/ StopUsing \/ Build \/ Demolish \/ RequestDeletion \/ Leave

TeardownSpec == TeardownInit /\ [][TeardownNext]_teardownVars
=============================================================================
