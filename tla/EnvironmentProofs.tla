-------------------------- MODULE EnvironmentProofs ---------------------------
(***************************************************************************)
(* Proofs about Environment, for any objects, versions, waves and caches   *)
(* and any number of edits and faults: the types, that an environment is   *)
(* reported ready only when everything of its generation was applied, and  *)
(* that its deletion implements Teardown.                                  *)
(***************************************************************************)
EXTENDS Environment, ResourceSetProofs

EnvTypes ==
  /\ env \in EnvRecord /\ envView \in EnvRecord
  /\ stack \in StackRecord /\ stackView \in StackRecord
  /\ built \in Versions /\ builtView \in Versions
  /\ infra \in {"absent", "present"}
  /\ applying \in {"none", "Reconcile", "Destroy"} /\ asked \in BOOLEAN
  /\ edits \in 0..MaxEdits

(* An environment only ever goes on: to its finalizer, to its deletion, to   *)
(* its end.                                                                  *)
EnvLater(old, new) ==
  /\ new.exists => old.exists
  /\ old.deleting => new.deleting
  /\ old.finalizer /\ new.exists => new.finalizer

Absent == infra = "absent" /\ applying = "none"

(* Nothing has been made for an environment that has no finalizer.           *)
Untouched ==
  stack = NoStack /\ ~StackSeen.exists /\ Absent /\ ~set.exists /\ ~asked

NeverWanted == EnvSeen.deleting \/ ~EnvSeen.finalizer

(* No object can be recorded or applied any more.                            *)
Sealed ==
  set.exists => /\ ~set.open /\ (SetSeen.exists => ~SetSeen.open)
                /\ Named(set.inventory) = {} /\ pass.at # "apply"

ChildInv ==
  /\ EnvLater(envView, env)
  /\ ~env.exists => env.deleting /\ ~env.finalizer /\ NeverWanted
  /\ env.exists /\ ~env.finalizer => Untouched

(* A ResourceSet, as it is read, that is ready has recorded what it names.   *)
Recorded(record, done) ==
  record.exists /\ record.reason = "RuntimeReady" /\ record.observed = record.gen =>
    /\ Named(record.inventory) = record.resources
    /\ \A o \in record.resources : <<o, record.inventory[o]>> \in done

ReadyInv == env.observed <= env.gen /\ Recorded(setView, applied) /\ ReadyIsEarned

(* What is read late is late in a harmless way: a set that the cache does    *)
(* not show yet has recorded nothing, a stack that it does not show has      *)
(* built nothing, and a removal that it shows has taken place.               *)
SetOrder ==
  /\ set = NoSet => ~setView.exists /\ pass = Idle
  /\ set.exists /\ ~SetSeen.exists =>
       ~set.open /\ Named(set.inventory) = {} /\ pass = Idle
  /\ asked \/ ~env.exists => Sealed

StackOrder ==
  /\ asked => EnvSeen.deleting
  /\ AskedToGo => asked
  /\ stack.exists => env.finalizer \/ EnvSeen.deleting
  /\ applying = "Destroy" => asked
  /\ stack.reason = "Removed" => AskedToGo /\ Absent
  /\ StackSeen.reason = "Removed" => stack.reason = "Removed"
  /\ ~StackSeen.exists \/ ~stack.exists \/ ~env.exists => Absent

EnvInv == EnvTypes /\ SetInv /\ ChildInv /\ ReadyInv /\ SetOrder /\ StackOrder

-----------------------------------------------------------------------------
(* What is read                                                              *)

(* What is read has its type, and is at most late.                           *)
LEMMA Seen ==
  ASSUME EnvInv
  PROVE  /\ EnvSeen \in EnvRecord /\ EnvLater(EnvSeen, env)
         /\ StackSeen \in StackRecord /\ BuiltSeen \in Versions
         /\ SetSeen \in SetRecord /\ Recorded(SetSeen, applied)
<1>1. EnvLater(env, env)
  BY DEF EnvLater
<1>2. Recorded(set, applied)
  BY DEF EnvInv, SetInv, ReadyIsRecorded, Recorded
<1> QED
  BY <1>1, <1>2 DEF EnvInv, EnvTypes, ChildInv, ReadyInv, SetInv, RecordOK, EnvSeen,
     StackSeen, BuiltSeen, SetSeen

(* No children are made for an environment that is gone, or once the removal *)
(* was asked for.                                                            *)
LEMMA NotWanted ==
  ASSUME EnvInv, asked \/ ~env.exists \/ ~env.finalizer
  PROVE  ~Wanted
BY Seen DEF EnvInv, ChildInv, StackOrder, NeverWanted, Wanted, EnvLater

(* Once the set is gone from the cache, no object is recorded or applied.    *)
LEMMA GoneIsSealed ==
  ASSUME EnvInv, ~SetSeen.exists
  PROVE  Sealed
BY DEF EnvInv, SetOrder, Sealed, Idle

-----------------------------------------------------------------------------
(* Writes of the environment                                                 *)

EnvWrites ==
  \/ AddEnvFinalizer \/ ReportEnv \/ MarkDeleting \/ ReleaseEnv
  \/ RefuseEnv \/ SwitchClass \/ DeleteEnv

(* What is left behind when the environment goes.                            *)
Goes ==
  /\ env.exists /\ ~env'.exists /\ env'.deleting /\ ~env'.finalizer
  /\ EnvSeen.deleting \/ (~EnvSeen.finalizer /\ ~stack.exists)
  /\ Sealed /\ Absent

EnvEdit ==
  /\ UNCHANGED <<envViews, promised, set, setView, pass, world, applied>>
  /\ troubles' \in 0..MaxFaults /\ troubles <= troubles' /\ edits' \in 0..MaxEdits
  /\ env' \in EnvRecord /\ EnvLater(env, env') /\ env'.observed <= env'.gen
  /\ UNCHANGED env \/ (env.exists /\ env'.exists) \/ Goes
  /\ ReadyIsEarned'

(* What a condition changes.                                                 *)
LEMMA ConditionIs ==
  ASSUME NEW reason \in EnvReasons, NEW new, EnvSeen \in EnvRecord,
         new = EnvCondition(reason)
  PROVE  /\ new \in EnvRecord /\ new.reason = reason
         /\ new.observed = EnvSeen.gen /\ new.gen = EnvSeen.gen
         /\ new.gen \in Nat /\ new.gen <= new.gen
         /\ new.exists = EnvSeen.exists /\ new.deleting = EnvSeen.deleting
         /\ new.finalizer = EnvSeen.finalizer /\ new.version = EnvSeen.version
<1>1. PICK old \in EnvRecord : old = EnvSeen
  OBVIOUS
<1>2. new = [old EXCEPT !.reason = reason, !.observed = old.gen]
  BY <1>1 DEF EnvCondition
<1>3. /\ new \in EnvRecord /\ new.reason = reason
      /\ new.observed = old.gen /\ new.gen = old.gen /\ new.gen \in Nat
      /\ new.exists = old.exists /\ new.deleting = old.deleting
      /\ new.finalizer = old.finalizer /\ new.version = old.version
  BY <1>2 DEF EnvRecord
<1>4. new.gen <= new.gen
  BY <1>3
<1> QED
  BY <1>1, <1>3, <1>4

(* Counters that do not move, or move below their bound.                     *)
LEMMA Counters ==
  ASSUME EnvInv
  PROVE  /\ troubles \in 0..MaxFaults /\ troubles <= troubles /\ edits \in 0..MaxEdits
         /\ troubles < MaxFaults =>
              troubles + 1 \in 0..MaxFaults /\ troubles <= troubles + 1
         /\ edits < MaxEdits => edits + 1 \in 0..MaxEdits
<1>1. troubles \in 0..MaxFaults /\ edits \in 0..MaxEdits
  BY DEF EnvInv, EnvTypes, SetInv
<1> QED
  BY <1>1, Bounds

(* A write that fails changes nothing.                                       *)
LEMMA NothingEdits ==
  ASSUME EnvInv, UNCHANGED env,
         UNCHANGED <<envViews, promised, set, setView, pass, world, applied, edits>>,
         troubles' \in 0..MaxFaults, troubles <= troubles'
  PROVE  EnvEdit
<1>1. /\ env \in EnvRecord /\ env.observed <= env.gen /\ edits \in 0..MaxEdits
      /\ ReadyIsEarned
  BY DEF EnvInv, EnvTypes, ReadyInv
<1>2. /\ env' \in EnvRecord /\ env'.observed <= env'.gen /\ edits' \in 0..MaxEdits
      /\ EnvLater(env, env') /\ UNCHANGED env
  BY <1>1 DEF EnvLater
<1>3. ReadyIsEarned'
  BY <1>1 DEF ReadyIsEarned
<1> QED
  BY <1>2, <1>3 DEF EnvEdit

(* A condition that does not claim readiness may always be written.          *)
LEMMA ConditionEdits ==
  ASSUME EnvInv, NEW reason \in EnvReasons, UpdateEnv(EnvCondition(reason)),
         EnvSeen.exists,
         UNCHANGED <<envViews, promised, set, setView, pass, world, applied, edits>>,
         troubles' \in 0..MaxFaults, troubles <= troubles',
         reason = "EnvironmentReady" =>
           \A o \in EnvSeen.version : \E incarnation \in applied : incarnation[1] = o
  PROVE  EnvEdit
<1>1. PICK new : new = EnvCondition(reason)
  OBVIOUS
<1>2. /\ EnvSeen \in EnvRecord /\ env \in EnvRecord
      /\ env.observed <= env.gen /\ ReadyIsEarned /\ edits \in 0..MaxEdits
  BY Seen DEF EnvInv, EnvTypes, ReadyInv
<1>3. /\ new \in EnvRecord /\ new.reason = reason
      /\ new.observed = EnvSeen.gen /\ new.gen = EnvSeen.gen /\ new.gen <= new.gen
      /\ new.exists = EnvSeen.exists /\ new.deleting = EnvSeen.deleting
      /\ new.finalizer = EnvSeen.finalizer /\ new.version = EnvSeen.version
  BY <1>1, <1>2, ConditionIs
<1>4. CASE UNCHANGED env
  BY <1>4, NothingEdits
<1>5. CASE env = EnvSeen /\ env' = new
  <2>1. EnvLater(env, env') /\ (env'.exists \/ ~env.exists)
    BY <1>3, <1>5 DEF EnvLater
  <2> QED
    BY <1>2, <1>3, <1>5, <2>1 DEF EnvEdit, ReadyIsEarned
<1> QED
  BY <1>1, <1>4, <1>5 DEF UpdateEnv, EnvAsSeen

(* A report of readiness is earned.                                          *)
LEMMA ReportEdits ==
  ASSUME EnvInv, ReportEnv
  PROVE  EnvEdit
<1>1. /\ EnvSeen.exists /\ UpdateEnv(EnvCondition(Verdict))
      /\ UNCHANGED <<envViews, promised, setVars>> /\ SetSeen.exists
  BY DEF ReportEnv, StackSettled, Wanted, OnlyEnv, KeepsStack, KeepsSet
<1>2. Verdict \in EnvReasons
  BY DEF Verdict, EnvReasons
<1>3. Verdict = "EnvironmentReady" => RuntimeReady
  BY DEF Verdict
<1>4. ASSUME RuntimeReady
      PROVE  \A o \in EnvSeen.version : \E incarnation \in applied : incarnation[1] = o
  <2>1. \A o \in EnvSeen.version : <<o, SetSeen.inventory[o]>> \in applied
    BY <1>1, <1>4, Seen DEF RuntimeReady, SetCurrent, Recorded
  <2>2. \A o \in EnvSeen.version : <<o, SetSeen.inventory[o]>>[1] = o
    OBVIOUS
  <2> QED
    BY <2>1, <2>2
<1> QED
  BY <1>1, <1>2, <1>3, <1>4, Counters, ConditionEdits DEF setVars, boundVars

(* Edits of the user.                                                        *)
LEMMA UserEdits ==
  ASSUME EnvInv, SwitchClass \/ DeleteEnv
  PROVE  EnvEdit
<1>1. PICK old \in EnvRecord : old = env
  BY DEF EnvInv, EnvTypes
<1>2. PICK gen \in Nat : gen = old.gen + 1 /\ old.observed <= gen /\ old.observed # gen
  <2>1. old.gen \in Nat /\ old.observed \in Nat
    BY DEF EnvRecord
  <2>2. old.observed <= old.gen
    BY <1>1 DEF EnvInv, ReadyInv
  <2>3. old.gen + 1 \in Nat /\ old.observed <= old.gen + 1 /\ old.observed # old.gen + 1
    BY <2>1, <2>2
  <2> QED
    BY <2>3
<1>3. /\ UNCHANGED <<envViews, promised, set, setView, pass, world, applied, troubles>>
      /\ old.exists /\ ~old.deleting
  BY <1>1 DEF SwitchClass, DeleteEnv, EditEnv
<1>4. edits' \in 0..MaxEdits
  BY Counters DEF SwitchClass, DeleteEnv
<1>5. CASE SwitchClass
  <2>1. PICK version \in Versions : EditEnv([env EXCEPT !.version = version])
    BY <1>5 DEF SwitchClass
  <2>2. PICK new : new = [old EXCEPT !.version = version, !.gen = gen]
    OBVIOUS
  <2>3. /\ new \in EnvRecord /\ new.gen = gen /\ new.observed = old.observed
        /\ new.exists = old.exists /\ new.deleting = old.deleting
        /\ new.finalizer = old.finalizer
    BY <2>2 DEF EnvRecord
  <2>4. PICK mid \in EnvRecord : mid = [old EXCEPT !.version = version]
    BY DEF EnvRecord
  <2>5. mid.gen = old.gen /\ [mid EXCEPT !.gen = gen] = new
    BY <2>2, <2>4 DEF EnvRecord
  <2>6. env' = new
    BY <1>1, <1>2, <2>1, <2>4, <2>5 DEF EditEnv
  <2> QED
    BY <1>1, <1>2, <1>3, <1>4, <2>3, <2>6, Counters
       DEF EnvEdit, EnvLater, ReadyIsEarned
<1>6. CASE DeleteEnv
  <2>1. PICK new : new = [old EXCEPT !.deleting = TRUE, !.exists = old.finalizer, !.gen = gen]
    OBVIOUS
  <2>2. /\ new \in EnvRecord /\ new.gen = gen /\ new.observed = old.observed
        /\ new.exists = old.finalizer /\ new.deleting
        /\ new.finalizer = old.finalizer
    BY <2>1 DEF EnvRecord
  <2>3. PICK mid \in EnvRecord : mid = [old EXCEPT !.deleting = TRUE, !.exists = old.finalizer]
    BY DEF EnvRecord
  <2>4. mid.gen = old.gen /\ [mid EXCEPT !.gen = gen] = new
    BY <2>1, <2>3 DEF EnvRecord
  <2>5. env' = new
    BY <1>1, <1>2, <1>6, <2>3, <2>4 DEF DeleteEnv, EditEnv
  <2>6. ASSUME ~old.finalizer PROVE Goes
    <3>1. stack = NoStack /\ Absent /\ ~set.exists
      BY <1>1, <1>3, <2>6 DEF EnvInv, ChildInv, Untouched
    <3>2. ~NoStack.exists
      BY DEF NoStack, NewStack
    <3>3. ~EnvSeen.finalizer
      BY <1>1, <1>3, <2>6, Seen DEF EnvLater
    <3> QED
      BY <1>1, <1>3, <2>2, <2>5, <2>6, <3>1, <3>2, <3>3 DEF Goes, Sealed
  <2> QED
    BY <1>1, <1>2, <1>3, <1>4, <2>2, <2>5, <2>6, Counters
       DEF EnvEdit, EnvLater, ReadyIsEarned
<1> QED
  BY <1>5, <1>6

(* The finalizer comes first, and goes when everything else has gone.        *)
LEMMA FinalizerEdits ==
  ASSUME EnvInv, AddEnvFinalizer \/ ReleaseEnv
  PROVE  EnvEdit
<1>1. /\ UNCHANGED <<envViews, promised, setVars>> /\ EnvSeen.exists
      /\ env \in EnvRecord /\ env.observed <= env.gen /\ ReadyIsEarned
  BY DEF AddEnvFinalizer, ReleaseEnv, SetGone, StackFenced, Leaving, OnlyEnv, KeepsStack,
     KeepsSet, EnvInv, EnvTypes, ReadyInv
<1>2. CASE UNCHANGED env
  BY <1>1, <1>2, Counters, NothingEdits DEF setVars, boundVars
<1>3. CASE env = EnvSeen /\ env' = [env EXCEPT !.finalizer = TRUE]
  <2>1. /\ env' \in EnvRecord /\ env'.gen = env.gen /\ env'.observed = env.observed
        /\ env'.exists = env.exists /\ env'.deleting = env.deleting
        /\ env'.finalizer /\ env'.version = env.version /\ env'.reason = env.reason
    BY <1>1, <1>3 DEF EnvRecord
  <2> QED
    BY <1>1, <1>3, <2>1, Counters DEF EnvEdit, EnvLater, ReadyIsEarned, setVars, boundVars
<1>4. CASE /\ ReleaseEnv /\ env = EnvSeen
           /\ env' = [env EXCEPT !.finalizer = FALSE, !.exists = FALSE]
  <2>1. /\ env' \in EnvRecord /\ env'.gen = env.gen /\ env'.observed = env.observed
        /\ ~env'.exists /\ env'.deleting = env.deleting /\ ~env'.finalizer
    BY <1>1, <1>4 DEF EnvRecord
  <2>2. env.deleting /\ ~SetSeen.exists /\ ~StackSeen.exists
    BY <1>4 DEF ReleaseEnv, SetGone, StackFenced, Leaving
  <2>3. Sealed /\ Absent
    BY <2>2, GoneIsSealed DEF EnvInv, StackOrder
  <2>4. Goes
    BY <1>1, <1>4, <2>1, <2>2, <2>3 DEF Goes
  <2> QED
    BY <1>1, <2>1, <2>2, <2>4, Counters
       DEF EnvEdit, EnvLater, ReadyIsEarned, setVars, boundVars
<1> QED
  BY <1>2, <1>3, <1>4 DEF AddEnvFinalizer, ReleaseEnv, UpdateEnv, EnvAsSeen

(* All of these writes leave the environment right.                          *)
LEMMA WritesEdit ==
  EnvInv /\ EnvWrites => EnvEdit
<1> SUFFICES ASSUME EnvInv, EnvWrites PROVE EnvEdit
  OBVIOUS
<1>1. CASE MarkDeleting
  <2>1. /\ EnvSeen.exists /\ UpdateEnv(EnvCondition("Deleting"))
        /\ UNCHANGED <<envViews, promised, setVars>>
    BY <1>1 DEF MarkDeleting, OnlyEnv, KeepsStack, KeepsSet
  <2> QED
    BY <2>1, Counters, ConditionEdits DEF setVars, boundVars, EnvReasons
<1>2. CASE RefuseEnv
  <2>1. /\ EnvSeen.exists /\ UpdateEnv(EnvCondition("Refused"))
        /\ UNCHANGED <<envViews, promised, set, setView, pass, world, applied, edits>>
        /\ troubles' = troubles \/ (troubles < MaxFaults /\ troubles' = troubles + 1)
    BY <1>2 DEF RefuseEnv, Wanted
  <2> QED
    BY <2>1, Counters, ConditionEdits DEF EnvReasons
<1> QED
  BY <1>1, <1>2, ReportEdits, UserEdits, FinalizerEdits DEF EnvWrites

-----------------------------------------------------------------------------
(* What happens to the set                                                   *)

(* The controller of the set does nothing about a set that it does not see.  *)
LEMMA UnseenSet ==
  ASSUME SetWork, pass = Idle, ~SetSeen.exists
  PROVE  UNCHANGED <<set, pass>>
<1>1. pass.at = "idle"
  BY DEF Idle
<1>2. ~AddSetFinalizer /\ ~BlockMutation /\ ~BeginApply /\ ~BeginCleanup /\ ~RejectSpec
  BY DEF AddSetFinalizer, BlockMutation, BeginApply, BeginCleanup, RejectSpec, SetPresent
<1>3. ~FinishApply /\ ~FinishCleanup /\ ~StopPass
  BY <1>1 DEF FinishApply, FinishCleanup, StopPass, Idling, PruneDone, Pruning
<1>4. ASSUME NEW o \in Objects
      PROVE  /\ ~ApplyObject(o) /\ ~CheckObject(o) /\ ~FailToApply(o)
             /\ ~ReadDoomed(o) /\ ~DeleteDoomed(o) /\ ~ConfirmPruned(o)
  BY <1>1 DEF ApplyObject, CheckObject, FailToApply, Applying, ReadDoomed, Pruning,
     DeleteDoomed, ConfirmPruned
<1>5. Cluster
  BY <1>2, <1>3, <1>4 DEF SetWork, ReconcileSet, SetFaults
<1> QED
  BY <1>5 DEF Cluster, BecomeReady, Vanish, Disturb, Becomes, CacheSet

(* How a pass goes on.                                                       *)
LEMMA PassMoves ==
  ASSUME SetInv, SetWork
  PROVE  \/ UNCHANGED pass \/ pass' = Idle \/ (pass # Idle /\ pass'.at = pass.at)
         \/ pass = Idle /\ BeginApply
         \/ pass = Idle /\ BeginCleanup
<1> SUFFICES ASSUME pass' # pass, pass' # Idle, ~BeginApply, ~BeginCleanup
             PROVE  pass # Idle /\ pass'.at = pass.at
  BY DEF BeginApply, BeginCleanup, Idling
<1>1. \E o \in Objects :
        ApplyObject(o) \/ CheckObject(o) \/ ReadDoomed(o) \/ DeleteDoomed(o)
          \/ ConfirmPruned(o)
  BY DEF SetWork, ReconcileSet, SetFaults, Cluster, AddSetFinalizer, BlockMutation,
     FinishApply, FinishCleanup, RejectSpec, StopPass, FailToApply, EndPass,
     BecomeReady, Vanish, Disturb, Becomes, CacheSet
<1>2. PICK o \in Objects :
        ApplyObject(o) \/ CheckObject(o) \/ ReadDoomed(o) \/ DeleteDoomed(o)
          \/ ConfirmPruned(o)
  BY <1>1
<1>3. pass # Idle
  BY <1>2 DEF ApplyObject, CheckObject, Applying, ReadDoomed, Pruning, DeleteDoomed,
     ConfirmPruned, Idle
<1>4. PICK p \in Passes({"apply", "cleanup"}) : p = pass
  BY <1>3 DEF SetInv, PassOK
<1>5. ASSUME ApplyObject(o) PROVE pass'.at = p.at
  <2>1. PICK items : items = [p.items EXCEPT ![o] = AppliedThing(o).uid]
    OBVIOUS
  <2>2. [p EXCEPT !.items = items].at = p.at
    BY DEF Passes
  <2>3. pass' = [p EXCEPT !.items = items]
    BY <1>4, <1>5, <2>1 DEF ApplyObject
  <2> QED
    BY <2>2, <2>3
<1>6. ASSUME CheckObject(o) PROVE pass'.at = p.at
  BY <1>4, <1>6 DEF CheckObject, EndPass, Passes
<1>7. /\ [p EXCEPT !.item = o, !.got = world[o]].at = p.at
      /\ [p EXCEPT !.pruned = p.pruned \cup {o}, !.item = "none"].at = p.at
  BY DEF Passes
<1>8. ASSUME ReadDoomed(o) \/ ConfirmPruned(o) PROVE pass'.at = p.at
  <2>1. \/ pass' = [p EXCEPT !.item = o, !.got = world[o]]
        \/ pass' = [p EXCEPT !.pruned = p.pruned \cup {o}, !.item = "none"]
    BY <1>4, <1>8 DEF ReadDoomed, ConfirmPruned, RejectPrune, EndPass, Pruned
  <2> QED
    BY <1>7, <2>1
<1>9. ASSUME DeleteDoomed(o) PROVE pass'.at = p.at
  <2>1. PICK got : got = [p.got EXCEPT !.here = FALSE]
    OBVIOUS
  <2>2. [p EXCEPT !.got = got].at = p.at
    BY DEF Passes
  <2>3. pass' = [p EXCEPT !.got = got]
    BY <1>4, <1>9, <2>1 DEF DeleteDoomed, RejectPrune, EndPass
  <2> QED
    BY <2>2, <2>3
<1> QED
  BY <1>2, <1>3, <1>4, <1>5, <1>6, <1>8, <1>9

(* Only its cache is filled while nothing else happens.                      *)
LEMMA ViewMoves ==
  ASSUME SetWork
  PROVE  \/ UNCHANGED setView
         \/ "set" \in Lagging /\ setView' = set /\ UNCHANGED <<set, pass>>
BY DEF SetWork, ReconcileSet, SetFaults, Cluster, AddSetFinalizer, BlockMutation,
     BeginApply, BeginCleanup, Start, FinishApply, FinishCleanup, ApplyObject,
     CheckObject, ReadDoomed, DeleteDoomed, ConfirmPruned, EndPass, RejectPrune,
     RejectSpec, StopPass, FailToApply, BecomeReady, Vanish, Disturb, Becomes, CacheSet

(* What the controller of the set changes in it.                             *)
SetStays ==
  /\ set'.exists => set.exists
  /\ set'.open = set.open
  /\ set'.inventory = set.inventory \/ pass.at = "apply"
  /\ set' # NoSet

(* It never makes a set.                                                     *)
LEMMA WorkStays ==
  ASSUME SetInv, SetWork
  PROVE  UNCHANGED set \/ SetStays
<1>1. /\ set \in SetRecord /\ NoSet.observed # NoSet.gen
      /\ ~NoSet.finalizer /\ ~NoSet.deleting
  <2>1. NoSet.observed = 0 /\ NoSet.gen = 1 /\ ~NoSet.finalizer /\ ~NoSet.deleting
    BY DEF NoSet, NewSet
  <2> QED
    BY <2>1 DEF SetInv, RecordOK
<1>2. ASSUME NEW reason \in SetReasons, set' = SetStatus(set, reason)
      PROVE  SetStays
  <2>1. PICK old \in SetRecord : old = set
    BY <1>1
  <2>2. set' = [old EXCEPT !.reason = reason, !.observed = old.gen]
    BY <1>2, <2>1 DEF SetStatus
  <2>3. /\ set'.exists = old.exists /\ set'.open = old.open
        /\ set'.inventory = old.inventory /\ set'.observed = old.gen
        /\ set'.gen = old.gen
    BY <2>2 DEF SetRecord
  <2>4. set' # NoSet
    BY <1>1, <2>3
  <2> QED
    BY <2>1, <2>3, <2>4 DEF SetStays
<1>3. CASE set' = [set EXCEPT !.finalizer = TRUE]
  <2>1. /\ set'.exists = set.exists /\ set'.open = set.open
        /\ set'.inventory = set.inventory /\ set'.finalizer
    BY <1>1, <1>3 DEF SetRecord
  <2> QED
    BY <1>1, <2>1 DEF SetStays
<1>4. CASE FinishApply /\ set = pass.view
  <2>1. /\ PassOK(pass, world, applied, troubles) /\ pass.items \in Inventory
        /\ pass.at = "apply"
    BY <1>4 DEF FinishApply, PruneDone, Pruning, SetInv, Idle, PassOK, Passes, Cleaning
  <2>2. PICK reason \in SetReasons :
          set' = [SetStatus(set, reason) EXCEPT !.inventory = pass.items]
    BY <1>4 DEF FinishApply, UpdateSet, SetReasons
  <2>3. PICK status : status = SetStatus(set, reason)
    OBVIOUS
  <2>4. status \in SetRecord /\ status.observed = set.gen /\ status.gen = set.gen
        /\ status.exists = set.exists /\ status.open = set.open
    BY <1>1, <2>3 DEF SetStatus, SetRecord
  <2>5. /\ set'.exists = set.exists /\ set'.open = set.open
        /\ set'.observed = set.gen /\ set'.gen = set.gen
    BY <2>2, <2>3, <2>4 DEF SetRecord
  <2>6. set' # NoSet
    BY <1>1, <2>5
  <2> QED
    BY <2>1, <2>5, <2>6 DEF SetStays
<1>5. CASE /\ FinishCleanup /\ set = pass.view
           /\ set' = [set EXCEPT !.finalizer = FALSE, !.exists = FALSE]
  <2>1. set.deleting
    BY <1>5 DEF FinishCleanup, Cleaning, PruneDone, Pruning, SetInv, PassOK, Idle
  <2>2. /\ ~set'.exists /\ set'.open = set.open
        /\ set'.inventory = set.inventory /\ set'.deleting
    BY <1>1, <1>5, <2>1 DEF SetRecord
  <2> QED
    BY <1>1, <2>2 DEF SetStays
<1> QED
  BY <1>2, <1>3, <1>4, <1>5, WorkChanges DEF WorkChange

(* What can happen to the set in a step of the whole.                        *)
SetPart ==
  \/ UNCHANGED <<set, setView, pass>>
  \/ Wanted /\ PutSet
  \/ /\ SetSeen.exists
     /\ \E resources \in Versions, open \in BOOLEAN :
          (open => Wanted) /\ WriteSetSpec(resources, open)
  \/ DeleteSet
  \/ SetWork

(* Owners change the spec, not the inventory; what they delete is not there  *)
(* again as it was at first.                                                 *)
LEMMA OwnerStays ==
  ASSUME EnvInv, NEW resources \in Versions, NEW open \in BOOLEAN,
         WriteSetSpec(resources, open) \/ DeleteSet
  PROVE  /\ UNCHANGED <<setView, pass>> /\ set.exists /\ set' # NoSet
         /\ set'.inventory = set.inventory
         /\ set'.open = open \/ (DeleteSet /\ set'.open = set.open)
<1>1. set \in SetRecord /\ ~NoSet.exists /\ ~NoSet.deleting
  <2>1. ~NoSet.exists /\ ~NoSet.deleting
    BY DEF NoSet, NewSet
  <2> QED
    BY <2>1 DEF EnvInv, SetInv, RecordOK
<1>2. CASE WriteSetSpec(resources, open)
  <2>1. /\ set' = [set EXCEPT !.resources = resources, !.open = open, !.gen = @ + 1]
        /\ UNCHANGED <<setView, pass>> /\ set.exists
    BY <1>2 DEF WriteSetSpec, OwnSet
  <2>2. set'.inventory = set.inventory /\ set'.open = open /\ set'.exists = set.exists
    BY <1>1, <2>1 DEF SetRecord
  <2> QED
    BY <1>1, <2>1, <2>2
<1>3. CASE DeleteSet
  <2>1. /\ set' = [set EXCEPT !.deleting = TRUE, !.exists = set.finalizer, !.gen = @ + 1]
        /\ UNCHANGED <<setView, pass>> /\ set.exists
    BY <1>3 DEF DeleteSet, OwnSet
  <2>2. set'.inventory = set.inventory /\ set'.open = set.open /\ set'.deleting
    BY <1>1, <2>1 DEF SetRecord
  <2> QED
    BY <1>1, <1>3, <2>1, <2>2
<1> QED
  BY <1>2, <1>3

(* A new set is closed, and has recorded nothing.                            *)
LEMMA PutIs ==
  ASSUME EnvInv, PutSet
  PROVE  /\ UNCHANGED <<setView, pass>> /\ set'.exists /\ ~set'.open /\ set' # NoSet
         /\ Named(set'.inventory) = {} /\ ~set.exists /\ pass = Idle /\ ~setView.exists
<1>1. set' = NewSet(EnvSeen.version) /\ set = NoSet /\ UNCHANGED <<setView, pass>>
  BY DEF PutSet
<1>2. set'.exists /\ ~set'.open /\ set'.inventory = Nothing /\ ~NoSet.exists
  BY <1>1 DEF NewSet, NoSet
<1>3. Named(Nothing) = {}
  BY DEF Named, Nothing
<1> QED
  BY <1>1, <1>2, <1>3 DEF EnvInv, SetOrder

(* A set that was never made, or that its readers do not know, stays idle;   *)
(* one that is sealed stays sealed.                                          *)
LEMMA SetSide ==
  ASSUME EnvInv, SetPart
  PROVE  /\ set' = NoSet => ~setView'.exists /\ pass' = Idle
         /\ set'.exists /\ ~SetSeen'.exists =>
              ~set'.open /\ Named(set'.inventory) = {} /\ pass' = Idle
         /\ asked \/ ~env.exists => Sealed'
         /\ set'.exists => set.exists \/ Wanted
<1>1. /\ set = NoSet => ~setView.exists /\ pass = Idle
      /\ set.exists /\ ~SetSeen.exists =>
           ~set.open /\ Named(set.inventory) = {} /\ pass = Idle
      /\ asked \/ ~env.exists => Sealed /\ ~Wanted
      /\ ~NoSet.exists
  BY NotWanted DEF EnvInv, SetOrder, NoSet, NewSet
<1>2. SetSeen' = IF "set" \in Lagging THEN setView' ELSE set'
  BY DEF SetSeen
<1>3. SetSeen = IF "set" \in Lagging THEN setView ELSE set
  BY DEF SetSeen
<1>4. CASE UNCHANGED <<set, setView, pass>>
  BY <1>1, <1>2, <1>3, <1>4 DEF Sealed
<1>5. CASE Wanted /\ PutSet
  BY <1>1, <1>2, <1>5, PutIs
<1>6. CASE \/ /\ SetSeen.exists
              /\ \E resources \in Versions, open \in BOOLEAN :
                   (open => Wanted) /\ WriteSetSpec(resources, open)
           \/ DeleteSet
  <2>1. FALSE \in BOOLEAN /\ Versions # {}
    BY ObjectsAssumption
  <2>2. \E open \in BOOLEAN :
          /\ UNCHANGED <<setView, pass>> /\ set.exists /\ set' # NoSet
          /\ set'.inventory = set.inventory
          /\ \/ SetSeen.exists /\ (open => Wanted) /\ set'.open = open
             \/ set'.open = set.open
    BY <1>6, <2>1, OwnerStays
  <2>3. PICK open \in BOOLEAN :
          /\ UNCHANGED <<setView, pass>> /\ set.exists /\ set' # NoSet
          /\ set'.inventory = set.inventory
          /\ \/ SetSeen.exists /\ (open => Wanted) /\ set'.open = open
             \/ set'.open = set.open
    BY <2>2
  <2>4. Named(set'.inventory) = Named(set.inventory)
    BY <2>3
  <2>5. ASSUME set'.exists, ~SetSeen'.exists
        PROVE  ~set'.open /\ Named(set'.inventory) = {} /\ pass' = Idle
    <3>1. ~SetSeen.exists
      BY <1>2, <1>3, <2>3, <2>5
    <3> QED
      BY <1>1, <2>3, <2>4, <3>1
  <2>6. ASSUME asked \/ ~env.exists PROVE Sealed'
    <3>1. Sealed /\ ~Wanted
      BY <1>1, <2>6
    <3>2. ~set'.open /\ Named(set'.inventory) = {} /\ pass'.at # "apply"
      BY <2>3, <2>4, <3>1 DEF Sealed
    <3>3. SetSeen'.exists => ~SetSeen'.open
      BY <1>2, <1>3, <2>3, <3>1, <3>2 DEF Sealed
    <3> QED
      BY <3>2, <3>3 DEF Sealed
  <2> QED
    BY <2>3, <2>5, <2>6
<1>7. CASE SetWork
  <2>1. SetInv
    BY DEF EnvInv
  <2>2. UNCHANGED set \/ SetStays
    BY <1>7, <2>1, WorkStays
  <2>3. \/ UNCHANGED setView
        \/ "set" \in Lagging /\ setView' = set /\ UNCHANGED <<set, pass>>
    BY <1>7, ViewMoves
  <2>4. pass = Idle /\ ~SetSeen.exists => UNCHANGED <<set, pass>>
    BY <1>7, UnseenSet
  <2>5. ASSUME set' = NoSet PROVE ~setView'.exists /\ pass' = Idle
    <3>1. set = NoSet
      BY <2>2, <2>5 DEF SetStays
    <3>2. ~setView.exists /\ pass = Idle /\ ~SetSeen.exists
      BY <1>1, <1>3, <3>1
    <3> QED
      BY <1>1, <2>3, <2>4, <3>1, <3>2
  <2>6. ASSUME set'.exists, ~SetSeen'.exists
        PROVE  ~set'.open /\ Named(set'.inventory) = {} /\ pass' = Idle
    <3>1. set.exists
      BY <2>2, <2>6 DEF SetStays
    <3>2. ~SetSeen.exists
      BY <1>2, <1>3, <2>3, <2>6, <3>1
    <3> QED
      BY <1>1, <2>4, <3>1, <3>2
  <2>7. ASSUME asked \/ ~env.exists, set'.exists
        PROVE  Sealed'
    <3>1. set.exists /\ ~set.open /\ (SetSeen.exists => ~SetSeen.open)
          /\ Named(set.inventory) = {} /\ pass.at # "apply"
      BY <1>1, <2>2, <2>7 DEF SetStays, Sealed
    <3>2. ~set'.open /\ Named(set'.inventory) = {}
      BY <2>2, <3>1 DEF SetStays
    <3>3. SetSeen'.exists => ~SetSeen'.open
      BY <1>2, <1>3, <2>3, <3>1, <3>2
    <3>4. pass'.at # "apply"
      <4>1. ~BeginApply
        BY <3>1 DEF BeginApply, SetPresent
      <4>2. pass' = Idle => pass'.at = "idle"
        BY DEF Idle
      <4>3. BeginCleanup => pass'.at = "cleanup"
        BY DEF BeginCleanup, Start
      <4> QED
        BY <1>7, <2>1, <3>1, <4>1, <4>2, <4>3, PassMoves
    <3> QED
      BY <3>2, <3>3, <3>4 DEF Sealed
  <2>8. asked \/ ~env.exists => Sealed'
    BY <2>7 DEF Sealed
  <2> QED
    BY <2>2, <2>5, <2>6, <2>8 DEF SetStays
<1> QED
  BY <1>4, <1>5, <1>6, <1>7 DEF SetPart

-----------------------------------------------------------------------------
(* What happens to the stack                                                 *)

(* Its owner makes it, writes its spec or deletes it.                        *)
StackEdit ==
  /\ UNCHANGED <<env, envViews, infra, applying>>
  /\ stack' \in StackRecord /\ asked' \in BOOLEAN /\ built' \in Versions
  /\ env.exists => env.finalizer
  /\ stack'.exists => stack.exists \/ Wanted
  /\ asked => asked'
  /\ asked' => asked \/ (EnvSeen.deleting /\ Sealed /\ UNCHANGED setVars)
  /\ AskedToGo' => asked'
  /\ stack'.reason = "Removed" <=> stack.reason = "Removed"
  /\ stack.reason = "Removed" => AskedToGo'
  /\ stack.exists /\ ~stack'.exists => Absent

(* What a write of the owner does.                                           *)
LEMMA OwnIs ==
  ASSUME EnvInv, NEW new \in StackRecord, Own(new)
  PROVE  /\ stack' \in StackRecord /\ asked' \in BOOLEAN /\ UNCHANGED <<infra, applying>>
         /\ stack'.exists = new.exists /\ stack'.deleting = new.deleting
         /\ stack'.desired = new.desired /\ stack'.reason = new.reason
         /\ (asked => asked') /\ (AskedToGo' => asked')
         /\ asked' => asked \/ new.desired = "Destroy" \/ new.deleting
<1>1. /\ stack' = [new EXCEPT !.current = FALSE]
      /\ asked' = (asked \/ new.desired = "Destroy" \/ new.deleting)
      /\ UNCHANGED <<infra, applying>> /\ asked \in BOOLEAN
  BY DEF Own, EnvInv, EnvTypes
<1>2. /\ stack' \in StackRecord
      /\ stack'.exists = new.exists /\ stack'.deleting = new.deleting
      /\ stack'.desired = new.desired /\ stack'.reason = new.reason
  BY <1>1 DEF StackRecord
<1>3. new.deleting \in BOOLEAN
  BY DEF StackRecord
<1> QED
  BY <1>1, <1>2, <1>3 DEF AskedToGo

(* A stack is made only while it is wanted.                                  *)
LEMMA CreateEdits ==
  ASSUME EnvInv, CreateStack
  PROVE  StackEdit
<1>1. NewStack \in StackRecord /\ stack = NoStack /\ Own(NewStack) /\ Wanted
  BY DEF CreateStack, CreateOwned, NewStack, StackRecord, StackReasons
<1>2. /\ NewStack.exists /\ ~NewStack.deleting /\ NewStack.desired = "Present"
      /\ NewStack.reason = "Pending" /\ ~NoStack.exists /\ NoStack.reason = "Pending"
  BY DEF NewStack, NoStack
<1>3. /\ stack' \in StackRecord /\ asked' \in BOOLEAN /\ UNCHANGED <<infra, applying>>
      /\ stack'.reason = "Pending"
      /\ (asked => asked') /\ (AskedToGo' => asked') /\ (asked' => asked)
  BY <1>1, <1>2, OwnIs
<1>4. env.exists /\ env.finalizer /\ built' \in Versions /\ UNCHANGED <<env, envViews>>
  BY <1>1, NotWanted, Seen DEF CreateStack, KeepsEnv, EnvRecord
<1> QED
  BY <1>1, <1>2, <1>3, <1>4 DEF StackEdit

(* Its spec is reset only while it is wanted, and nobody has asked for its   *)
(* removal.                                                                  *)
LEMMA ResetEdits ==
  ASSUME EnvInv, ResetStack
  PROVE  StackEdit
<1>1. /\ stack \in StackRecord /\ Wanted
      /\ Own([stack EXCEPT !.desired = "Present", !.fence = FALSE])
      /\ built' \in Versions /\ UNCHANGED <<env, envViews>>
  BY Seen DEF ResetStack, EnvInv, EnvTypes, KeepsEnv, EnvRecord
<1>2. PICK new : new = [stack EXCEPT !.desired = "Present", !.fence = FALSE]
  OBVIOUS
<1>3. /\ new \in StackRecord /\ new.exists = stack.exists
      /\ new.deleting = stack.deleting /\ new.desired = "Present"
      /\ new.reason = stack.reason
  BY <1>1, <1>2 DEF StackRecord
<1>4. /\ stack' \in StackRecord /\ asked' \in BOOLEAN /\ UNCHANGED <<infra, applying>>
      /\ stack'.exists = new.exists /\ stack'.reason = new.reason
      /\ (asked => asked') /\ (AskedToGo' => asked')
      /\ asked' => asked \/ new.desired = "Destroy" \/ new.deleting
  BY <1>1, <1>2, <1>3, OwnIs
<1>5. env.exists /\ env.finalizer /\ ~asked /\ ~AskedToGo
  BY <1>1, NotWanted DEF EnvInv, StackOrder
<1>6. ~stack.deleting /\ stack.reason # "Removed"
  BY <1>5 DEF AskedToGo, EnvInv, StackOrder
<1> QED
  BY <1>1, <1>3, <1>4, <1>5, <1>6 DEF StackEdit

(* An environment that has a stack has a finalizer, or is gone.              *)
LEMMA StackNeedsEnv ==
  ASSUME EnvInv, stack.exists \/ StackSeen.exists \/ set.exists
  PROVE  env.exists => env.finalizer
<1>1. ~NoStack.exists
  BY DEF NoStack, NewStack
<1> QED
  BY <1>1 DEF EnvInv, ChildInv, Untouched

(* While the environment is deleted, the stack is fenced, and asked to go    *)
(* once the set is gone.                                                     *)
LEMMA LeaveEdits ==
  ASSUME EnvInv, FenceStack \/ AskDestroy
  PROVE  StackEdit
<1>1. /\ stack \in StackRecord /\ EnvSeen.deleting /\ StackSeen.exists
      /\ built' \in Versions /\ UNCHANGED <<env, envViews, setVars>>
      /\ env.exists => env.finalizer
  BY StackNeedsEnv DEF FenceStack, AskDestroy, SetGone, StackFenced, Leaving, KeepsEnv,
     KeepsSet, EnvInv, EnvTypes
<1>2. CASE FenceStack
  <2>1. PICK new : new = [stack EXCEPT !.fence = TRUE]
    OBVIOUS
  <2>2. /\ new \in StackRecord /\ new.exists = stack.exists
        /\ new.deleting = stack.deleting /\ new.desired = stack.desired
        /\ new.reason = stack.reason
    BY <1>1, <2>1 DEF StackRecord
  <2>3. Own(new)
    BY <1>2, <2>1 DEF FenceStack
  <2>4. /\ stack' \in StackRecord /\ asked' \in BOOLEAN /\ UNCHANGED <<infra, applying>>
        /\ stack'.exists = stack.exists /\ stack'.deleting = stack.deleting
        /\ stack'.desired = stack.desired /\ stack'.reason = stack.reason
        /\ (asked => asked') /\ (AskedToGo' => asked')
        /\ asked' => asked \/ stack.desired = "Destroy" \/ stack.deleting
    BY <2>2, <2>3, OwnIs
  <2>5. (asked' => asked) /\ (AskedToGo => AskedToGo')
    BY <2>4 DEF EnvInv, StackOrder, AskedToGo
  <2>6. stack.reason = "Removed" => AskedToGo
    BY DEF EnvInv, StackOrder
  <2> QED
    BY <1>1, <2>4, <2>5, <2>6 DEF StackEdit
<1>3. CASE AskDestroy
  <2>1. PICK new : new = [stack EXCEPT !.desired = "Destroy"]
    OBVIOUS
  <2>2. /\ new \in StackRecord /\ new.exists = stack.exists
        /\ new.desired = "Destroy" /\ new.reason = stack.reason
    BY <1>1, <2>1 DEF StackRecord
  <2>3. Own(new)
    BY <1>3, <2>1 DEF AskDestroy
  <2>4. /\ stack' \in StackRecord /\ asked' \in BOOLEAN /\ UNCHANGED <<infra, applying>>
        /\ stack'.exists = stack.exists
        /\ stack'.desired = "Destroy" /\ stack'.reason = stack.reason
        /\ (asked => asked') /\ (AskedToGo' => asked')
    BY <2>2, <2>3, OwnIs
  <2>5. Sealed
    BY <1>3, GoneIsSealed DEF AskDestroy, SetGone
  <2> QED
    BY <1>1, <2>4, <2>5 DEF StackEdit, AskedToGo
<1> QED
  BY <1>2, <1>3

(* A stack is deleted once it has reported its removal, or once nobody needs *)
(* it.                                                                       *)
LEMMA DeleteEdits ==
  ASSUME EnvInv, DeleteOwned, UNCHANGED <<env, envViews, built, setVars>>,
         DeleteRemovedStack \/ ~env.exists
  PROVE  StackEdit
<1>1. /\ stack \in StackRecord /\ built' \in Versions /\ stack.exists
      /\ env.exists => env.finalizer
  BY StackNeedsEnv DEF EnvInv, EnvTypes, DeleteOwned
<1>2. PICK new : new = [stack EXCEPT !.deleting = TRUE, !.exists = @ /\ stack.finalizer]
  OBVIOUS
<1>3. /\ new \in StackRecord /\ new.deleting /\ new.reason = stack.reason
  BY <1>1, <1>2 DEF StackRecord
<1>4. Own(new)
  BY <1>2 DEF DeleteOwned
<1>5. /\ stack' \in StackRecord /\ asked' \in BOOLEAN /\ UNCHANGED <<infra, applying>>
      /\ stack'.deleting = new.deleting /\ stack'.reason = stack.reason
      /\ (asked => asked') /\ (AskedToGo' => asked')
  BY <1>3, <1>4, OwnIs
<1>6. Sealed /\ EnvSeen.deleting /\ Absent
  <2>1. CASE DeleteRemovedStack
    <3>1. /\ EnvSeen.deleting /\ ~SetSeen.exists /\ StackSeen.reason = "Removed"
      BY <2>1 DEF DeleteRemovedStack, SetGone, StackFenced, Leaving
    <3> QED
      BY <3>1, GoneIsSealed DEF EnvInv, StackOrder
  <2>2. CASE ~env.exists
    BY <1>1, <2>2 DEF EnvInv, SetOrder, StackOrder, ChildInv
  <2> QED
    BY <2>1, <2>2
<1> QED
  BY <1>1, <1>3, <1>5, <1>6 DEF StackEdit, AskedToGo

(* Its own controller reconciles it, and Applies run.                        *)
StackWork ==
  /\ UNCHANGED <<env, envViews, built, asked>> /\ StackSeen.exists
  /\ stack' \in StackRecord /\ infra' \in {"absent", "present"}
  /\ applying' \in {"none", "Reconcile", "Destroy"}
  /\ stack'.exists => stack.exists
  /\ AskedToGo' = AskedToGo
  /\ stack'.reason = "Removed" => AskedToGo /\ Absent'
  /\ stack.reason = "Removed" => stack'.reason = "Removed"
  /\ stack.exists /\ ~stack'.exists => Absent'
  /\ applying' = "Destroy" => asked
  /\ ~Absent' => ~Absent \/ (env.exists /\ stack.exists /\ stack' = stack)
  /\ UNCHANGED infra \/ EndRunning

(* What a report changes.                                                    *)
LEMMA ReportIs ==
  ASSUME stack \in StackRecord, NEW reason \in StackReasons, NEW new, new = Reported(reason)
  PROVE  /\ new \in StackRecord /\ new.reason = reason /\ new.exists = stack.exists
         /\ new.desired = stack.desired /\ new.deleting = stack.deleting
BY DEF Reported, StackRecord

(* The controller keeps what the owner has asked for.                        *)
LEMMA ReconcilerWorks ==
  ASSUME EnvInv, StackReconciler, StackSeen.exists, UNCHANGED <<env, envViews, built>>
  PROVE  StackWork
<1>1. /\ stack \in StackRecord /\ UNCHANGED <<infra, applying, asked>>
      /\ infra \in {"absent", "present"} /\ applying \in {"none", "Reconcile", "Destroy"}
      /\ stack.reason = "Removed" => AskedToGo /\ Absent
      /\ applying = "Destroy" => asked
  BY DEF StackReconciler, Adopt, Fence, ReportAndRelease, Report, KeepsInfra, EnvInv,
     EnvTypes, StackOrder
<1>2. Absent' = Absent
  BY <1>1 DEF Absent
<1>3. ASSUME NEW new \in StackRecord, stack' = new, new.desired = stack.desired,
             new.deleting = stack.deleting, new.exists => stack.exists,
             \/ new.exists = stack.exists /\ new.reason = stack.reason
             \/ /\ new.reason = "Removed" => AskedToGo /\ Absent
                /\ stack.reason = "Removed" => new.reason = "Removed"
                /\ stack.exists /\ ~new.exists => Absent
      PROVE  StackWork
  BY <1>1, <1>2, <1>3 DEF StackWork, AskedToGo
<1>4. CASE Adopt \/ Fence
  <2>1. PICK new : /\ stack' = new
                   /\ \/ new = [stack EXCEPT !.finalizer = TRUE]
                      \/ new = [stack EXCEPT !.fence = TRUE, !.current = FALSE]
    BY <1>4 DEF Adopt, Fence
  <2>2. /\ new \in StackRecord /\ new.desired = stack.desired
        /\ new.deleting = stack.deleting /\ new.exists = stack.exists
        /\ new.reason = stack.reason
    BY <1>1, <2>1 DEF StackRecord
  <2> QED
    BY <1>3, <2>1, <2>2
<1>5. ASSUME NEW reason \in StackReasons, Justified(reason)
      PROVE  /\ reason = "Removed" => AskedToGo /\ Absent
             /\ stack.reason = "Removed" => reason = "Removed"
  BY <1>1, <1>5 DEF Justified, Absent
<1>6. ASSUME NEW reason \in StackReasons, Report(reason) PROVE StackWork
  <2>1. PICK new : new = Reported(reason)
    OBVIOUS
  <2>2. /\ new \in StackRecord /\ new.desired = stack.desired
        /\ new.deleting = stack.deleting /\ new.exists = stack.exists
        /\ new.reason = reason
    BY <1>1, <2>1, ReportIs
  <2>3. stack' = new /\ Justified(reason)
    BY <1>6, <2>1 DEF Report
  <2> QED
    BY <1>3, <1>5, <2>2, <2>3
<1>7. CASE ReportAndRelease
  <2>1. "Removed" \in StackReasons /\ Justified("Removed") /\ stack.exists
    BY <1>7 DEF StackReasons, ReportAndRelease, Reconcilable
  <2>2. PICK mid : mid = Reported("Removed")
    OBVIOUS
  <2>3. PICK new : new = [mid EXCEPT !.finalizer = FALSE, !.exists = ~stack.deleting]
    OBVIOUS
  <2>4. /\ mid \in StackRecord /\ mid.desired = stack.desired
        /\ mid.deleting = stack.deleting /\ mid.reason = "Removed"
    BY <1>1, <2>1, <2>2, ReportIs
  <2>5. /\ new \in StackRecord /\ new.desired = stack.desired
        /\ new.deleting = stack.deleting /\ new.reason = "Removed"
    BY <1>1, <2>3, <2>4 DEF StackRecord
  <2>6. stack' = new
    BY <1>7, <2>2, <2>3 DEF ReportAndRelease
  <2>7. AskedToGo /\ Absent
    BY <1>5, <2>1
  <2> QED
    BY <1>3, <2>1, <2>5, <2>6, <2>7
<1> QED
  BY <1>4, <1>6, <1>7 DEF StackReconciler

(* An Apply starts for an environment that is there, and a destroying one    *)
(* only when that was asked for; it ends as it may.                          *)
LEMMA ApplyWorks ==
  ASSUME EnvInv, (env.exists /\ StackApplies) \/ EndRunning, StackSeen.exists,
         UNCHANGED <<env, envViews, built>>
  PROVE  StackWork
<1>1. /\ stack \in StackRecord
      /\ infra \in {"absent", "present"} /\ applying \in {"none", "Reconcile", "Destroy"}
      /\ stack.reason = "Removed" => AskedToGo /\ Absent
      /\ applying = "Destroy" => asked
  BY DEF EnvInv, EnvTypes, StackOrder
<1>2. ASSUME env.exists, NEW mode \in {"Reconcile", "Destroy"}, StartRunning(mode)
      PROVE  StackWork
  BY <1>1, <1>2 DEF StartRunning, StackWork, Absent, AskedToGo
<1>3. CASE EndRunning
  <2>1. /\ UNCHANGED <<stack, asked>> /\ applying # "none" /\ applying' = "none"
        /\ infra' \in {"absent", "present"}
    BY <1>1, <1>3 DEF EndRunning
  <2>2. AskedToGo' = AskedToGo
    BY <2>1 DEF AskedToGo
  <2> QED
    BY <1>1, <1>3, <2>1, <2>2 DEF StackWork, Absent
<1> QED
  BY <1>2, <1>3 DEF StackApplies

-----------------------------------------------------------------------------
(* Every step                                                                *)

(* Every step is of one of these kinds.                                      *)
Kinds ==
  \/ EnvEdit
  \/ CacheEnv \/ CacheStack
  \/ SetPart /\ KeepsEnv /\ (StackEdit \/ KeepsStack)
  \/ StackWork /\ UNCHANGED <<set, setView, pass>>

(* Making a set is a step of its owner.                                      *)
LEMMA PutMoves ==
  ASSUME EnvInv, PutSet
  PROVE  OwnMoves /\ edits' \in 0..MaxEdits
<1>1. PICK version \in Versions : version = EnvSeen.version
  BY Seen DEF EnvRecord
<1>2. /\ set' = NewSet(version) /\ set = NoSet /\ ~NoSet.exists
      /\ UNCHANGED <<setView, pass, world, applied, boundVars>>
  BY <1>1 DEF PutSet, NoSet, NewSet
<1>3. PICK new : new = NewSet(version)
  OBVIOUS
<1>4. /\ new \in SetRecord /\ new.exists /\ new.inventory = Nothing
      /\ new.observed = 0 /\ new.reason = ""
  BY <1>3, NewSetOK DEF EnvInv, SetInv, RecordOK
<1> QED
  BY <1>2, <1>3, <1>4, Counters DEF OwnMoves, boundVars

(* The steps of the environment's controller that are about its stack.       *)
LEMMA StackKinds ==
  ASSUME EnvInv,
         \/ CreateStack \/ ResetStack \/ FenceStack \/ AskDestroy \/ DeleteRemovedStack
         \/ ~env.exists /\ DeleteOwned /\ UNCHANGED <<env, envViews, built, setVars>>
  PROVE  Kinds /\ SetMoves /\ edits' \in 0..MaxEdits
<1>1. UNCHANGED setVars => SetPart /\ SetMoves /\ edits' \in 0..MaxEdits
  BY Counters DEF setVars, boundVars, SetPart, SetMoves, Elsewhere
<1>2. CASE CreateStack
  <2>1. StackEdit /\ KeepsEnv /\ Wanted /\ (PutSet \/ UNCHANGED setVars)
    BY <1>2, CreateEdits DEF CreateStack, KeepsSet
  <2> QED
    BY <1>1, <2>1, PutMoves DEF Kinds, SetPart, SetMoves
<1>3. CASE ResetStack \/ FenceStack \/ AskDestroy
  <2>1. StackEdit /\ KeepsEnv /\ UNCHANGED setVars
    BY <1>3, ResetEdits, LeaveEdits DEF ResetStack, FenceStack, AskDestroy, KeepsSet
  <2> QED
    BY <1>1, <2>1 DEF Kinds
<1>4. CASE \/ DeleteRemovedStack
           \/ ~env.exists /\ DeleteOwned /\ UNCHANGED <<env, envViews, built, setVars>>
  <2>1. /\ DeleteOwned /\ UNCHANGED <<env, envViews, built, setVars>>
        /\ DeleteRemovedStack \/ ~env.exists
    BY <1>4 DEF DeleteRemovedStack, KeepsEnv, KeepsSet
  <2>2. StackEdit
    BY <2>1, DeleteEdits
  <2> QED
    BY <1>1, <2>1, <2>2 DEF Kinds, KeepsEnv
<1> QED
  BY <1>2, <1>3, <1>4

(* Those that are about its set.                                             *)
LEMMA SetKinds ==
  ASSUME EnvInv, KeepsEnv, KeepsStack,
         \/ CreateSet \/ WriteSet \/ CloseSet
         \/ DeleteSet /\ UNCHANGED edits
  PROVE  Kinds /\ SetMoves /\ edits' \in 0..MaxEdits
<1>1. SetInv /\ edits \in 0..MaxEdits
  BY DEF EnvInv, EnvTypes
<1>2. CASE CreateSet
  BY <1>2, PutMoves DEF CreateSet, StackSettled, Kinds, SetPart, SetMoves
<1>3. CASE WriteSet
  <2>1. /\ EnvSeen.version \in Versions /\ Open \in BOOLEAN /\ Wanted /\ SetSeen.exists
        /\ WriteSetSpec(EnvSeen.version, Open) /\ UNCHANGED edits
    BY <1>3, Seen DEF WriteSet, StackSettled, EnvRecord, Open
  <2>2. OwnMoves
    BY <1>1, <2>1, WriteMoves
  <2> QED
    BY <1>1, <2>1, <2>2 DEF Kinds, SetPart, SetMoves
<1>4. CASE CloseSet
  <2>1. /\ SetSeen.resources \in Versions /\ FALSE \in BOOLEAN /\ SetSeen.exists
        /\ WriteSetSpec(SetSeen.resources, FALSE) /\ UNCHANGED edits
    BY <1>4, Seen DEF CloseSet, SetRecord
  <2>2. OwnMoves
    BY <1>1, <2>1, WriteMoves
  <2> QED
    BY <1>1, <2>1, <2>2 DEF Kinds, SetPart, SetMoves
<1>5. CASE DeleteSet /\ UNCHANGED edits
  BY <1>1, <1>5, DeleteMoves DEF Kinds, SetPart, SetMoves
<1> QED
  BY <1>2, <1>3, <1>4, <1>5

(* So all of them are of these kinds.                                        *)
LEMMA AllKinds ==
  EnvInv /\ [EnvNext]_allVars => Kinds /\ SetMoves /\ edits' \in 0..MaxEdits
<1> SUFFICES ASSUME EnvInv, [EnvNext]_allVars
             PROVE  Kinds /\ SetMoves /\ edits' \in 0..MaxEdits
  OBVIOUS
<1>1. CASE EnvWrites
  BY <1>1, WritesEdit DEF Kinds, EnvEdit, SetMoves, Elsewhere
<1>2. CASE CreateStack \/ ResetStack \/ FenceStack \/ AskDestroy \/ DeleteRemovedStack
  BY <1>2, StackKinds
<1>3. CASE CreateSet \/ WriteSet \/ CloseSet \/ DeleteOwnedSet
  BY <1>3, SetKinds DEF CreateSet, WriteSet, CloseSet, DeleteOwnedSet
<1>4. CASE CollectGarbage
  <2>1. CASE ~stack.deleting /\ DeleteOwned /\ UNCHANGED built /\ KeepsSet
    BY <1>4, <2>1, StackKinds DEF CollectGarbage, KeepsEnv, KeepsSet
  <2>2. CASE DeleteSet /\ UNCHANGED edits /\ KeepsStack
    BY <1>4, <2>2, SetKinds DEF CollectGarbage
  <2> QED
    BY <1>4, <2>1, <2>2 DEF CollectGarbage
<1>5. CASE StackKeepsPromise
  <2>1. /\ StackSeen.exists /\ UNCHANGED <<env, envViews, built>>
        /\ StackReconciler \/ (env.exists /\ StackApplies) \/ EndRunning
        /\ UNCHANGED <<set, setView, pass, world, applied, edits>>
        /\ troubles' = troubles + (IF Withdraws THEN 1 ELSE 0) /\ troubles' <= MaxFaults
    BY <1>5 DEF StackKeepsPromise, KeepsEnv
  <2>2. StackWork
    BY <2>1, ReconcilerWorks, ApplyWorks
  <2>3. troubles' \in 0..MaxFaults /\ troubles <= troubles'
    <3>1. troubles \in Nat /\ MaxFaults \in Nat
      BY Counters, Bounds
    <3> QED
      BY <2>1, <3>1
  <2> QED
    BY <2>1, <2>2, <2>3, Counters DEF Kinds, SetMoves, Elsewhere
<1>6. CASE SetWorks
  <2>1. SetWork /\ KeepsEnv /\ KeepsStack
    BY <1>6 DEF SetWorks, SetWork
  <2>2. UNCHANGED edits
    BY <2>1 DEF SetWork, ReconcileSet, SetFaults, Cluster, AddSetFinalizer, BlockMutation,
       BeginApply, BeginCleanup, Start, FinishApply, FinishCleanup, ApplyObject,
       CheckObject, ReadDoomed, DeleteDoomed, ConfirmPruned, RejectSpec, StopPass,
       FailToApply, BecomeReady, Vanish, Disturb, Becomes, CacheSet, boundVars
  <2> QED
    BY <2>1, <2>2, Counters DEF Kinds, SetPart, SetMoves, SetWork
<1>7. CASE CacheEnv \/ CacheStack
  <2>1. UNCHANGED setVars
    BY <1>7 DEF CacheEnv, CacheStack
  <2> QED
    BY <1>7, <2>1, Counters DEF Kinds, SetMoves, Elsewhere, setVars, boundVars
<1>8. CASE UNCHANGED allVars
  BY <1>8, Counters DEF allVars, setVars, boundVars, Kinds, SetPart, SetMoves, Elsewhere,
     KeepsEnv, KeepsStack
<1> QED
  BY <1>1, <1>2, <1>3, <1>4, <1>5, <1>6, <1>7, <1>8
     DEF EnvNext, ReconcileEnv, EnvPresent, EnvDelete, EnvWrites

-----------------------------------------------------------------------------
(* The invariant is kept                                                     *)

(* What an invariant has to keep besides that of the set.                    *)
Rest == EnvTypes /\ ChildInv /\ ReadyInv /\ SetOrder /\ StackOrder

(* Copies of the set that are read late have recorded what they name.        *)
LEMMA ViewRecorded ==
  ASSUME EnvInv, SetMoves
  PROVE  Recorded(setView', applied')
<1>1. applied \subseteq applied'
  BY WorldStep DEF EnvInv, WorldMoves
<1>2. Recorded(setView, applied) /\ Recorded(set, applied)
  BY DEF EnvInv, ReadyInv, SetInv, ReadyIsRecorded, Recorded
<1>3. UNCHANGED setView \/ setView' = set
  BY ViewMoves DEF SetMoves, SetWork, OwnMoves, Elsewhere
<1> QED
  BY <1>1, <1>2, <1>3 DEF Recorded

(* What has been applied stays so.                                           *)
LEMMA ReadyStays ==
  ASSUME EnvInv, SetMoves, UNCHANGED env
  PROVE  ReadyInv'
<1>1. applied \subseteq applied'
  BY WorldStep DEF EnvInv, WorldMoves
<1>2. Recorded(setView', applied')
  BY ViewRecorded
<1>3. env'.observed <= env'.gen /\ ReadyIsEarned'
  BY <1>1 DEF EnvInv, ReadyInv, ReadyIsEarned
<1> QED
  BY <1>2, <1>3 DEF ReadyInv

(* Writes of the environment.                                                *)
LEMMA EnvEditKeeps ==
  ASSUME EnvInv, SetMoves, EnvEdit
  PROVE  Rest'
<1>1. /\ UNCHANGED <<envView, stackView, builtView, stack, built, infra, applying, asked>>
      /\ UNCHANGED <<set, setView, pass, world, applied>>
      /\ env' \in EnvRecord /\ EnvLater(env, env') /\ edits' \in 0..MaxEdits
      /\ UNCHANGED env \/ (env.exists /\ env'.exists) \/ Goes
  BY DEF EnvEdit, envViews, promised
<1>2. /\ UNCHANGED <<StackSeen, SetSeen>>
      /\ Sealed' = Sealed /\ Absent' = Absent /\ AskedToGo' = AskedToGo
      /\ Untouched' = Untouched
  BY <1>1 DEF StackSeen, SetSeen, Sealed, Absent, AskedToGo, Untouched
<1>3. EnvSeen = (IF "env" \in Lagging THEN envView ELSE env)
      /\ EnvSeen' = (IF "env" \in Lagging THEN envView ELSE env')
  BY <1>1 DEF EnvSeen
<1>4. EnvTypes'
  BY <1>1 DEF EnvInv, EnvTypes
<1>5. ChildInv'
  <2>1. EnvLater(envView', env')
    BY <1>1 DEF EnvInv, ChildInv, EnvLater
  <2>2. ~env'.exists => env'.deleting /\ ~env'.finalizer /\ NeverWanted'
    <3>1. CASE UNCHANGED env
      BY <1>1, <1>3, <3>1 DEF EnvInv, ChildInv, NeverWanted
    <3>2. CASE Goes
      BY <1>1, <1>3, <3>2 DEF Goes, NeverWanted
    <3> QED
      BY <1>1, <3>1, <3>2
  <2>3. env'.exists /\ ~env'.finalizer => Untouched'
    BY <1>1, <1>2 DEF EnvInv, ChildInv, EnvLater
  <2> QED
    BY <2>1, <2>2, <2>3 DEF ChildInv
<1>6. ReadyInv'
  BY ViewRecorded DEF EnvEdit, ReadyInv
<1>7. ~env'.exists => ~env.exists \/ (Sealed /\ Absent)
  BY <1>1 DEF Goes
<1>8. SetOrder'
  BY <1>1, <1>2, <1>7 DEF EnvInv, SetOrder
<1>9. StackOrder'
  <2>1. EnvSeen.deleting => EnvSeen'.deleting
    BY <1>1, <1>3 DEF EnvLater
  <2>2. stack.exists => env'.finalizer \/ EnvSeen'.deleting
    <3>1. stack.exists => env.finalizer \/ EnvSeen.deleting
      BY DEF EnvInv, StackOrder
    <3>2. CASE UNCHANGED env \/ env'.exists
      BY <1>1, <2>1, <3>1, <3>2 DEF EnvLater
    <3>3. CASE Goes
      BY <2>1, <3>3 DEF Goes
    <3> QED
      BY <1>1, <3>2, <3>3
  <2> QED
    BY <1>1, <1>2, <1>7, <2>1, <2>2 DEF EnvInv, StackOrder
<1> QED
  BY <1>4, <1>5, <1>6, <1>8, <1>9 DEF Rest

(* Caches that are filled.                                                   *)
LEMMA CachesKeep ==
  ASSUME EnvInv, SetMoves, CacheEnv \/ CacheStack
  PROVE  Rest'
<1>1. /\ UNCHANGED <<env, stack, built, infra, applying, asked, setVars>>
      /\ UNCHANGED <<set, setView, pass, edits>>
      /\ \/ "env" \in Lagging /\ envView' = env /\ UNCHANGED <<stackView, builtView>>
         \/ /\ "stack" \in Lagging /\ stackView' = stack /\ builtView' = built
            /\ UNCHANGED envView
  BY DEF CacheEnv, CacheStack, promised, setVars, boundVars
<1>2. /\ UNCHANGED SetSeen
      /\ Sealed' = Sealed /\ Absent' = Absent /\ AskedToGo' = AskedToGo
      /\ \/ UNCHANGED EnvSeen /\ StackSeen' = stack
         \/ UNCHANGED StackSeen /\ EnvSeen' = env
  BY <1>1 DEF StackSeen, SetSeen, EnvSeen, Sealed, Absent, AskedToGo
<1>3. EnvTypes'
  BY <1>1 DEF EnvInv, EnvTypes
<1>4. EnvLater(EnvSeen, env) /\ ~NoStack.exists
  BY Seen DEF NoStack, NewStack
<1>5. ChildInv'
  <2>1. EnvLater(envView', env')
    BY <1>1 DEF EnvInv, ChildInv, EnvLater
  <2>2. NeverWanted' = NeverWanted \/ (NeverWanted' <=> env.deleting \/ ~env.finalizer)
    BY <1>2 DEF NeverWanted
  <2>3. Untouched => Untouched'
    BY <1>1, <1>2, <1>4 DEF Untouched
  <2> QED
    BY <1>1, <2>1, <2>2, <2>3 DEF EnvInv, ChildInv
<1>6. ReadyInv'
  BY <1>1, ReadyStays
<1>7. SetOrder'
  BY <1>1, <1>2 DEF EnvInv, SetOrder
<1>8. StackOrder'
  BY <1>1, <1>2, <1>4 DEF EnvInv, StackOrder, EnvLater
<1> QED
  BY <1>3, <1>5, <1>6, <1>7, <1>8 DEF Rest

(* Writes of the set and of its owner.                                       *)
LEMMA OwnersKeep ==
  ASSUME EnvInv, SetMoves, edits' \in 0..MaxEdits, SetPart, KeepsEnv,
         StackEdit \/ KeepsStack
  PROVE  Rest'
<1>1. /\ UNCHANGED <<env, envView, stackView, builtView, infra, applying>>
      /\ UNCHANGED EnvSeen /\ Absent' = Absent /\ NeverWanted' = NeverWanted
  BY DEF KeepsEnv, StackEdit, KeepsStack, envViews, promised, EnvSeen, Absent, NeverWanted
<1>2. /\ stack' \in StackRecord /\ asked' \in BOOLEAN /\ built' \in Versions
      /\ stack'.exists => stack.exists \/ Wanted
      /\ asked' => asked \/ (EnvSeen.deleting /\ Sealed /\ UNCHANGED setVars)
      /\ AskedToGo' => asked'
      /\ stack'.reason = "Removed" <=> stack.reason = "Removed"
      /\ stack.reason = "Removed" => AskedToGo'
      /\ stack.exists /\ ~stack'.exists => Absent
      /\ asked => asked'
  <2>1. CASE StackEdit
    BY <2>1 DEF StackEdit
  <2>2. CASE KeepsStack
    BY <2>2 DEF KeepsStack, promised, AskedToGo, EnvInv, EnvTypes, StackOrder
  <2> QED
    BY <2>1, <2>2
<1>3. EnvTypes'
  BY <1>1, <1>2 DEF EnvInv, EnvTypes
<1>4. /\ set' = NoSet => ~setView'.exists /\ pass' = Idle
      /\ set'.exists /\ ~SetSeen'.exists =>
           ~set'.open /\ Named(set'.inventory) = {} /\ pass' = Idle
      /\ asked \/ ~env.exists => Sealed'
      /\ set'.exists => set.exists \/ Wanted
  BY SetSide
<1>5. SetOrder'
  <2>1. ASSUME Sealed, UNCHANGED setVars PROVE Sealed'
    BY <2>1 DEF Sealed, SetSeen, setVars
  <2> QED
    BY <1>1, <1>2, <1>4, <2>1 DEF SetOrder
<1>6. ChildInv'
  <2>1. ASSUME env.exists, ~env.finalizer PROVE Untouched'
    <3>1. Untouched /\ ~Wanted
      BY <2>1, NotWanted DEF EnvInv, ChildInv
    <3>2. ~StackEdit
      BY <2>1 DEF StackEdit
    <3>3. UNCHANGED <<stack, asked>>
      BY <3>2 DEF KeepsStack, promised
    <3>4. ~set'.exists
      BY <1>4, <3>1 DEF Untouched
    <3> QED
      BY <1>1, <3>1, <3>3, <3>4 DEF Untouched, StackSeen
  <2> QED
    BY <1>1, <2>1 DEF EnvInv, ChildInv
<1>7. ReadyInv'
  BY <1>1, ReadyStays
<1>8. StackOrder'
  <2>1. StackSeen = (IF "stack" \in Lagging THEN stackView ELSE stack)
        /\ StackSeen' = (IF "stack" \in Lagging THEN stackView ELSE stack')
    BY <1>1 DEF StackSeen
  <2>2. Wanted => env.finalizer
    BY NotWanted
  <2>3. ~StackSeen'.exists \/ ~stack'.exists \/ ~env'.exists => Absent'
    BY <1>1, <1>2, <2>1 DEF EnvInv, StackOrder
  <2>4. stack'.reason = "Removed" => AskedToGo' /\ Absent'
    BY <1>1, <1>2 DEF EnvInv, StackOrder
  <2>5. StackSeen'.reason = "Removed" => stack'.reason = "Removed"
    BY <1>2, <2>1 DEF EnvInv, StackOrder
  <2> QED
    BY <1>1, <1>2, <2>2, <2>3, <2>4, <2>5 DEF EnvInv, StackOrder
<1> QED
  BY <1>3, <1>5, <1>6, <1>7, <1>8 DEF Rest

(* The work of the stack's controller, and Applies.                          *)
LEMMA StackWorkKeeps ==
  ASSUME EnvInv, SetMoves, edits' \in 0..MaxEdits, StackWork,
         UNCHANGED <<set, setView, pass>>
  PROVE  Rest'
<1>1. /\ UNCHANGED <<env, envView, stackView, builtView, built, asked>>
      /\ UNCHANGED <<EnvSeen, SetSeen>> /\ NeverWanted' = NeverWanted /\ Sealed' = Sealed
  BY DEF StackWork, envViews, EnvSeen, SetSeen, NeverWanted, Sealed
<1>2. EnvTypes'
  BY <1>1 DEF EnvInv, EnvTypes, StackWork
<1>3. ChildInv'
  BY <1>1 DEF StackWork, EnvInv, ChildInv, Untouched
<1>4. ReadyInv'
  BY <1>1, ReadyStays
<1>5. SetOrder'
  BY <1>1 DEF EnvInv, SetOrder
<1>6. StackOrder'
  <2>1. StackSeen = (IF "stack" \in Lagging THEN stackView ELSE stack)
        /\ StackSeen' = (IF "stack" \in Lagging THEN stackView ELSE stack')
    BY <1>1 DEF StackSeen
  <2>2. stack'.reason = "Removed" => AskedToGo' /\ Absent'
    BY DEF StackWork
  <2>3. StackSeen'.reason = "Removed" => stack'.reason = "Removed"
    BY <2>1 DEF EnvInv, StackOrder, StackWork
  <2>4. ASSUME ~StackSeen'.exists \/ ~stack'.exists \/ ~env'.exists, ~Absent' PROVE FALSE
    <3>1. StackSeen.exists /\ (stack.exists => stack'.exists)
      BY <2>4 DEF StackWork
    <3>2. CASE ~Absent
      BY <1>1, <2>1, <2>4, <3>1, <3>2 DEF EnvInv, StackOrder
    <3>3. CASE env.exists /\ stack.exists /\ stack' = stack
      BY <1>1, <2>1, <2>4, <3>1, <3>3
    <3> QED
      BY <2>4, <3>2, <3>3 DEF StackWork
  <2> QED
    BY <1>1, <2>2, <2>3, <2>4 DEF EnvInv, StackOrder, StackWork
<1> QED
  BY <1>2, <1>3, <1>4, <1>5, <1>6 DEF Rest

(* The invariant is kept by every step.                                      *)
LEMMA EnvInvStep ==
  EnvInv /\ [EnvNext]_allVars => EnvInv'
<1> SUFFICES ASSUME EnvInv, [EnvNext]_allVars PROVE EnvInv'
  OBVIOUS
<1>1. Kinds /\ SetMoves /\ edits' \in 0..MaxEdits
  BY AllKinds
<1>2. SetInv'
  BY <1>1, SetInvStep DEF EnvInv
<1>3. Rest'
  BY <1>1, EnvEditKeeps, CachesKeep, OwnersKeep, StackWorkKeeps DEF Kinds
<1> QED
  BY <1>2, <1>3 DEF EnvInv, Rest

(* At first there is nothing but the environment.                            *)
LEMMA EnvInitInv ==
  EnvInit => EnvInv
<1> SUFFICES ASSUME EnvInit PROVE EnvInv
  OBVIOUS
<1>1. PICK version \in Versions :
        env = [exists |-> TRUE, deleting |-> FALSE, finalizer |-> FALSE,
               gen |-> 1, version |-> version, reason |-> "", observed |-> 0]
  BY DEF EnvInit
<1>2. /\ env \in EnvRecord /\ env.exists /\ ~env.deleting /\ ~env.finalizer
      /\ env.version = version /\ env.reason = "" /\ env.observed = 0 /\ env.gen = 1
  BY <1>1 DEF EnvRecord, EnvReasons
<1>3. env.observed <= env.gen
  <2>1. 0 <= 1
    OBVIOUS
  <2> QED
    BY <1>2, <2>1
<1>4. /\ envView = env /\ stack = NoStack /\ stackView = stack
      /\ infra = "absent" /\ applying = "none" /\ ~asked /\ asked \in BOOLEAN
      /\ built = version /\ builtView = version /\ SetInit(NoSet)
  BY <1>2 DEF EnvInit, PromiseInit
<1>5. PICK first \in Versions : NoSet = [NewSet(first) EXCEPT !.exists = FALSE]
  BY ObjectsAssumption DEF NoSet
<1>6. SetInv /\ edits = 0
  BY <1>4, <1>5, SetInitInv
<1>7. set = NoSet /\ setView = NoSet /\ pass = Idle /\ ~NoSet.exists
  BY <1>4 DEF SetInit, NoSet, NewSet
<1>8. /\ NoStack \in StackRecord /\ ~NoStack.exists /\ NoStack.reason = "Pending"
      /\ NoStack.desired = "Present" /\ ~NoStack.deleting
  BY DEF NoStack, NewStack, StackRecord, StackReasons
<1>9. EnvTypes
  <2>1. edits \in 0..MaxEdits
    BY <1>6, Bounds
  <2> QED
    BY <1>2, <1>4, <1>8, <2>1 DEF EnvTypes
<1>10. EnvSeen = env /\ StackSeen = NoStack /\ SetSeen = NoSet
  BY <1>4, <1>7 DEF EnvSeen, StackSeen, SetSeen
<1>11. ChildInv
  BY <1>2, <1>4, <1>7, <1>8, <1>10 DEF ChildInv, EnvLater, Untouched, Absent
<1>12. ReadyInv
  BY <1>2, <1>3, <1>7 DEF ReadyInv, Recorded, ReadyIsEarned
<1>13. SetOrder
  BY <1>2, <1>4, <1>7 DEF SetOrder
<1>14. StackOrder
  BY <1>2, <1>4, <1>8, <1>10 DEF StackOrder, AskedToGo, Absent
<1> QED
  BY <1>6, <1>9, <1>11, <1>12, <1>13, <1>14 DEF EnvInv

(* What every state satisfies.                                               *)
THEOREM EnvInvariant == EnvSpec => []EnvInv
BY EnvInitInv, EnvInvStep, PTL DEF EnvSpec

(* The three objects and their caches keep their types, and nothing is made  *)
(* for an environment that has no finalizer.                                 *)
THEOREM EnvTypeCorrect == EnvSpec => []EnvTypeOK
<1>1. ASSUME EnvInv PROVE EnvTypeOK
  <2>1. SetTypeOK
    BY <1>1 DEF EnvInv, EnvTypes, SetInv, RecordOK, PassOK, SetTypeOK
  <2>2. env.exists /\ (stack.exists \/ set.exists) => env.finalizer
    BY <1>1, StackNeedsEnv
  <2> QED
    BY <1>1, <2>1, <2>2 DEF EnvInv, EnvTypes, EnvTypeOK
<1>2. EnvInv => EnvTypeOK
  BY <1>1
<1> QED
  BY <1>2, EnvInvariant, PTL

(* An environment is reported ready only when every object of its current    *)
(* generation has been applied, however late its caches are.                 *)
THEOREM ReadinessEarned == EnvSpec => []ReadyIsEarned
<1>1. EnvInv => ReadyIsEarned
  BY DEF EnvInv, ReadyInv
<1> QED
  BY <1>1, EnvInvariant, PTL

-----------------------------------------------------------------------------
(* Teardown                                                                  *)

(* What Teardown sees of a state.                                            *)
EnvIs == IF ~env.exists THEN "gone" ELSE IF env.deleting THEN "deleting" ELSE "wanted"

RuntimeIs ==
  IF set.exists /\ (Named(set.inventory) \ Protected # {} \/ pass.at = "apply")
  THEN "used" ELSE "unused"

(* A set that is sealed is not used.                                         *)
LEMMA SealedUnused ==
  ASSUME Sealed PROVE RuntimeIs = "unused"
BY DEF Sealed, RuntimeIs

(* Every step is one of Teardown, or none.                                   *)
LEMMA TeardownStep ==
  ASSUME EnvInv, [EnvNext]_allVars
  PROVE  \/ UNCHANGED <<EnvIs, RuntimeIs, infra>>
         \/ /\ EnvIs # "gone" /\ RuntimeIs = "unused" /\ RuntimeIs' = "used"
            /\ UNCHANGED <<EnvIs, infra>>
         \/ RuntimeIs = "used" /\ RuntimeIs' = "unused" /\ UNCHANGED <<EnvIs, infra>>
         \/ /\ EnvIs # "gone" /\ infra = "absent" /\ infra' = "present"
            /\ UNCHANGED <<EnvIs, RuntimeIs>>
         \/ /\ EnvIs = "deleting" /\ RuntimeIs = "unused" /\ infra = "present"
            /\ infra' = "absent" /\ UNCHANGED <<EnvIs, RuntimeIs>>
         \/ EnvIs = "wanted" /\ EnvIs' = "deleting" /\ UNCHANGED <<RuntimeIs, infra>>
         \/ /\ EnvIs # "gone" /\ RuntimeIs = "unused" /\ infra = "absent"
            /\ EnvIs' = "gone" /\ UNCHANGED <<RuntimeIs, infra>>
<1>1. Kinds /\ EnvInv'
  BY AllKinds, EnvInvStep
<1>2. CASE EnvEdit
  <2>1. /\ UNCHANGED <<set, setView, pass, infra>> /\ EnvLater(env, env')
        /\ UNCHANGED env \/ (env.exists /\ env'.exists) \/ Goes
    BY <1>2 DEF EnvEdit, promised
  <2>2. UNCHANGED RuntimeIs
    BY <2>1 DEF RuntimeIs
  <2>3. CASE Goes
    BY <2>1, <2>2, <2>3, SealedUnused DEF Goes, Absent, EnvIs
  <2>4. CASE UNCHANGED env \/ (env.exists /\ env'.exists)
    BY <2>1, <2>2, <2>4 DEF EnvLater, EnvIs
  <2> QED
    BY <2>1, <2>3, <2>4
<1>3. CASE UNCHANGED <<env, infra>>
  <2>1. UNCHANGED EnvIs
    BY <1>3 DEF EnvIs
  <2>2. EnvIs = "gone" => RuntimeIs' = "unused"
    <3>1. ~env.exists => Sealed'
      BY <1>1, <1>3 DEF EnvInv, SetOrder
    <3>2. Sealed' => RuntimeIs' = "unused"
      BY DEF Sealed, RuntimeIs
    <3>3. EnvIs = "gone" => ~env.exists
      BY DEF EnvIs
    <3> QED
      BY <3>1, <3>2, <3>3
  <2>3. RuntimeIs \in {"used", "unused"} /\ RuntimeIs' \in {"used", "unused"}
    BY DEF RuntimeIs
  <2> QED
    BY <1>3, <2>1, <2>2, <2>3
<1>4. CASE StackWork /\ UNCHANGED <<set, setView, pass>> /\ infra' # infra
  <2>1. /\ applying # "none" /\ UNCHANGED env
        /\ infra' = IF applying = "Destroy" THEN "absent" ELSE "present"
        /\ infra \in {"absent", "present"}
    BY <1>4 DEF StackWork, EndRunning, EnvInv, EnvTypes
  <2>2. UNCHANGED <<EnvIs, RuntimeIs>>
    BY <1>4, <2>1 DEF EnvIs, RuntimeIs
  <2>3. env.exists
    BY <2>1 DEF EnvInv, StackOrder, Absent
  <2>4. applying = "Destroy" => env.deleting /\ RuntimeIs = "unused"
    <3>1. applying = "Destroy" => EnvSeen.deleting /\ Sealed
      BY DEF EnvInv, StackOrder, SetOrder
    <3> QED
      BY <3>1, Seen, SealedUnused DEF EnvLater
  <2>5. EnvIs # "gone" /\ (env.deleting => EnvIs = "deleting")
    BY <2>3 DEF EnvIs
  <2> QED
    BY <1>4, <2>1, <2>2, <2>4, <2>5
<1> QED
  BY <1>1, <1>2, <1>3, <1>4 DEF Kinds, CacheEnv, CacheStack, StackEdit, KeepsEnv,
     KeepsStack, promised, StackWork

(* At first the environment is wanted, and there is nothing else.            *)
LEMMA TeardownStart ==
  ASSUME EnvInit
  PROVE  EnvIs = "wanted" /\ RuntimeIs = "unused" /\ infra = "absent"
<1>1. env.exists /\ ~env.deleting
  <2>1. PICK version \in Versions :
          env = [exists |-> TRUE, deleting |-> FALSE, finalizer |-> FALSE,
                 gen |-> 1, version |-> version, reason |-> "", observed |-> 0]
    BY DEF EnvInit
  <2> QED
    BY <2>1
<1>2. set = NoSet /\ infra = "absent"
  BY DEF EnvInit, PromiseInit, SetInit
<1>3. ~NoSet.exists
  BY DEF NoSet, NewSet
<1> QED
  BY <1>1, <1>2, <1>3 DEF EnvIs, RuntimeIs

(* The deletion of an environment takes the runtime objects first, then the  *)
(* infrastructure, then the environment, however late its caches are.        *)
THEOREM TeardownImplemented == EnvSpec => TearsDownInOrder
<1>1. EnvInit => Promised!TeardownInit
  BY TeardownStart DEF Promised!TeardownInit, EnvIs, RuntimeIs
<1>2. EnvInv /\ [EnvNext]_allVars => [Promised!TeardownNext]_(Promised!teardownVars)
  BY TeardownStep DEF Promised!TeardownNext, Promised!teardownVars, Promised!Use,
     Promised!StopUsing, Promised!Build, Promised!Demolish, Promised!RequestDeletion,
     Promised!Leave, EnvIs, RuntimeIs
<1> QED
  BY <1>1, <1>2, EnvInvariant, PTL DEF EnvSpec, TearsDownInOrder, Promised!TeardownSpec
=============================================================================
