--------------------------- MODULE ResourceSetProofs ---------------------------
(***************************************************************************)
(* Proofs about ResourceSet, for any objects, versions, waves and caches   *)
(* and any number of edits and faults: the types, what a set that is       *)
(* reported ready has recorded, that pruning takes only what the set has   *)
(* applied and leaves nothing behind, and the order of the waves.  The     *)
(* lemmas about single steps do not depend on who owns the set; the proofs *)
(* about Environment use them, too.                                        *)
(***************************************************************************)
EXTENDS ResourceSet, TLAPS

(* What a ResourceSet, or a copy of it that was read, says of the world: it  *)
(* has recorded only incarnations that have been applied, and nothing before *)
(* it had its finalizer; its status is not of a later generation.            *)
RecordOK(record, w, done) ==
  /\ record \in SetRecord
  /\ \A o \in Objects : record.inventory[o] <= w[o].uid
  /\ \A o \in Named(record.inventory) : <<o, record.inventory[o]>> \in done
  /\ record.observed <= record.gen
  /\ record.exists /\ ~record.finalizer => Named(record.inventory) = {}

(* A pass records what it applies, all of it at least as new as what was     *)
(* recorded before; what it has pruned is gone, and what it is about to      *)
(* delete is the set's own; what it found ready stays so while nobody        *)
(* disturbs it.                                                              *)
PassOK(p, w, done, t) ==
  /\ p \in Passes({"apply", "cleanup"})
  /\ RecordOK(p.view, w, done)
  /\ p.view.exists /\ p.view.finalizer
  /\ p.at = "cleanup" => p.view.deleting
  /\ Named(p.items) \subseteq p.view.resources
  /\ \A o \in Named(p.items) :
       /\ <<o, p.items[o]>> \in done /\ p.items[o] <= w[o].uid
       /\ p.view.inventory[o] <= p.items[o]
  /\ p.checked \subseteq Named(p.items)
  /\ \A o \in p.pruned : w[o].here => p.view.inventory[o] < w[o].uid
  /\ p.item # "none" => p.item \in Named(p.view.inventory) \ Protected
  /\ p.got.here =>
       p.item # "none" /\ p.got.ours /\ p.got.uid = p.view.inventory[p.item]
  /\ t = 0 =>
       /\ \A o \in Named(p.items) : w[o].uid = p.items[o]
       /\ \A o \in p.checked : w[o].ready

SetInv ==
  /\ RecordOK(set, world, applied) /\ RecordOK(setView, world, applied)
  /\ pass = Idle \/ PassOK(pass, world, applied, troubles)
  /\ world \in [Objects -> Thing] /\ applied \subseteq Objects \X Nat
  /\ troubles \in 0..MaxFaults
  /\ ReadyIsRecorded

-----------------------------------------------------------------------------
(* What steps do to the cluster                                              *)

(* A later state of an object: one that was gone comes back as another.      *)
Later(old, new) == old.uid <= new.uid /\ (new.here /\ ~old.here => old.uid < new.uid)

(* What nobody disturbs stays the same incarnation, and ready.               *)
Kept(old, new) == new.uid = old.uid /\ (old.ready => new.ready)

WorldMoves ==
  /\ world' \in [Objects -> Thing]
  /\ applied' \subseteq Objects \X Nat /\ applied \subseteq applied'
  /\ \A o \in Objects : Later(world[o], world'[o])
  /\ troubles' \in 0..MaxFaults /\ troubles <= troubles'
  /\ troubles' = 0 /\ pass # Idle =>
       \A o \in Objects : pass.items[o] # 0 => Kept(world[o], world'[o])

(* Whoever owns the set writes its spec, or creates it anew.                 *)
OwnMoves ==
  /\ set' \in SetRecord
  /\ UNCHANGED <<setView, pass, world, applied, troubles>>
  /\ \/ /\ set.exists /\ set'.gen = set.gen + 1
        /\ set'.inventory = set.inventory /\ set'.observed = set.observed
        /\ set'.finalizer = set.finalizer
        /\ ~set'.exists => ~set.finalizer /\ set'.deleting
     \/ /\ ~set.exists /\ set'.exists /\ set'.inventory = Nothing
        /\ set'.observed = 0 /\ set'.reason = ""

(* Or the step, and the fault in it, is somebody else's.                     *)
Elsewhere ==
  /\ UNCHANGED <<set, setView, pass, world, applied>>
  /\ troubles' \in 0..MaxFaults /\ troubles <= troubles'

SetMoves ==
  ReconcileSet \/ SetFaults \/ Cluster \/ OwnMoves \/ Elsewhere

(* The bounds are numbers.                                                   *)
LEMMA Bounds ==
  MaxEdits \in Nat /\ MaxFaults \in Nat /\ 0 \in Nat /\ 0 \in 0..MaxFaults
BY SetBoundsAssumption

(* Faults are counted by numbers.                                            *)
LEMMA Troubles ==
  ASSUME troubles \in 0..MaxFaults
  PROVE  /\ troubles \in Nat /\ troubles <= troubles /\ troubles + 1 # 0
         /\ troubles < MaxFaults =>
              /\ troubles + 1 \in 0..MaxFaults /\ troubles <= troubles + 1
              /\ troubles + 1 # troubles
BY Bounds

(* An object is later than itself.                                           *)
LEMMA SameThing ==
  ASSUME NEW old \in Thing, NEW new \in Thing, new.uid = old.uid,
         new.here => old.here
  PROVE  Later(old, new)
<1>1. old.uid \in Nat
  BY DEF Thing
<1> QED
  BY <1>1 DEF Later

(* A new incarnation.                                                        *)
LEMMA NewThing ==
  ASSUME world \in [Objects -> Thing], NEW o \in Objects, NEW ours \in BOOLEAN,
         NEW new, new = Incarnation(o, ours)
  PROVE  /\ new \in Thing /\ Later(world[o], new) /\ new.uid = world[o].uid + 1
         /\ new.here /\ new.ours = ours /\ ~new.ending
<1>1. PICK old \in Thing : old = world[o]
  OBVIOUS
<1>2. PICK uid \in Nat : uid = old.uid
  BY DEF Thing
<1>3. uid + 1 \in Nat /\ uid < uid + 1
  BY <1>2
<1>4. new = [uid |-> uid + 1, here |-> TRUE, ours |-> ours, ready |-> FALSE,
             ending |-> FALSE]
  BY <1>1, <1>2 DEF Incarnation
<1>5. /\ new \in Thing /\ new.uid = uid + 1
      /\ new.here /\ new.ours = ours /\ ~new.ending
  BY <1>3, <1>4 DEF Thing
<1> QED
  BY <1>1, <1>2, <1>3, <1>5 DEF Later

(* What is applied is here, and the set's own.                               *)
LEMMA AppliedIs ==
  ASSUME world \in [Objects -> Thing], NEW o \in Objects, NEW new, new = AppliedThing(o)
  PROVE  /\ new \in Thing /\ Later(world[o], new)
         /\ new.here /\ new.ours /\ new.uid \in Nat
         /\ new.uid # 0 \/ new.uid = world[o].uid
         /\ new.ending => world[o].ending
         /\ new.uid # world[o].uid => ~world[o].here
<1>1. CASE world[o].here
  <2>1. PICK old \in Thing : old = world[o]
    OBVIOUS
  <2>2. new = [old EXCEPT !.ours = TRUE]
    BY <1>1, <2>1 DEF AppliedThing
  <2>3. /\ new \in Thing /\ new.uid = old.uid /\ new.here /\ new.ours
        /\ new.ending = old.ending /\ new.uid \in Nat
    BY <1>1, <2>1, <2>2 DEF Thing
  <2> QED
    BY <1>1, <2>1, <2>3, SameThing
<1>2. CASE ~world[o].here
  <2>1. new = Incarnation(o, TRUE)
    BY <1>2 DEF AppliedThing
  <2>2. /\ new \in Thing /\ Later(world[o], new) /\ new.uid = world[o].uid + 1
        /\ new.here /\ new.ours /\ ~new.ending
    BY <2>1, NewThing
  <2>3. world[o].uid \in Nat
    BY DEF Thing
  <2> QED
    BY <1>2, <2>2, <2>3
<1> QED
  BY <1>1, <1>2

(* One object changes.                                                       *)
LEMMA OneThing ==
  ASSUME SetInv, NEW o \in Objects, NEW new \in Thing,
         world' = [world EXCEPT ![o] = new], Later(world[o], new),
         applied' \subseteq Objects \X Nat, applied \subseteq applied',
         troubles' \in 0..MaxFaults, troubles <= troubles',
         troubles' # 0 \/ (pass # Idle => pass.items[o] = 0) \/ Kept(world[o], new)
  PROVE  WorldMoves
<1>1. world \in [Objects -> Thing]
  BY DEF SetInv
<1>2. \A q \in Objects : Later(world[q], world[q])
  BY <1>1, SameThing
<1>3. \A q \in Objects : Kept(world[q], world[q])
  BY DEF Kept
<1> QED
  BY <1>1, <1>2, <1>3 DEF WorldMoves

(* Nothing changes.                                                          *)
LEMMA SameWorld ==
  ASSUME SetInv, UNCHANGED <<world, applied>>, troubles' \in 0..MaxFaults,
         troubles <= troubles'
  PROVE  WorldMoves
<1>1. world \in [Objects -> Thing] /\ applied \subseteq Objects \X Nat
  BY DEF SetInv
<1>2. \A q \in Objects : Later(world[q], world[q])
  BY <1>1, SameThing
<1>3. \A q \in Objects : Kept(world[q], world[q])
  BY DEF Kept
<1> QED
  BY <1>1, <1>2, <1>3 DEF WorldMoves

(* Every step moves the cluster that way.                                    *)
LEMMA WorldStep ==
  SetInv /\ SetMoves => WorldMoves
<1> SUFFICES ASSUME SetInv, SetMoves PROVE WorldMoves
  OBVIOUS
<1>0. /\ world \in [Objects -> Thing] /\ applied \subseteq Objects \X Nat
      /\ troubles \in 0..MaxFaults /\ troubles <= troubles
      /\ troubles < MaxFaults =>
           troubles + 1 \in 0..MaxFaults /\ troubles <= troubles + 1 /\ troubles + 1 # 0
  BY Troubles DEF SetInv
<1>1. CASE UNCHANGED <<world, applied>> /\ troubles' \in {troubles, troubles + 1}
           /\ (troubles' # troubles => troubles < MaxFaults)
  BY <1>0, <1>1, SameWorld
<1>2. ASSUME NEW o \in Objects, Touch(o), troubles' \in {troubles, troubles + 1},
             troubles' # troubles => troubles < MaxFaults,
             troubles' # 0 \/ (pass # Idle => pass.items[o] = 0)
      PROVE  WorldMoves
  <2>1. PICK new : new = AppliedThing(o)
    OBVIOUS
  <2>2. new \in Thing /\ Later(world[o], new) /\ new.uid \in Nat
    BY <1>0, <2>1, AppliedIs
  <2>3. /\ world' = [world EXCEPT ![o] = new] /\ applied' = applied \cup {<<o, new.uid>>}
    BY <1>2, <2>1 DEF Touch
  <2>4. applied' \subseteq Objects \X Nat /\ applied \subseteq applied'
    BY <1>0, <2>2, <2>3
  <2> QED
    BY <1>0, <1>2, <2>2, <2>3, <2>4, OneThing
<1>3. ASSUME NEW o \in Objects, NEW new \in Thing,
             world' = [world EXCEPT ![o] = new], UNCHANGED applied,
             new.uid = world[o].uid, new.here => world[o].here,
             \/ troubles' = troubles /\ (world[o].ready => new.ready)
             \/ troubles' = troubles + 1 /\ troubles < MaxFaults
      PROVE  WorldMoves
  <2>1. Later(world[o], new)
    BY <1>0, <1>3, SameThing
  <2> QED
    BY <1>0, <1>3, <2>1, OneThing DEF Kept
<1>4. ASSUME NEW o \in Objects, ApplyObject(o) PROVE WorldMoves
  BY <1>2, <1>4 DEF ApplyObject, Turn, boundVars
<1>5. ASSUME NEW o \in Objects, FailToApply(o) PROVE WorldMoves
  BY <1>0, <1>1, <1>2, <1>5 DEF FailToApply
<1>6. ASSUME NEW o \in Objects, DeleteDoomed(o) PROVE WorldMoves
  <2>1. PICK old \in Thing : old = world[o]
    BY <1>0
  <2>2. PICK new : new = Deleted(old, o \in Slow)
    OBVIOUS
  <2>3. new \in Thing /\ new.uid = old.uid /\ (new.here => old.here) /\ new.ready = old.ready
    BY <2>2 DEF Deleted, Thing
  <2>4. \/ UNCHANGED <<world, applied, troubles>>
        \/ world' = [world EXCEPT ![o] = new] /\ UNCHANGED <<applied, troubles>>
    BY <1>0, <1>6, <2>1, <2>2 DEF DeleteDoomed, boundVars
  <2> QED
    BY <1>0, <1>1, <1>3, <2>1, <2>3, <2>4
<1>7. ASSUME NEW o \in Objects, BecomeReady(o) \/ Vanish(o) PROVE WorldMoves
  <2>1. PICK old \in Thing : old = world[o]
    BY <1>0
  <2>2. CASE BecomeReady(o)
    <3>1. PICK new : new = [old EXCEPT !.ready = TRUE]
      OBVIOUS
    <3>2. new \in Thing /\ new.uid = old.uid /\ new.here = old.here /\ new.ready
      BY <3>1 DEF Thing
    <3> QED
      BY <1>3, <2>1, <2>2, <3>1, <3>2 DEF BecomeReady, Becomes
  <2>3. CASE Vanish(o)
    <3>1. PICK new : new = [old EXCEPT !.here = FALSE, !.ending = FALSE]
      OBVIOUS
    <3>2. new \in Thing /\ new.uid = old.uid /\ ~new.here /\ new.ready = old.ready
      BY <3>1 DEF Thing
    <3> QED
      BY <1>3, <2>1, <2>3, <3>1, <3>2 DEF Vanish, Becomes
  <2> QED
    BY <1>7, <2>2, <2>3
<1>8. ASSUME NEW o \in Objects, Disturb(o) PROVE WorldMoves
  <2>1. PICK old \in Thing : old = world[o]
    BY <1>0
  <2>2. PICK gone, other, unlabelled, unready :
           /\ gone = [old EXCEPT !.here = FALSE, !.ending = FALSE]
           /\ other = Incarnation(o, FALSE)
           /\ unlabelled = [old EXCEPT !.ours = FALSE]
           /\ unready = [old EXCEPT !.ready = FALSE]
    OBVIOUS
  <2>3. /\ gone \in Thing /\ gone.uid = old.uid /\ ~gone.here
        /\ unlabelled \in Thing /\ unlabelled.uid = old.uid /\ unlabelled.here = old.here
        /\ unready \in Thing /\ unready.uid = old.uid /\ unready.here = old.here
    BY <2>2 DEF Thing
  <2>4. other \in Thing /\ Later(old, other)
    BY <1>0, <2>1, <2>2, NewThing
  <2>5. PICK new \in {gone, other, unlabelled, unready} :
           /\ world' = [world EXCEPT ![o] = new] /\ UNCHANGED applied
           /\ troubles' = troubles + 1 /\ troubles < MaxFaults
    BY <1>8, <2>1, <2>2 DEF Disturb, Becomes
  <2>6. CASE new = other
    BY <1>0, <2>1, <2>4, <2>5, <2>6, OneThing
  <2>7. CASE new # other
    BY <1>3, <2>1, <2>3, <2>5, <2>7
  <2> QED
    BY <2>6, <2>7
<1>9. CASE ReconcileSet /\ UNCHANGED <<world, applied, troubles>>
  BY <1>1, <1>9
<1>10. ReconcileSet =>
         \/ UNCHANGED <<world, applied, troubles>>
         \/ \E o \in Objects : ApplyObject(o) \/ DeleteDoomed(o)
  BY DEF ReconcileSet, AddSetFinalizer, BlockMutation, BeginApply, BeginCleanup, Start,
     FinishApply, FinishCleanup, CheckObject, ReadDoomed, ConfirmPruned, boundVars
<1>11. CASE RejectSpec \/ StopPass
  BY <1>0, <1>1, <1>11 DEF RejectSpec, StopPass
<1>12. CASE CacheSet \/ OwnMoves
  BY <1>1, <1>12 DEF CacheSet, OwnMoves, boundVars
<1>13. CASE Elsewhere
  BY <1>13, SameWorld DEF Elsewhere
<1> QED
  BY <1>1, <1>4, <1>5, <1>6, <1>7, <1>8, <1>9, <1>10, <1>11, <1>12,
     <1>13 DEF SetMoves, SetFaults, Cluster

-----------------------------------------------------------------------------
(* What steps do to the set                                                  *)

(* The world only ever confirms what has been recorded.                      *)
LEMMA RecordStays ==
  ASSUME NEW record, RecordOK(record, world, applied),
         world \in [Objects -> Thing], WorldMoves
  PROVE  RecordOK(record, world', applied')
<1>1. ASSUME NEW o \in Objects PROVE record.inventory[o] <= world'[o].uid
  <2>1. /\ record.inventory[o] \in Nat /\ world[o].uid \in Nat /\ world'[o].uid \in Nat
    BY DEF RecordOK, SetRecord, Inventory, Thing, WorldMoves
  <2>2. record.inventory[o] <= world[o].uid /\ world[o].uid <= world'[o].uid
    BY DEF RecordOK, WorldMoves, Later
  <2> QED
    BY <2>1, <2>2
<1> QED
  BY <1>1 DEF RecordOK, WorldMoves

(* What a status changes.                                                    *)
LEMMA StatusIs ==
  ASSUME NEW old \in SetRecord, NEW reason \in SetReasons,
         NEW new, new = SetStatus(old, reason)
  PROVE  /\ new \in SetRecord /\ new.reason = reason /\ new.observed = old.gen
         /\ new.gen = old.gen /\ new.gen \in Nat /\ new.gen <= new.gen
         /\ new.exists = old.exists /\ new.finalizer = old.finalizer
         /\ new.deleting = old.deleting
         /\ new.inventory = old.inventory /\ new.resources = old.resources
<1>1. /\ new \in SetRecord /\ new.reason = reason /\ new.observed = old.gen
      /\ new.gen = old.gen /\ new.gen \in Nat
      /\ new.exists = old.exists /\ new.finalizer = old.finalizer
      /\ new.deleting = old.deleting
      /\ new.inventory = old.inventory /\ new.resources = old.resources
  BY DEF SetStatus, SetRecord
<1> QED
  BY <1>1

(* What a complete pass writes.                                              *)
LEMMA FinishIs ==
  ASSUME FinishApply, set = pass.view, set \in SetRecord, pass.items \in Inventory
  PROVE  /\ set' \in SetRecord /\ set'.observed = set.gen
         /\ set'.gen = set.gen /\ set'.gen \in Nat /\ set'.gen <= set'.gen
         /\ set'.exists = set.exists /\ set'.finalizer = set.finalizer
         /\ set'.inventory = pass.items /\ set'.resources = set.resources
<1>1. PICK reason \in SetReasons :
        set' = [SetStatus(set, reason) EXCEPT !.inventory = pass.items]
  BY DEF FinishApply, UpdateSet, SetReasons
<1>2. PICK status : status = SetStatus(set, reason)
  OBVIOUS
<1>3. /\ status \in SetRecord /\ status.observed = set.gen
      /\ status.gen = set.gen /\ status.gen \in Nat /\ status.gen <= status.gen
      /\ status.exists = set.exists /\ status.finalizer = set.finalizer
      /\ status.resources = set.resources
  BY <1>2, StatusIs
<1>4. set' = [status EXCEPT !.inventory = pass.items]
  BY <1>1, <1>2
<1> QED
  BY <1>3, <1>4 DEF SetRecord

(* The controller of the set and the target cluster at work.                 *)
SetWork == ReconcileSet \/ SetFaults \/ Cluster

(* How the set may change, by its controller.                                *)
WorkChange ==
  \/ UNCHANGED set
  \/ \E reason \in SetReasons \ {"RuntimeReady"} : set' = SetStatus(set, reason)
  \/ set' = [set EXCEPT !.finalizer = TRUE]
  \/ FinishApply /\ set = pass.view
  \/ FinishCleanup /\ set' = [set EXCEPT !.finalizer = FALSE, !.exists = FALSE]
       /\ set = pass.view

(* And by anybody.                                                           *)
SetChange == WorkChange \/ OwnMoves

(* No step of the controller changes it otherwise.                           *)
LEMMA WorkChanges ==
  SetWork => WorkChange
<1> SUFFICES ASSUME SetWork PROVE WorkChange
  OBVIOUS
<1>1. ASSUME NEW old, NEW reason \in SetReasons \ {"RuntimeReady"},
             UpdateSet(old, SetStatus(old, reason))
      PROVE  WorkChange
  BY <1>1 DEF UpdateSet, WorkChange
<1>2. ASSUME NEW reason \in SetReasons \ {"RuntimeReady"}, EndPass(reason)
      PROVE  WorkChange
  BY <1>1, <1>2 DEF EndPass
<1>3. ASSUME RejectPrune PROVE WorkChange
  BY <1>2, <1>3 DEF RejectPrune, SetReasons
<1>4. CASE AddSetFinalizer
  BY <1>4 DEF AddSetFinalizer, UpdateSet, WorkChange
<1>5. CASE BlockMutation \/ RejectSpec
  BY <1>1, <1>5 DEF BlockMutation, RejectSpec, SetReasons
<1>6. CASE BeginApply \/ BeginCleanup \/ StopPass \/ CacheSet
  BY <1>6 DEF BeginApply, BeginCleanup, Start, StopPass, CacheSet, WorkChange
<1>7. CASE FinishApply
  BY <1>7 DEF FinishApply, UpdateSet, WorkChange
<1>8. CASE FinishCleanup
  BY <1>8 DEF FinishCleanup, UpdateSet, WorkChange
<1>9. ASSUME NEW o \in Objects,
             ApplyObject(o) \/ BecomeReady(o) \/ Vanish(o) \/ Disturb(o)
      PROVE  WorkChange
  BY <1>9 DEF ApplyObject, BecomeReady, Vanish, Disturb, Becomes, WorkChange
<1>10. ASSUME NEW o \in Objects, CheckObject(o) \/ FailToApply(o) PROVE WorkChange
  BY <1>2, <1>10 DEF CheckObject, FailToApply, SetReasons, WorkChange
<1>11. ASSUME NEW o \in Objects, ReadDoomed(o) \/ DeleteDoomed(o) \/ ConfirmPruned(o)
       PROVE  WorkChange
  BY <1>3, <1>11 DEF ReadDoomed, DeleteDoomed, ConfirmPruned, WorkChange
<1> QED
  BY <1>4, <1>5, <1>6, <1>7, <1>8, <1>9, <1>10, <1>11
     DEF SetWork, ReconcileSet, SetFaults, Cluster

(* No step at all changes it otherwise.                                      *)
LEMMA SetChanges ==
  SetMoves => SetChange
BY WorkChanges DEF SetMoves, SetWork, SetChange, Elsewhere, WorkChange

(* The set keeps what it says of the world, and is reported ready only for   *)
(* what it has recorded.                                                     *)
LEMMA SetStep ==
  SetInv /\ SetMoves => RecordOK(set', world', applied') /\ ReadyIsRecorded'
<1> SUFFICES ASSUME SetInv, SetMoves
             PROVE  RecordOK(set', world', applied') /\ ReadyIsRecorded'
  OBVIOUS
<1>1. /\ WorldMoves /\ RecordOK(set, world', applied') /\ applied \subseteq applied'
      /\ set \in SetRecord /\ set.gen \in Nat /\ set.observed \in Nat
      /\ set.observed <= set.gen
  BY WorldStep, RecordStays DEF SetInv, WorldMoves, RecordOK, SetRecord
<1>2. CASE UNCHANGED set
  BY <1>1, <1>2 DEF SetInv, ReadyIsRecorded
<1>3. ASSUME NEW reason \in SetReasons \ {"RuntimeReady"}, set' = SetStatus(set, reason)
      PROVE  RecordOK(set', world', applied') /\ ReadyIsRecorded'
  <2>1. /\ set' \in SetRecord /\ set'.reason = reason /\ set'.observed = set.gen
        /\ set'.gen = set.gen /\ set'.gen <= set'.gen
        /\ set'.exists = set.exists /\ set'.finalizer = set.finalizer
        /\ set'.inventory = set.inventory
    BY <1>1, <1>3, StatusIs
  <2> QED
    BY <1>1, <2>1 DEF RecordOK, ReadyIsRecorded
<1>4. CASE set' = [set EXCEPT !.finalizer = TRUE]
  <2>1. /\ set' \in SetRecord /\ set'.reason = set.reason /\ set'.observed = set.observed
        /\ set'.gen = set.gen /\ set'.exists = set.exists /\ set'.finalizer
        /\ set'.inventory = set.inventory /\ set'.resources = set.resources
    BY <1>1, <1>4 DEF SetRecord
  <2> QED
    BY <1>1, <2>1 DEF RecordOK, SetInv, ReadyIsRecorded
<1>5. CASE FinishApply /\ set = pass.view
  <2>1. PassOK(pass, world, applied, troubles) /\ pass.at # "idle"
    BY <1>5 DEF FinishApply, PruneDone, Pruning, SetInv, Idle
  <2>2. pass.items \in Inventory
    BY <2>1 DEF PassOK, Passes
  <2>3. /\ set' \in SetRecord /\ set'.observed = set.gen
        /\ set'.gen = set.gen /\ set'.gen <= set'.gen
        /\ set'.exists = set.exists /\ set'.finalizer = set.finalizer
        /\ set'.inventory = pass.items /\ set'.resources = set.resources
    BY <1>1, <1>5, <2>2, FinishIs
  <2>4. Named(pass.items) = set.resources
    <3>1. Named(pass.items) \subseteq set.resources
      BY <1>5, <2>1 DEF PassOK
    <3>2. \A o \in set.resources : pass.items[o] # 0
      BY <1>5 DEF FinishApply, PruneDone, Pruning, AllApplied, WaveDone
    <3>3. set.resources \subseteq Objects
      BY <1>1, ObjectsAssumption DEF SetRecord
    <3> QED
      BY <3>1, <3>2, <3>3 DEF Named
  <2>5. \A o \in Named(pass.items) : <<o, pass.items[o]>> \in applied
    BY <2>1 DEF PassOK
  <2>6. \A o \in Objects : pass.items[o] <= world'[o].uid
    <3>1. ASSUME NEW o \in Objects PROVE pass.items[o] <= world'[o].uid
      <4>1. /\ pass.items[o] \in Nat /\ world[o].uid \in Nat /\ world'[o].uid \in Nat
            /\ world[o].uid <= world'[o].uid
        BY <1>1, <2>2 DEF Inventory, SetInv, Thing, WorldMoves, Later
      <4>2. pass.items[o] # 0 => pass.items[o] <= world[o].uid
        BY <2>1 DEF PassOK, Named
      <4> QED
        BY <4>1, <4>2
    <3> QED
      BY <3>1
  <2>7. set'.finalizer
    BY <1>5, <2>1, <2>3 DEF PassOK
  <2> QED
    BY <1>1, <2>3, <2>4, <2>5, <2>6, <2>7 DEF RecordOK, ReadyIsRecorded
<1>6. CASE set' = [set EXCEPT !.finalizer = FALSE, !.exists = FALSE]
  <2>1. /\ set' \in SetRecord /\ set'.observed = set.observed
        /\ set'.gen = set.gen /\ ~set'.exists /\ set'.inventory = set.inventory
    BY <1>1, <1>6 DEF SetRecord
  <2> QED
    BY <1>1, <2>1 DEF RecordOK, ReadyIsRecorded
<1>7. CASE OwnMoves
  <2>1. CASE /\ set.exists /\ set'.gen = set.gen + 1
             /\ set'.inventory = set.inventory /\ set'.observed = set.observed
             /\ set'.finalizer = set.finalizer
    <3>1. set'.observed <= set'.gen /\ set'.observed # set'.gen
      BY <1>1, <2>1
    <3>2. set' \in SetRecord
      BY <1>7 DEF OwnMoves
    <3> QED
      BY <1>1, <2>1, <3>1, <3>2 DEF RecordOK, ReadyIsRecorded
  <2>2. CASE set'.inventory = Nothing /\ set'.observed = 0 /\ set'.reason = ""
    <3>1. set' \in SetRecord /\ 0 <= set'.gen
      <4>1. set' \in SetRecord /\ set'.gen \in Nat
        BY <1>7 DEF OwnMoves, SetRecord
      <4> QED
        BY <4>1
    <3>2. Named(set'.inventory) = {} /\ \A o \in Objects : set'.inventory[o] = 0
      BY <2>2 DEF Named, Nothing
    <3>3. \A o \in Objects : 0 <= world'[o].uid
      BY <1>1 DEF WorldMoves, Thing
    <3> QED
      BY <2>2, <3>1, <3>2, <3>3 DEF RecordOK, ReadyIsRecorded
  <2> QED
    BY <1>7, <2>1, <2>2 DEF OwnMoves
<1> QED
  BY <1>2, <1>3, <1>4, <1>5, <1>6, <1>7, SetChanges DEF SetChange, WorkChange

(* A copy that is read keeps it, too.                                        *)
LEMMA ViewStep ==
  SetInv /\ SetMoves => RecordOK(setView', world', applied')
<1> SUFFICES ASSUME SetInv, SetMoves PROVE RecordOK(setView', world', applied')
  OBVIOUS
<1>1. setView' = setView \/ setView' = set
  BY DEF SetMoves, ReconcileSet, SetFaults, Cluster, AddSetFinalizer, BlockMutation,
     BeginApply, BeginCleanup, Start, FinishApply, FinishCleanup, ApplyObject,
     CheckObject, ReadDoomed, DeleteDoomed, ConfirmPruned, EndPass, RejectPrune,
     RejectSpec, StopPass, FailToApply, BecomeReady, Vanish, Disturb, Becomes, CacheSet,
     OwnMoves, Elsewhere
<1> QED
  BY <1>1, WorldStep, RecordStays DEF SetInv

-----------------------------------------------------------------------------
(* What steps do to the pass                                                 *)

(* What a pass has found stays true.                                         *)
LEMMA PassStays ==
  ASSUME SetInv, WorldMoves, PassOK(pass, world, applied, troubles), pass # Idle
  PROVE  PassOK(pass, world', applied', troubles')
<1>1. /\ world \in [Objects -> Thing] /\ world' \in [Objects -> Thing]
      /\ pass.items \in Inventory /\ pass.view \in SetRecord
      /\ pass.view.inventory \in Inventory /\ pass.pruned \subseteq Objects
      /\ troubles \in Nat /\ troubles' \in Nat /\ troubles <= troubles'
  <2>1. pass.view \in SetRecord /\ pass.items \in Inventory /\ pass.pruned \subseteq Objects
    BY DEF PassOK, Passes
  <2>2. troubles \in Nat /\ troubles' \in Nat
    BY DEF SetInv, WorldMoves
  <2> QED
    BY <2>1, <2>2 DEF SetInv, WorldMoves, SetRecord
<1>2. RecordOK(pass.view, world', applied')
  BY <1>1, RecordStays DEF PassOK
<1>3. ASSUME NEW o \in Named(pass.items)
      PROVE  <<o, pass.items[o]>> \in applied' /\ pass.items[o] <= world'[o].uid
  <2>1. o \in Objects
    BY DEF Named
  <2>2. /\ pass.items[o] \in Nat /\ world[o].uid \in Nat /\ world'[o].uid \in Nat
    BY <1>1, <2>1 DEF Inventory, Thing
  <2>3. /\ <<o, pass.items[o]>> \in applied /\ pass.items[o] <= world[o].uid
        /\ world[o].uid <= world'[o].uid /\ applied \subseteq applied'
    BY <2>1 DEF PassOK, WorldMoves, Later
  <2> QED
    BY <2>2, <2>3
<1>4. ASSUME NEW o \in pass.pruned, world'[o].here
      PROVE  pass.view.inventory[o] < world'[o].uid
  <2>1. o \in Objects
    BY <1>1
  <2>2. /\ pass.view.inventory[o] \in Nat /\ world[o].uid \in Nat /\ world'[o].uid \in Nat
    BY <1>1, <2>1 DEF Inventory, Thing
  <2>3. pass.view.inventory[o] <= world[o].uid
    BY <2>1 DEF PassOK, RecordOK
  <2>4. world[o].uid <= world'[o].uid /\ (world[o].here \/ world[o].uid < world'[o].uid)
    BY <1>4, <2>1 DEF WorldMoves, Later
  <2>5. world[o].here => pass.view.inventory[o] < world[o].uid
    BY DEF PassOK
  <2> QED
    BY <2>2, <2>3, <2>4, <2>5
<1>5. ASSUME troubles' = 0
      PROVE  /\ \A o \in Named(pass.items) : world'[o].uid = pass.items[o]
             /\ \A o \in pass.checked : world'[o].ready
  <2>1. troubles = 0
    BY <1>1, <1>5
  <2>2. \A o \in Named(pass.items) : Kept(world[o], world'[o])
    BY <1>5 DEF WorldMoves, Named
  <2> QED
    BY <2>1, <2>2 DEF PassOK, Kept
<1> QED
  BY <1>2, <1>3, <1>4, <1>5 DEF PassOK

(* A pass starts with empty hands.                                           *)
LEMMA StartOK ==
  ASSUME SetInv, WorldMoves, NEW at \in {"apply", "cleanup"}, Start(at),
         SetSeen.exists, SetSeen.finalizer, at = "cleanup" => SetSeen.deleting
  PROVE  PassOK(pass', world', applied', troubles')
<1>1. RecordOK(SetSeen, world', applied') /\ SetSeen \in SetRecord
  BY RecordStays DEF SetInv, SetSeen, RecordOK
<1>2. PICK view \in SetRecord : view = SetSeen
  BY <1>1
<1>3. pass' = [at |-> at, view |-> view, items |-> Nothing, checked |-> {},
               pruned |-> {}, item |-> "none",
               got |-> [uid |-> 0, here |-> FALSE, ours |-> FALSE,
                        ready |-> FALSE, ending |-> FALSE]]
  BY <1>2 DEF Start
<1>4. /\ pass' \in Passes({"apply", "cleanup"})
      /\ pass'.at = at /\ pass'.view = view /\ pass'.items = Nothing /\ pass'.checked = {}
      /\ pass'.pruned = {} /\ pass'.item = "none" /\ ~pass'.got.here
  BY <1>3 DEF Passes, Nothing, Inventory, Thing
<1>5. Named(Nothing) = {}
  BY DEF Named, Nothing
<1> QED
  BY <1>1, <1>2, <1>4, <1>5 DEF PassOK

(* An object that is applied is recorded.                                    *)
LEMMA ApplyOK ==
  ASSUME SetInv, WorldMoves, NEW o \in Objects, ApplyObject(o)
  PROVE  PassOK(pass', world', applied', troubles')
<1>1. PassOK(pass, world, applied, troubles) /\ pass # Idle
  BY DEF ApplyObject, Applying, SetInv, Idle
<1>2. PassOK(pass, world', applied', troubles')
  BY <1>1, PassStays
<1>3. PICK p \in Passes({"apply", "cleanup"}) : p = pass
  BY <1>1 DEF PassOK
<1>4. PICK thing : thing = AppliedThing(o)
  OBVIOUS
<1>5. world \in [Objects -> Thing]
  BY DEF SetInv
<1>6. /\ thing \in Thing /\ Later(world[o], thing) /\ thing.uid \in Nat
  BY <1>4, <1>5, AppliedIs
<1>7. PICK items : items = [p.items EXCEPT ![o] = thing.uid]
  OBVIOUS
<1>8. /\ items \in Inventory /\ items[o] = thing.uid
      /\ \A q \in Objects : q # o => items[q] = p.items[q]
  BY <1>3, <1>6, <1>7 DEF Passes, Inventory
<1>9. PICK new : new = [p EXCEPT !.items = items]
  OBVIOUS
<1>10. /\ new \in Passes({"apply", "cleanup"}) /\ new.items = items
       /\ new.at = p.at /\ new.view = p.view /\ new.checked = p.checked /\ new.pruned = p.pruned
       /\ new.item = p.item /\ new.got = p.got
  BY <1>8, <1>9 DEF Passes
<1>11. /\ pass' = new /\ world'[o] = thing /\ <<o, thing.uid>> \in applied'
       /\ o \in p.view.resources /\ p.items[o] = 0
  BY <1>3, <1>4, <1>5, <1>7, <1>9 DEF ApplyObject, Touch, Turn, Passes, Inventory
<1>12. p.view.inventory[o] <= thing.uid /\ thing.uid <= thing.uid
  <2>1. p.view.inventory[o] \in Nat /\ world[o].uid \in Nat
    BY <1>5 DEF Passes, SetRecord, Inventory, Thing
  <2>2. p.view.inventory[o] <= world[o].uid /\ world[o].uid <= thing.uid
    BY <1>1, <1>3, <1>6 DEF PassOK, RecordOK, Later
  <2> QED
    BY <1>6, <2>1, <2>2
<1>13. Named(p.items) \subseteq Named(items) /\ Named(items) \subseteq Named(p.items) \cup {o}
  BY <1>8, <1>11 DEF Named
<1>14. \A q \in Named(items) \ {o} : q \in Named(p.items) /\ items[q] = p.items[q]
  BY <1>8, <1>13 DEF Named
<1>15. ASSUME NEW q \in Named(items)
       PROVE  /\ q \in p.view.resources /\ <<q, items[q]>> \in applied'
              /\ items[q] <= world'[q].uid /\ p.view.inventory[q] <= items[q]
              /\ troubles' = 0 => world'[q].uid = items[q]
  <2>1. CASE q = o
    BY <1>8, <1>11, <1>12, <2>1
  <2>2. CASE q # o
    BY <1>2, <1>3, <1>14, <2>2 DEF PassOK
  <2> QED
    BY <2>1, <2>2
<1> QED
  BY <1>2, <1>3, <1>10, <1>11, <1>13, <1>15 DEF PassOK

(* An object that is ready is ticked off.                                    *)
LEMMA CheckOK ==
  ASSUME SetInv, WorldMoves, NEW o \in Objects, CheckObject(o), pass' # Idle
  PROVE  PassOK(pass', world', applied', troubles')
<1>1. PassOK(pass, world, applied, troubles) /\ pass # Idle
  BY DEF CheckObject, Applying, SetInv, Idle
<1>2. PassOK(pass, world', applied', troubles')
  BY <1>1, PassStays
<1>3. PICK p \in Passes({"apply", "cleanup"}) : p = pass
  BY <1>1 DEF PassOK
<1>4. PICK new : new = [p EXCEPT !.checked = p.checked \cup {o}]
  OBVIOUS
<1>5. /\ new \in Passes({"apply", "cleanup"}) /\ new.checked = p.checked \cup {o}
      /\ new.at = p.at /\ new.view = p.view /\ new.items = p.items /\ new.pruned = p.pruned
      /\ new.item = p.item /\ new.got = p.got
  BY <1>4 DEF Passes
<1>6. pass' = new /\ world' = world /\ world[o].ready
  BY <1>3, <1>4 DEF CheckObject, EndPass
<1>7. o \in Named(p.items)
  BY <1>3 DEF CheckObject, Named
<1> QED
  BY <1>2, <1>3, <1>5, <1>6, <1>7 DEF PassOK

(* An object that is gone is pruned.                                         *)
LEMMA PrunedOK ==
  ASSUME SetInv, WorldMoves, NEW o \in Objects, Pruned(o), pass # Idle,
         ~world'[o].here, ~pass.got.here
  PROVE  PassOK(pass', world', applied', troubles')
<1>1. PassOK(pass, world', applied', troubles')
  BY PassStays DEF SetInv
<1>2. PICK p \in Passes({"apply", "cleanup"}) : p = pass
  BY <1>1 DEF PassOK
<1>3. PICK new : new = [p EXCEPT !.pruned = p.pruned \cup {o}, !.item = "none"]
  OBVIOUS
<1>4. /\ new \in Passes({"apply", "cleanup"}) /\ new.pruned = p.pruned \cup {o}
      /\ new.at = p.at /\ new.view = p.view /\ new.items = p.items /\ new.checked = p.checked
      /\ new.item = "none" /\ new.got = p.got
  BY <1>3 DEF Passes
<1>5. pass' = new
  BY <1>2, <1>3 DEF Pruned
<1> QED
  BY <1>1, <1>2, <1>4, <1>5 DEF PassOK

(* An object that is read is the set's own.                                  *)
LEMMA ReadOK ==
  ASSUME SetInv, WorldMoves, NEW o \in Objects, ReadDoomed(o), pass' # Idle
  PROVE  PassOK(pass', world', applied', troubles')
<1>1. /\ PassOK(pass, world, applied, troubles) /\ pass # Idle
      /\ world' = world /\ pass.item = "none" /\ o \in Doomed
  BY DEF ReadDoomed, Pruning, SetInv, Idle
<1>2. PassOK(pass, world', applied', troubles')
  BY <1>1, PassStays
<1>3. ~pass.got.here
  BY <1>1 DEF PassOK
<1>4. CASE ~world[o].here /\ Pruned(o)
  BY <1>1, <1>3, <1>4, PrunedOK
<1>5. CASE /\ world[o].here /\ ValidatePrune(o)
           /\ pass' = [pass EXCEPT !.item = o, !.got = world[o]]
  <2>1. PICK p \in Passes({"apply", "cleanup"}) : p = pass
    BY <1>1 DEF PassOK
  <2>2. PICK thing \in Thing : thing = world[o]
    BY DEF SetInv
  <2>3. PICK new : new = [p EXCEPT !.item = o, !.got = thing]
    OBVIOUS
  <2>4. /\ new \in Passes({"apply", "cleanup"}) /\ new.pruned = p.pruned
        /\ new.at = p.at /\ new.view = p.view /\ new.items = p.items /\ new.checked = p.checked
        /\ new.item = o /\ new.got = thing
    BY <2>3 DEF Passes
  <2>5. pass' = new
    BY <1>5, <2>1, <2>2, <2>3
  <2>6. o \in Named(p.view.inventory) \ Protected /\ o # "none"
    BY <1>1, <2>1, ObjectsAssumption DEF Doomed
  <2>7. thing.ours /\ thing.uid = p.view.inventory[o]
    BY <1>5, <2>1, <2>2 DEF ValidatePrune
  <2> QED
    BY <1>2, <2>1, <2>4, <2>5, <2>6, <2>7 DEF PassOK
<1>6. \/ ~world[o].here /\ Pruned(o)
      \/ /\ world[o].here /\ ValidatePrune(o)
         /\ pass' = [pass EXCEPT !.item = o, !.got = world[o]]
  BY DEF ReadDoomed, RejectPrune, EndPass
<1> QED
  BY <1>4, <1>5, <1>6

(* What is deleted is forgotten.                                             *)
LEMMA DeleteOK ==
  ASSUME SetInv, WorldMoves, NEW o \in Objects, DeleteDoomed(o), pass' # Idle
  PROVE  PassOK(pass', world', applied', troubles')
<1>1. PassOK(pass, world, applied, troubles) /\ pass # Idle
  BY DEF DeleteDoomed, SetInv, Idle
<1>2. PassOK(pass, world', applied', troubles')
  BY <1>1, PassStays
<1>3. PICK p \in Passes({"apply", "cleanup"}) : p = pass
  BY <1>1 DEF PassOK
<1>4. PICK thing : thing = [p.got EXCEPT !.here = FALSE]
  OBVIOUS
<1>5. thing \in Thing /\ ~thing.here
  BY <1>4 DEF Passes, Thing
<1>6. PICK new : new = [p EXCEPT !.got = thing]
  OBVIOUS
<1>7. /\ new \in Passes({"apply", "cleanup"}) /\ new.pruned = p.pruned
      /\ new.at = p.at /\ new.view = p.view /\ new.items = p.items /\ new.checked = p.checked
      /\ new.item = p.item /\ new.got = thing
  BY <1>5, <1>6 DEF Passes
<1>8. pass' = new
  BY <1>3, <1>4, <1>6 DEF DeleteDoomed, RejectPrune, EndPass
<1> QED
  BY <1>2, <1>3, <1>5, <1>7, <1>8 DEF PassOK

(* So every step leaves a pass that is right, or none.                       *)
LEMMA PassStep ==
  SetInv /\ SetMoves => pass' = Idle \/ PassOK(pass', world', applied', troubles')
<1> SUFFICES ASSUME SetInv, SetMoves, pass' # Idle
             PROVE  PassOK(pass', world', applied', troubles')
  OBVIOUS
<1>1. WorldMoves
  BY WorldStep
<1>2. CASE UNCHANGED pass
  BY <1>1, <1>2, PassStays DEF SetInv
<1>3. CASE BeginApply \/ BeginCleanup
  BY <1>1, <1>3, StartOK DEF BeginApply, BeginCleanup, SetPresent
<1>4. ASSUME NEW o \in Objects, ConfirmPruned(o)
      PROVE  PassOK(pass', world', applied', troubles')
  <2>1. Pruned(o) /\ pass # Idle /\ ~world'[o].here /\ ~pass.got.here
    BY <1>4 DEF ConfirmPruned, RejectPrune, EndPass, Idle
  <2> QED
    BY <1>1, <2>1, PrunedOK
<1>5. CASE AddSetFinalizer \/ BlockMutation \/ FinishApply \/ FinishCleanup
           \/ RejectSpec \/ StopPass \/ CacheSet \/ OwnMoves \/ Elsewhere
  BY <1>2, <1>5 DEF AddSetFinalizer, BlockMutation, FinishApply, FinishCleanup,
     RejectSpec, StopPass, CacheSet, OwnMoves, Elsewhere
<1>6. ASSUME NEW o \in Objects,
             FailToApply(o) \/ BecomeReady(o) \/ Vanish(o) \/ Disturb(o)
      PROVE  PassOK(pass', world', applied', troubles')
  BY <1>2, <1>6 DEF FailToApply, EndPass, BecomeReady, Vanish, Disturb, Becomes
<1> QED
  BY <1>1, <1>2, <1>3, <1>4, <1>5, <1>6, ApplyOK, CheckOK, ReadOK, DeleteOK
     DEF SetMoves, ReconcileSet, SetFaults, Cluster

(* The invariant is kept by every step.                                      *)
LEMMA SetInvStep ==
  SetInv /\ SetMoves => SetInv'
BY WorldStep, SetStep, ViewStep, PassStep DEF SetInv, WorldMoves

-----------------------------------------------------------------------------
(* What steps may not do                                                     *)

(* An object is deleted only by a pass that has read it as the set's own.    *)
LEMMA PruneStep ==
  ASSUME SetInv, SetMoves, NEW o \in Objects, Deletes(o)
  PROVE  <<o, world[o].uid>> \in applied /\ world[o].ours /\ o \notin Protected
<1>0. /\ world \in [Objects -> Thing] /\ troubles' = troubles /\ troubles + 1 # troubles
      /\ world[o].here /\ ~world[o].ending /\ (world'[o].ending \/ ~world'[o].here)
  BY Troubles DEF SetInv, Deletes
<1>1. world'[o] # world[o]
  BY <1>0
<1>2. ASSUME NEW q \in Objects, NEW new, world' = [world EXCEPT ![q] = new]
      PROVE  q = o /\ world'[o] = new
  BY <1>0, <1>1, <1>2
<1>3. ASSUME NEW q \in Objects, ApplyObject(q) PROVE FALSE
  <2>1. PICK new : new = AppliedThing(q)
    OBVIOUS
  <2>2. q = o /\ world'[o] = new
    BY <1>2, <1>3, <2>1 DEF ApplyObject, Touch
  <2>3. new.here /\ (new.ending => world[o].ending)
    BY <1>0, <2>1, <2>2, AppliedIs
  <2> QED
    BY <1>0, <2>2, <2>3
<1>4. ASSUME NEW q \in Objects, FailToApply(q) \/ Disturb(q) PROVE FALSE
  BY <1>0, <1>4 DEF FailToApply, Disturb
<1>5. ASSUME NEW q \in Objects, BecomeReady(q) \/ Vanish(q) PROVE FALSE
  <2>1. PICK old \in Thing : old = world[q]
    BY <1>0
  <2>2. CASE BecomeReady(q)
    <3>1. PICK new : new = [old EXCEPT !.ready = TRUE]
      OBVIOUS
    <3>2. new.here = old.here /\ new.ending = old.ending
      BY <3>1 DEF Thing
    <3>3. q = o /\ world'[o] = new
      BY <1>2, <2>1, <2>2, <3>1 DEF BecomeReady, Becomes
    <3> QED
      BY <1>0, <2>1, <3>2, <3>3
  <2>3. CASE Vanish(q)
    <3>1. q = o
      BY <1>2, <2>3 DEF Vanish, Becomes
    <3> QED
      BY <1>0, <2>3, <3>1 DEF Vanish
  <2> QED
    BY <1>5, <2>2, <2>3
<1>6. ASSUME NEW q \in Objects, DeleteDoomed(q)
      PROVE  <<o, world[o].uid>> \in applied /\ world[o].ours /\ o \notin Protected
  <2>1. q = o /\ Precondition(o)
    BY <1>1, <1>2, <1>6 DEF DeleteDoomed
  <2>2. /\ PassOK(pass, world, applied, troubles)
        /\ pass.got.here /\ pass.item = o /\ world[o] = pass.got
    BY <1>6, <2>1 DEF DeleteDoomed, Precondition, SetInv, Idle
  <2>3. /\ o \in Named(pass.view.inventory) \ Protected
        /\ world[o].ours /\ world[o].uid = pass.view.inventory[o]
    BY <2>2 DEF PassOK
  <2> QED
    BY <2>2, <2>3 DEF PassOK, RecordOK
<1>7. CASE UNCHANGED world
  BY <1>1, <1>7
<1>8. ReconcileSet => \/ UNCHANGED world
                      \/ \E q \in Objects : ApplyObject(q) \/ DeleteDoomed(q)
  BY DEF ReconcileSet, AddSetFinalizer, BlockMutation, BeginApply, BeginCleanup, Start,
     FinishApply, FinishCleanup, CheckObject, ReadDoomed, ConfirmPruned
<1>9. RejectSpec \/ StopPass \/ CacheSet \/ OwnMoves \/ Elsewhere => UNCHANGED world
  BY DEF RejectSpec, StopPass, CacheSet, OwnMoves, Elsewhere
<1> QED
  BY <1>3, <1>4, <1>5, <1>6, <1>7, <1>8, <1>9 DEF SetMoves, SetFaults, Cluster

(* An inventory loses only what is gone, or was replaced.                    *)
LEMMA OrphanStep ==
  ASSUME SetInv, SetMoves, NEW o \in Named(set.inventory) \ Protected, set.exists,
         ~set'.exists \/ set'.inventory[o] # set.inventory[o]
  PROVE  ~world[o].here \/ world[o].uid # set.inventory[o]
<1>1. o \in Objects /\ set \in SetRecord /\ world \in [Objects -> Thing]
  BY DEF Named, SetInv, RecordOK
<1>2. CASE UNCHANGED set
  BY <1>2
<1>3. ASSUME NEW reason \in SetReasons, set' = SetStatus(set, reason) PROVE FALSE
  BY <1>1, <1>3, StatusIs
<1>4. CASE set' = [set EXCEPT !.finalizer = TRUE]
  BY <1>1, <1>4 DEF SetRecord
<1>5. CASE FinishApply /\ set = pass.view
  <2>1. /\ PassOK(pass, world, applied, troubles)
        /\ pass.items \in Inventory /\ Doomed = {}
    BY <1>5 DEF FinishApply, PruneDone, Pruning, SetInv, Idle, PassOK, Passes
  <2>2. /\ set'.exists = set.exists /\ set'.inventory = pass.items
    BY <1>1, <1>5, <2>1, FinishIs
  <2>3. o \in pass.pruned \/ o \in pass.view.resources
    BY <1>5, <2>1 DEF Doomed
  <2>4. /\ world[o].uid \in Nat /\ set.inventory[o] \in Nat /\ pass.items[o] \in Nat
    BY <1>1, <2>1 DEF Thing, SetRecord, Inventory
  <2>5. CASE o \in pass.pruned
    <3>1. world[o].here => set.inventory[o] < world[o].uid
      BY <1>5, <2>1, <2>5 DEF PassOK
    <3> QED
      BY <2>4, <3>1
  <2>6. CASE o \in pass.view.resources
    <3>1. o \in Named(pass.items)
      BY <1>1, <1>5, <2>6 DEF FinishApply, PruneDone, Pruning, AllApplied, WaveDone, Named
    <3>2. set.inventory[o] <= pass.items[o] /\ pass.items[o] <= world[o].uid
      BY <1>5, <2>1, <3>1 DEF PassOK
    <3>3. pass.items[o] # set.inventory[o]
      BY <2>2
    <3> QED
      BY <2>4, <3>2, <3>3
  <2> QED
    BY <2>3, <2>5, <2>6
<1>6. CASE FinishCleanup /\ set = pass.view
  <2>1. PassOK(pass, world, applied, troubles) /\ Doomed = {}
    BY <1>6 DEF FinishCleanup, PruneDone, Pruning, SetInv, Idle
  <2>2. o \in pass.pruned
    BY <1>6, <2>1 DEF FinishCleanup, Doomed
  <2>3. world[o].here => set.inventory[o] < world[o].uid
    BY <1>6, <2>1, <2>2 DEF PassOK
  <2>4. /\ world[o].uid \in Nat /\ set.inventory[o] \in Nat
    BY <1>1 DEF Thing, SetRecord, Inventory
  <2> QED
    BY <2>3, <2>4
<1>7. CASE OwnMoves
  BY <1>7 DEF OwnMoves, SetInv, RecordOK
<1> QED
  BY <1>2, <1>3, <1>4, <1>5, <1>6, <1>7, SetChanges DEF SetChange, WorkChange

(* While nobody disturbs anything, an object is created only by a pass that  *)
(* has found the earlier waves ready.                                        *)
LEMMA WaveStep ==
  ASSUME SetInv, SetMoves, NEW o \in Objects, world'[o].uid # world[o].uid,
         troubles' = 0, NEW p \in pass.view.resources \cap RequireReady,
         Wave[p] < Wave[o]
  PROVE  world[p].ready /\ world[p].uid = pass.items[p]
<1>0. WorldMoves /\ world \in [Objects -> Thing] /\ troubles = 0
  <2>1. /\ WorldMoves /\ world \in [Objects -> Thing]
        /\ troubles \in 0..MaxFaults /\ troubles <= troubles'
    BY WorldStep DEF SetInv, WorldMoves
  <2> QED
    BY <2>1
<1>1. ASSUME NEW q \in Objects, NEW new, world' = [world EXCEPT ![q] = new] PROVE q = o
  BY <1>0, <1>1
<1>2. ASSUME NEW q \in Objects, ApplyObject(q)
      PROVE  world[p].ready /\ world[p].uid = pass.items[p]
  <2>1. q = o
    BY <1>1, <1>2 DEF ApplyObject, Touch
  <2>2. PassOK(pass, world, applied, troubles)
    BY <1>2 DEF ApplyObject, Applying, SetInv, Idle
  <2>3. p \in pass.checked
    BY <1>2, <2>1 DEF ApplyObject, Turn, WaveDone
  <2> QED
    BY <1>0, <2>2, <2>3 DEF PassOK
<1>3. ASSUME NEW q \in Objects, FailToApply(q) \/ Disturb(q) PROVE FALSE
  BY <1>0, <1>3 DEF FailToApply, Disturb
<1>4. ASSUME NEW q \in Objects, BecomeReady(q) \/ Vanish(q) \/ DeleteDoomed(q) PROVE FALSE
  <2>1. PICK old \in Thing : old = world[q]
    BY <1>0
  <2>2. /\ [old EXCEPT !.ready = TRUE].uid = old.uid
        /\ [old EXCEPT !.here = FALSE, !.ending = FALSE].uid = old.uid
        /\ [old EXCEPT !.ending = TRUE].uid = old.uid
    BY DEF Thing
  <2>3. PICK new : new.uid = old.uid /\ (world' = [world EXCEPT ![q] = new] \/ world' = world)
    BY <1>4, <2>1, <2>2 DEF BecomeReady, Vanish, Becomes, DeleteDoomed, Deleted
  <2> QED
    BY <1>0, <1>1, <2>1, <2>3
<1>5. ReconcileSet => \/ UNCHANGED world
                      \/ \E q \in Objects : ApplyObject(q) \/ DeleteDoomed(q)
  BY DEF ReconcileSet, AddSetFinalizer, BlockMutation, BeginApply, BeginCleanup, Start,
     FinishApply, FinishCleanup, CheckObject, ReadDoomed, ConfirmPruned
<1>6. RejectSpec \/ StopPass \/ CacheSet \/ OwnMoves \/ Elsewhere => UNCHANGED world
  BY DEF RejectSpec, StopPass, CacheSet, OwnMoves, Elsewhere
<1> QED
  BY <1>2, <1>3, <1>4, <1>5, <1>6 DEF SetMoves, SetFaults, Cluster

-----------------------------------------------------------------------------
(* The set with an owner that writes any spec                                *)

(* A spec that is written is a new generation.                               *)
LEMMA WriteMoves ==
  ASSUME SetInv, NEW resources \in Versions, NEW open \in BOOLEAN,
         WriteSetSpec(resources, open)
  PROVE  OwnMoves
<1>1. PICK old \in SetRecord : old = set
  BY DEF SetInv, RecordOK
<1>2. PICK gen \in Nat : gen = old.gen + 1
  <2>1. old.gen \in Nat
    BY DEF SetRecord
  <2> QED
    BY <2>1
<1>3. PICK new : new = [old EXCEPT !.resources = resources, !.open = open, !.gen = gen]
  OBVIOUS
<1>4. /\ new \in SetRecord /\ new.gen = gen /\ new.inventory = old.inventory
      /\ new.observed = old.observed /\ new.finalizer = old.finalizer
      /\ new.exists = old.exists
  BY <1>3 DEF SetRecord
<1> QED
  BY <1>1, <1>2, <1>3, <1>4 DEF WriteSetSpec, OwnSet, OwnMoves

(* So is a deletion.                                                         *)
LEMMA DeleteMoves ==
  ASSUME SetInv, DeleteSet
  PROVE  OwnMoves
<1>1. PICK old \in SetRecord : old = set
  BY DEF SetInv, RecordOK
<1>2. PICK gen \in Nat : gen = old.gen + 1
  <2>1. old.gen \in Nat
    BY DEF SetRecord
  <2> QED
    BY <2>1
<1>3. PICK new : new = [old EXCEPT !.deleting = TRUE, !.exists = old.finalizer, !.gen = gen]
  OBVIOUS
<1>4. /\ new \in SetRecord /\ new.gen = gen /\ new.inventory = old.inventory
      /\ new.observed = old.observed /\ new.finalizer = old.finalizer
      /\ new.exists = old.finalizer /\ new.deleting
  BY <1>3 DEF SetRecord
<1> QED
  BY <1>1, <1>2, <1>3, <1>4 DEF DeleteSet, OwnSet, OwnMoves

(* A new set has recorded nothing.                                           *)
LEMMA NewSetOK ==
  ASSUME NEW resources \in Versions, NEW w \in [Objects -> Thing], NEW done,
         NEW new, new = NewSet(resources)
  PROVE  /\ RecordOK(new, w, done) /\ new.exists /\ new.inventory = Nothing
         /\ new.observed = 0 /\ new.reason = "" /\ new.gen = 1
<1>1. /\ new \in SetRecord /\ new.exists /\ new.inventory = Nothing
      /\ new.observed = 0 /\ new.reason = "" /\ new.gen = 1
  BY DEF NewSet, SetRecord, Nothing, Inventory, SetReasons
<1>2. Named(Nothing) = {} /\ \A o \in Objects : Nothing[o] = 0
  BY DEF Named, Nothing
<1>3. \A o \in Objects : 0 <= w[o].uid
  BY DEF Thing
<1>4. \A o \in Objects : new.inventory[o] <= w[o].uid
  BY <1>1, <1>2, <1>3
<1>5. Named(new.inventory) = {}
  BY <1>1, <1>2
<1>6. new.observed <= new.gen
  <2>1. 0 <= 1
    OBVIOUS
  <2> QED
    BY <1>1, <2>1
<1> QED
  BY <1>1, <1>4, <1>5, <1>6 DEF RecordOK

(* At first nothing has been applied.                                        *)
LEMMA SetInitInv ==
  ASSUME NEW resources \in Versions, NEW record, SetInit(record),
         record \in {NewSet(resources), [NewSet(resources) EXCEPT !.exists = FALSE]}
  PROVE  SetInv /\ edits = 0
<1>1. world \in [Objects -> Thing]
  BY DEF SetInit, Thing
<1>2. PICK new : new = NewSet(resources)
  OBVIOUS
<1>3. /\ RecordOK(new, world, applied) /\ new.reason = "" /\ new.inventory = Nothing
  BY <1>1, <1>2, NewSetOK
<1>4. PICK gone : gone = [new EXCEPT !.exists = FALSE]
  OBVIOUS
<1>5. /\ gone \in SetRecord /\ gone.reason = "" /\ gone.inventory = new.inventory
      /\ gone.observed = new.observed /\ gone.gen = new.gen /\ ~gone.exists
  BY <1>3, <1>4 DEF RecordOK, SetRecord
<1>6. RecordOK(gone, world, applied)
  BY <1>3, <1>5 DEF RecordOK
<1>7. (set = new \/ set = gone) /\ setView = set
  BY <1>2, <1>4 DEF SetInit
<1>8. ReadyIsRecorded
  BY <1>3, <1>5, <1>7 DEF ReadyIsRecorded
<1> QED
  BY <1>1, <1>3, <1>6, <1>7, <1>8, Bounds DEF SetInit, SetInv

(* The steps of the specification are such steps.                            *)
LEMMA SpecMoves ==
  SetInv /\ edits \in 0..MaxEdits /\ [SetNext]_setVars
    => SetMoves /\ edits' \in 0..MaxEdits
<1> SUFFICES ASSUME SetInv, edits \in 0..MaxEdits, [SetNext]_setVars
             PROVE  SetMoves /\ edits' \in 0..MaxEdits
  OBVIOUS
<1>1. CASE SetOwner
  <2>1. OwnMoves
    BY <1>1, WriteMoves, DeleteMoves DEF SetOwner
  <2>2. edits < MaxEdits /\ edits' = edits + 1
    BY <1>1 DEF SetOwner
  <2> QED
    BY <2>1, <2>2, Bounds DEF SetMoves
<1>2. CASE ReconcileSet \/ SetFaults \/ Cluster
  BY <1>2 DEF SetMoves, ReconcileSet, SetFaults, Cluster, AddSetFinalizer, BlockMutation,
     BeginApply, BeginCleanup, Start, FinishApply, FinishCleanup, ApplyObject,
     CheckObject, ReadDoomed, DeleteDoomed, ConfirmPruned, RejectSpec, StopPass,
     FailToApply, BecomeReady, Vanish, Disturb, Becomes, CacheSet, boundVars
<1>3. CASE UNCHANGED setVars
  BY <1>3, Troubles DEF setVars, boundVars, SetMoves, Elsewhere, SetInv
<1> QED
  BY <1>1, <1>2, <1>3 DEF SetNext

(* What every state satisfies.                                               *)
THEOREM SetInvariant == SetSpec => [](SetInv /\ edits \in 0..MaxEdits)
<1>1. ASSUME NEW resources \in Versions, SetInit(NewSet(resources))
      PROVE  SetInv /\ edits \in 0..MaxEdits
  BY <1>1, SetInitInv, Bounds
<1>2. (\E resources \in Versions : SetInit(NewSet(resources)))
        => SetInv /\ edits \in 0..MaxEdits
  BY <1>1
<1>3. SetInv /\ edits \in 0..MaxEdits /\ [SetNext]_setVars
        => (SetInv /\ edits \in 0..MaxEdits)'
  BY SpecMoves, SetInvStep
<1> QED
  BY <1>2, <1>3, PTL DEF SetSpec

(* The types are kept, what is recorded has existed, and what a pass is      *)
(* pruning it has read from the inventory and is free to prune.              *)
THEOREM SetTypeCorrect == SetSpec => []SetTypeOK
<1>1. SetInv /\ edits \in 0..MaxEdits => SetTypeOK
  BY DEF SetInv, RecordOK, PassOK, SetTypeOK
<1> QED
  BY <1>1, SetInvariant, PTL

(* A set that is reported ready has recorded what its spec names.            *)
THEOREM ReadyRecorded == SetSpec => []ReadyIsRecorded
<1>1. SetInv => ReadyIsRecorded
  BY DEF SetInv
<1> QED
  BY <1>1, SetInvariant, PTL

(* Pruning takes only what the set has applied.                              *)
THEOREM PrunesOwn == SetSpec => PrunesOnlyItsOwn
<1> DEFINE Own ==
      \A o \in Objects :
        Deletes(o) =>
          /\ <<o, world[o].uid>> \in applied /\ world[o].ours
          /\ o \notin Protected
<1>1. SetInv /\ edits \in 0..MaxEdits /\ [SetNext]_setVars => [Own]_setVars
  BY SpecMoves, PruneStep
<1> QED
  BY <1>1, SetInvariant, PTL DEF SetSpec, PrunesOnlyItsOwn

(* Nothing that is recorded is left behind.                                  *)
THEOREM NothingOrphaned == SetSpec => RecordedNotOrphaned
<1> DEFINE Found ==
      \A o \in Named(set.inventory) \ Protected :
        set.exists /\ (~set'.exists \/ set'.inventory[o] # set.inventory[o]) =>
          \/ ~world[o].here
          \/ world[o].uid # set.inventory[o]
<1>1. SetInv /\ edits \in 0..MaxEdits /\ [SetNext]_setVars => [Found]_setVars
  BY SpecMoves, OrphanStep
<1> QED
  BY <1>1, SetInvariant, PTL DEF SetSpec, RecordedNotOrphaned

(* The waves come in their order.                                            *)
THEOREM WavesOrdered == SetSpec => WavesInOrder
<1> DEFINE Ordered ==
      \A o \in Objects :
        world'[o].uid # world[o].uid /\ troubles' = 0 =>
          \A p \in pass.view.resources \cap RequireReady :
            Wave[p] < Wave[o] =>
              world[p].ready /\ world[p].uid = pass.items[p]
<1>1. SetInv /\ edits \in 0..MaxEdits /\ [SetNext]_setVars => [Ordered]_setVars
  BY SpecMoves, WaveStep
<1> QED
  BY <1>1, SetInvariant, PTL DEF SetSpec, WavesInOrder
=============================================================================
