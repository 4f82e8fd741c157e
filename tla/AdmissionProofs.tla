---------------------------- MODULE AdmissionProofs ----------------------------
(***************************************************************************)
(* Proofs about Admission, for any environments, quota and number of       *)
(* changes: the types, that a class stays while environments that were     *)
(* known to use it do, that the console acts on what its page showed, and  *)
(* that the quota holds when no two environments are created in the same   *)
(* second.                                                                 *)
(***************************************************************************)
EXTENDS Admission, FiniteSetTheorems, WellFoundedInduction, TLAPS

TypeInv ==
  /\ class \in Class /\ classView \in Class
  /\ envs \in [Names -> Env] /\ envsView \in [Names -> Env]
  /\ stacks \in [Names -> Uids] /\ due \in BOOLEAN
  /\ request \in Requests /\ users \subseteq Names \X Uids \X Nat
  /\ clock \in Clock /\ ops \in 0..MaxOps

(* Identities and seconds are counted by what users and the console do.      *)
BoundInv ==
  /\ class.uid <= ops + 1 /\ clock <= ops
  /\ \A n \in Names : /\ envs[n].uid <= ops /\ envs[n].born <= clock
                      /\ stacks[n] <= envs[n].uid
                      /\ envs[n].exists => envs[n].uid > 0

(* What may become of one environment: its name is not reused before it is   *)
(* gone, and most of what is said of it is said for good.                    *)
Changed(old, new) ==
  /\ new.uid = old.uid /\ new.born = old.born /\ old.gen <= new.gen
  /\ new.exists => old.exists
  /\ old.deleting => new.deleting
  /\ old.finalizer /\ new.exists => new.finalizer
  /\ new.since = old.since \/ new.since = 0 \/ old.gen < new.since
  /\ new.sound => old.sound /\ (old.adopted = "own" => new.adopted = "own")

(* What may become of a name.                                                *)
Later(old, new) == old.uid < new.uid \/ Changed(old, new)

(* Since when the class is named goes with the spec.  An environment that was *)
(* of Class Mode from the start still is, and is not rejected for another    *)
(* reason than those that leave it in the queue.                             *)
Sane(e) ==
  /\ e.spec \in Using <=> e.since > 0
  /\ e.since <= e.gen
  /\ e.sound => e.spec \in ClassMode
  /\ e.sound /\ ~e.deleting =>
       /\ e.adopted # "legacy"
       /\ e.reason \in {"", "ClassNotFound", "ClassRejected", "QuotaRejected", "Started"}

(* What a cache shows is what was.                                           *)
ViewInv ==
  \A n \in Names : /\ Later(envsView[n], envs[n])
                   /\ Sane(envs[n]) /\ Sane(envsView[n])

-----------------------------------------------------------------------------
(* What steps do to the environments                                         *)

(* A new environment.                                                        *)
Fresh(n, new) ==
  /\ ~envs[n].exists /\ new.exists /\ new.uid = envs[n].uid + 1
  /\ new.born = clock /\ ~new.deleting /\ new.adopted = "none" /\ new.reason = ""
  /\ Sane(new)
  /\ ops < MaxOps /\ ops' = ops + 1
  /\ clock' \in {clock, clock + 1} /\ (~SharedSeconds => clock' = clock + 1)

(* One that is changed.                                                      *)
Edited(n, new) ==
  /\ Changed(envs[n], new) /\ clock' = clock
  /\ Sane(envs[n]) => Sane(new)
  /\ new.adopted = "own" => envs[n].adopted = "own" \/ stacks[n] = new.uid
  /\ new.reason = "Started" /\ new.sound =>
       envs[n].reason = "Started" \/ stacks[n] = new.uid \/ MeetConflict(n)

EnvsMove ==
  \/ UNCHANGED <<envs, clock>>
  \/ \E n \in Names : \E new \in Env :
       envs' = [envs EXCEPT ![n] = new] /\ (Fresh(n, new) \/ Edited(n, new))

(* Identities, generations and seconds are numbers.                          *)
LEMMA Numbers ==
  /\ MaxOps \in Nat /\ MaxEnvironments \in Nat
  /\ Uids \subseteq Nat /\ Clock \subseteq Nat
BY AdmissionAssumption DEF Uids, Clock

(* So are those of an environment.                                          *)
LEMMA EnvNumbers ==
  ASSUME NEW e \in Env
  PROVE  /\ e.uid \in Nat /\ e.gen \in Nat /\ e.born \in Nat /\ e.since \in Nat
         /\ e.gen <= e.gen
         /\ e.exists \in BOOLEAN /\ e.deleting \in BOOLEAN /\ e.finalizer \in BOOLEAN
         /\ e.sound \in BOOLEAN
<1>1. /\ e.uid \in Uids /\ e.gen \in Nat /\ e.born \in Clock /\ e.since \in Nat
      /\ e.exists \in BOOLEAN /\ e.deleting \in BOOLEAN /\ e.finalizer \in BOOLEAN
      /\ e.sound \in BOOLEAN
  BY DEF Env
<1>2. e.uid \in Nat /\ e.gen \in Nat /\ e.born \in Nat
  BY <1>1, Numbers
<1> QED
  BY <1>1, <1>2

(* An environment is later than itself, and what is later stays later.       *)
LEMMA LaterReflexive ==
  ASSUME NEW e \in Env PROVE Later(e, e)
BY EnvNumbers DEF Later, Changed

(* What is later than the later is later.                                   *)
LEMMA LaterTransitive ==
  ASSUME NEW a \in Env, NEW b \in Env, NEW c \in Env, Later(a, b), Later(b, c)
  PROVE  Later(a, c)
<1>1. /\ a.uid \in Nat /\ b.uid \in Nat /\ c.uid \in Nat
      /\ a.gen \in Nat /\ b.gen \in Nat /\ c.gen \in Nat
      /\ a.since \in Nat /\ b.since \in Nat /\ c.since \in Nat
  BY EnvNumbers
<1>2. CASE a.uid < b.uid \/ b.uid < c.uid
  BY <1>1, <1>2 DEF Later, Changed
<1>3. CASE Changed(a, b) /\ Changed(b, c)
  <2>1. c.since = a.since \/ c.since = 0 \/ a.gen < c.since
    BY <1>1, <1>3 DEF Changed
  <2>2. a.gen <= c.gen
    BY <1>1, <1>3 DEF Changed
  <2> QED
    BY <1>3, <2>1, <2>2 DEF Later, Changed
<1> QED
  BY <1>2, <1>3 DEF Later

(* What writing a spec changes.                                              *)
LEMMA WrittenFacts ==
  ASSUME NEW e \in Env, NEW spec \in Specs, NEW new, new = Written(e, spec)
  PROVE  /\ new \in Env /\ new.exists = e.exists /\ new.uid = e.uid
         /\ new.gen = e.gen + 1 /\ new.deleting = e.deleting
         /\ new.finalizer = e.finalizer /\ new.spec = spec /\ new.born = e.born
         /\ new.adopted = e.adopted /\ new.reason = e.reason
         /\ new.sound <=> e.sound /\ spec \in ClassMode
         /\ spec \notin Using => new.since = 0
         /\ spec \in Using /\ e.since > 0 => new.since = e.since
         /\ spec \in Using /\ ~(e.since > 0) => new.since = e.gen + 1
<1>1. PICK gen : gen = e.gen + 1
  OBVIOUS
<1>2. PICK since : since = IF spec \notin Using THEN 0
                           ELSE IF e.since > 0 THEN e.since ELSE e.gen + 1
  OBVIOUS
<1>3. PICK sound \in BOOLEAN : sound <=> e.sound /\ spec \in ClassMode
  OBVIOUS
<1>4. gen \in Nat /\ since \in Nat
  <2>1. e.gen \in Nat /\ e.since \in Nat
    BY EnvNumbers
  <2> QED
    BY <1>1, <1>2, <2>1
<1>6. sound = (e.sound /\ spec \in ClassMode)
  BY <1>3, EnvNumbers
<1>7. new = [e EXCEPT !.spec = spec, !.gen = gen, !.since = since, !.sound = sound]
  BY <1>1, <1>2, <1>6 DEF Written, Env
<1>8. /\ new \in Env /\ new.exists = e.exists /\ new.uid = e.uid
      /\ new.gen = gen /\ new.deleting = e.deleting
      /\ new.finalizer = e.finalizer /\ new.spec = spec /\ new.born = e.born
      /\ new.adopted = e.adopted /\ new.reason = e.reason
      /\ new.sound = sound /\ new.since = since
  BY <1>4, <1>7 DEF Env
<1> QED
  BY <1>1, <1>2, <1>3, <1>8

(* There is an environment to begin with.                                    *)
LEMMA NoEnvIsEnv ==
  NoEnv \in Env
<1>1. 0 \in Uids /\ 0 \in Clock
  BY Numbers DEF Uids, Clock
<1> QED
  BY <1>1 DEF NoEnv, Env, Specs

(* The environment a user creates is new.                                    *)
LEMMA NewEnvFresh ==
  ASSUME TypeInv, BoundInv, NEW n \in Names, ~envs[n].exists, Operate,
         NEW spec \in Specs, Created(n, NewEnv(n, spec))
  PROVE  EnvsMove
<1>1. PICK blank : blank = [NoEnv EXCEPT !.sound = TRUE]
  OBVIOUS
<1>2. /\ blank \in Env /\ blank.gen = 0 /\ blank.since = 0 /\ blank.sound
      /\ ~blank.deleting /\ blank.adopted = "none" /\ blank.reason = ""
  <2>1. /\ NoEnv.gen = 0 /\ NoEnv.since = 0 /\ ~NoEnv.deleting
        /\ NoEnv.adopted = "none" /\ NoEnv.reason = ""
    BY DEF NoEnv
  <2> QED
    BY <1>1, <2>1, NoEnvIsEnv DEF Env
<1>3. PICK base : base = Written(blank, spec)
  OBVIOUS
<1>4. /\ base \in Env /\ base.gen = 1 /\ base.spec = spec /\ ~base.deleting
      /\ base.adopted = "none" /\ base.reason = ""
      /\ base.sound <=> spec \in ClassMode
      /\ spec \notin Using => base.since = 0
      /\ spec \in Using => base.since = 1
  <2>1. /\ base \in Env /\ base.gen = blank.gen + 1 /\ base.spec = spec
        /\ base.deleting = blank.deleting /\ base.adopted = blank.adopted
        /\ base.reason = blank.reason
        /\ base.sound <=> (blank.sound /\ spec \in ClassMode)
        /\ spec \notin Using => base.since = 0
        /\ spec \in Using /\ ~(blank.since > 0) => base.since = blank.gen + 1
    <3>1. blank \in Env
      BY <1>2
    <3> HIDE <1>2
    <3> QED
      BY <1>3, <3>1, WrittenFacts
  <2>2. ~(blank.since > 0) /\ blank.gen + 1 = 1
    <3>1. blank.since = 0 /\ blank.gen = 0
      BY <1>2
    <3> QED
      BY <3>1
  <2> QED
    BY <1>2, <2>1, <2>2
<1>5. PICK new : new = NewEnv(n, spec)
  OBVIOUS
<1>6. envs[n].uid + 1 \in Uids /\ clock \in Clock
  <2>1. /\ envs[n].uid \in Nat /\ envs[n].uid <= ops /\ ops < MaxOps
        /\ ops \in 0..MaxOps /\ clock \in Clock
    BY EnvNumbers DEF TypeInv, BoundInv, Operate
  <2> QED
    BY <2>1, Numbers DEF Uids
<1>7. new = [base EXCEPT !.exists = TRUE, !.uid = envs[n].uid + 1, !.born = clock]
  BY <1>1, <1>3, <1>5 DEF NewEnv
<1>8. /\ new \in Env /\ new.exists /\ new.uid = envs[n].uid + 1 /\ new.born = clock
      /\ new.gen = base.gen /\ new.spec = base.spec /\ new.since = base.since
      /\ new.sound = base.sound /\ new.deleting = base.deleting
      /\ new.adopted = base.adopted /\ new.reason = base.reason
  BY <1>4, <1>6, <1>7 DEF Env
<1>9. Sane(new)
  <2>1. /\ new.spec = spec /\ new.gen = 1
        /\ new.sound <=> spec \in ClassMode
        /\ new.adopted = "none" /\ new.reason = ""
    BY <1>4, <1>8
  <2>2. /\ spec \in Using => new.since = 1
        /\ spec \notin Using => new.since = 0
    BY <1>4, <1>8
  <2>3. new.spec \in Using <=> new.since > 0
    <3>1. 1 > 0 /\ ~(0 > 0)
      OBVIOUS
    <3>2. new.spec = spec
      BY <2>1
    <3> QED
      BY <2>2, <3>1, <3>2
  <2>4. new.since <= new.gen
    <3>1. new.gen = 1 /\ (new.since = 0 \/ new.since = 1)
      BY <2>1, <2>2
    <3> QED
      BY <3>1
  <2> QED
    BY <2>1, <2>3, <2>4 DEF Sane
<1>10. /\ envs' = [envs EXCEPT ![n] = new]
       /\ clock' \in {clock, clock + 1} /\ (~SharedSeconds => clock' = clock + 1)
  BY <1>5 DEF Created
<1>11. Fresh(n, new)
  BY <1>4, <1>8, <1>9, <1>10 DEF Fresh, Operate
<1> QED
  BY <1>8, <1>10, <1>11 DEF EnvsMove

(* An update of an environment by its controller writes what it read, with   *)
(* a change.                                                                 *)
LEMMA UpdateMoves ==
  ASSUME TypeInv, NEW n \in Names, NEW new \in Env, UpdateEnvOf(n, new),
         envs[n] = envsView[n] => Edited(n, new)
  PROVE  EnvsMove
<1>1. clock' = clock
  BY DEF UpdateEnvOf
<1>2. CASE envs[n] = envsView[n]
  <2>1. envs' = [envs EXCEPT ![n] = new]
    BY <1>2 DEF UpdateEnvOf
  <2> QED
    BY <1>2, <2>1 DEF EnvsMove
<1>3. CASE envs[n] # envsView[n]
  BY <1>1, <1>3 DEF UpdateEnvOf, TypeInv, EnvsMove
<1> QED
  BY <1>2, <1>3

(* What the controller does not write.                                       *)
SameBut(view, new) ==
  /\ new \in Env /\ new.uid = view.uid /\ new.born = view.born
  /\ new.gen = view.gen /\ new.deleting = view.deleting
  /\ new.spec = view.spec /\ new.since = view.since /\ new.sound = view.sound

(* A change of the rest is one that may be.                                  *)
LEMMA SameButChanged ==
  ASSUME NEW view \in Env, NEW new, SameBut(view, new), new.exists => view.exists,
         view.finalizer /\ new.exists => new.finalizer,
         view.adopted = "own" /\ view.sound => new.adopted = "own"
  PROVE  Changed(view, new)
BY EnvNumbers DEF SameBut, Changed

(* Each step of the controller of environments is such a change.             *)
LEMMA ControllerMoves ==
  ASSUME TypeInv, ViewInv, NEW n \in Names, EnvController(n)
  PROVE  EnvsMove
<1>0. PICK view \in Env : view = envsView[n]
  BY DEF TypeInv
<1>1. ASSUME NEW reason \in {"", "InvalidSpec", "ClassNotFound", "ClassRejected",
                             "QuotaRejected", "Started", "Deleting"},
             Reports(n, reason),
             \/ reason \in {"", "ClassNotFound", "ClassRejected", "QuotaRejected"}
             \/ reason = "Started" /\ MeetConflict(n)
             \/ reason # "Started" /\ (view.spec \notin ClassMode \/ view.deleting)
      PROVE  EnvsMove
  <2>1. PICK new : new = [view EXCEPT !.reason = reason]
    OBVIOUS
  <2>2. /\ SameBut(view, new) /\ new.exists = view.exists
        /\ new.finalizer = view.finalizer /\ new.adopted = view.adopted
        /\ new.reason = reason
    BY <2>1 DEF Env, SameBut
  <2>3. Changed(view, new)
    BY <2>2, SameButChanged
  <2>4. Sane(view) => Sane(new)
    BY <1>1, <2>2 DEF Sane, SameBut
  <2>5. ASSUME envs[n] = view PROVE Edited(n, new)
    BY <1>1, <2>2, <2>3, <2>4, <2>5 DEF Edited, Reports, UpdateEnvOf
  <2> QED
    BY <1>0, <1>1, <2>1, <2>2, <2>5, UpdateMoves DEF Reports, SameBut
<1>2. CASE ProtectEnv(n)
  <2>1. PICK new : new = [view EXCEPT !.finalizer = TRUE]
    OBVIOUS
  <2>2. /\ SameBut(view, new) /\ new.exists = view.exists
        /\ new.finalizer /\ new.adopted = view.adopted /\ new.reason = view.reason
    BY <2>1 DEF Env, SameBut
  <2>3. Changed(view, new)
    BY <2>2, SameButChanged
  <2>4. Sane(view) => Sane(new)
    BY <2>2 DEF Sane, SameBut
  <2>5. ASSUME envs[n] = view PROVE Edited(n, new)
    BY <1>2, <2>2, <2>3, <2>4, <2>5 DEF Edited, ProtectEnv, UpdateEnvOf
  <2> QED
    BY <1>0, <1>2, <2>1, <2>2, <2>5, UpdateMoves DEF ProtectEnv, SameBut
<1>3. CASE RejectMode(n)
  BY <1>0, <1>1, <1>3 DEF RejectMode, ClassMode
<1>4. CASE MissClass(n)
  BY <1>1, <1>4 DEF MissClass
<1>5. CASE RejectByClass(n)
  BY <1>1, <1>5 DEF RejectByClass
<1>6. CASE RejectByQuota(n)
  BY <1>1, <1>6 DEF RejectByQuota
<1>7. CASE Admit(n)
  BY <1>7 DEF Admit, EnvsMove
<1>8. CASE RecordAdmission(n)
  <2>1. PICK new : new = [view EXCEPT !.adopted = "own", !.reason = "Started"]
    OBVIOUS
  <2>2. /\ SameBut(view, new) /\ new.exists = view.exists
        /\ new.finalizer = view.finalizer /\ new.adopted = "own"
        /\ new.reason = "Started"
    BY <2>1 DEF Env, SameBut
  <2>3. Changed(view, new)
    BY <2>2, SameButChanged
  <2>4. Sane(view) => Sane(new)
    BY <2>2 DEF Sane, SameBut
  <2>5. ASSUME envs[n] = view PROVE Edited(n, new)
    BY <1>0, <1>8, <2>2, <2>3, <2>4, <2>5
       DEF Edited, RecordAdmission, UpdateEnvOf, SameBut
  <2> QED
    BY <1>0, <1>8, <2>1, <2>2, <2>5, UpdateMoves DEF RecordAdmission, SameBut
<1>9. CASE ReportDeletion(n)
  BY <1>0, <1>1, <1>9 DEF ReportDeletion
<1>10. CASE ReleaseEnvOf(n)
  <2>1. PICK new : new = [view EXCEPT !.exists = FALSE, !.finalizer = FALSE]
    OBVIOUS
  <2>2. /\ SameBut(view, new) /\ ~new.exists
        /\ new.adopted = view.adopted /\ new.reason = view.reason
    BY <2>1 DEF Env, SameBut
  <2>3. Changed(view, new)
    BY <2>2, SameButChanged
  <2>4. envs[n] = view /\ clock' = clock /\ envs' = [envs EXCEPT ![n] = new]
    BY <1>0, <1>10, <2>1 DEF ReleaseEnvOf
  <2>5. Sane(view) => Sane(new)
    BY <2>2 DEF Sane, SameBut
  <2>6. Edited(n, new)
    BY <2>2, <2>3, <2>4, <2>5 DEF Edited
  <2> QED
    BY <2>2, <2>4, <2>6 DEF EnvsMove, SameBut
<1>11. CASE AdoptLegacy(n)
  <2>1. PICK new : new = [view EXCEPT !.adopted = "legacy", !.reason = "Started"]
    OBVIOUS
  <2>2. /\ SameBut(view, new) /\ new.exists = view.exists
        /\ new.finalizer = view.finalizer /\ new.adopted = "legacy"
        /\ new.reason = "Started"
    BY <2>1 DEF Env, SameBut
  <2>3. ~view.sound
    BY <1>0, <1>11 DEF AdoptLegacy, ClassMode, ViewInv, Sane
  <2>4. Changed(view, new)
    BY <2>2, <2>3, SameButChanged
  <2>5. Sane(view) => Sane(new)
    BY <2>2, <2>3 DEF Sane, SameBut
  <2>6. ASSUME envs[n] = view PROVE Edited(n, new)
    BY <1>11, <2>2, <2>3, <2>4, <2>5, <2>6
       DEF Edited, AdoptLegacy, UpdateEnvOf, SameBut
  <2> QED
    BY <1>0, <1>11, <2>1, <2>2, <2>6, UpdateMoves DEF AdoptLegacy, SameBut
<1>12. CASE MeetConflict(n)
  BY <1>1, <1>12 DEF MeetConflict
<1> QED
  BY <1>2, <1>3, <1>4, <1>5, <1>6, <1>7, <1>8, <1>9, <1>10, <1>11, <1>12
     DEF EnvController

(* A spec that is written is such a change.                                  *)
LEMMA WrittenMoves ==
  ASSUME TypeInv, NEW n \in Names, NEW spec \in Specs,
         envs' = [envs EXCEPT ![n] = Written(@, spec)], clock' = clock
  PROVE  EnvsMove
<1>1. PICK old \in Env : old = envs[n]
  BY DEF TypeInv
<1>2. PICK new : new = Written(old, spec)
  OBVIOUS
<1>3. envs' = [envs EXCEPT ![n] = new]
  BY <1>1, <1>2
<1>4. /\ new \in Env /\ new.exists = old.exists /\ new.uid = old.uid
      /\ new.gen = old.gen + 1 /\ new.deleting = old.deleting
      /\ new.finalizer = old.finalizer /\ new.spec = spec /\ new.born = old.born
      /\ new.adopted = old.adopted /\ new.reason = old.reason
      /\ new.sound <=> old.sound /\ spec \in ClassMode
      /\ spec \notin Using => new.since = 0
      /\ spec \in Using /\ old.since > 0 => new.since = old.since
      /\ spec \in Using /\ ~(old.since > 0) => new.since = old.gen + 1
  BY <1>2, WrittenFacts
<1>5. old.gen \in Nat /\ old.since \in Nat
  BY EnvNumbers
<1>6. /\ new.since = old.since \/ new.since = 0 \/ old.gen < new.since
      /\ old.gen <= new.gen
  BY <1>4, <1>5
<1>7. Changed(old, new)
  BY <1>4, <1>6 DEF Changed
<1>8. ASSUME Sane(old) PROVE Sane(new)
  <2>1. new.spec \in Using <=> new.since > 0
    BY <1>4, <1>5
  <2>2. new.since <= new.gen
    <3>1. old.since <= old.gen
      BY <1>8 DEF Sane
    <3> QED
      BY <1>4, <1>5, <3>1
  <2> QED
    BY <1>4, <1>8, <2>1, <2>2 DEF Sane
<1>9. Edited(n, new)
  BY <1>1, <1>4, <1>7, <1>8 DEF Edited
<1> QED
  BY <1>3, <1>4, <1>9 DEF EnvsMove

(* A deletion is, too.                                                       *)
LEMMA DeletionMoves ==
  ASSUME TypeInv, NEW n \in Names, envs[n].exists,
         envs' = [envs EXCEPT ![n] = DeletedEnv(@)], clock' = clock
  PROVE  EnvsMove
<1>1. PICK old \in Env : old = envs[n]
  BY DEF TypeInv
<1>2. PICK gen \in Nat : gen = old.gen + 1
  BY EnvNumbers
<1>3. PICK new : new = [old EXCEPT !.deleting = TRUE, !.gen = gen, !.exists = old.finalizer]
  OBVIOUS
<1>4. /\ new \in Env /\ new.uid = old.uid /\ new.born = old.born
      /\ new.gen = gen /\ new.adopted = old.adopted
      /\ new.reason = old.reason /\ new.finalizer = old.finalizer
      /\ new.deleting /\ new.spec = old.spec /\ new.since = old.since
      /\ new.sound = old.sound
  BY <1>3 DEF Env
<1>5. envs' = [envs EXCEPT ![n] = new]
  BY <1>1, <1>2, <1>3 DEF DeletedEnv, Env
<1>6. old.gen <= new.gen /\ (Sane(old) => new.since <= new.gen)
  <2>1. old.gen \in Nat /\ old.since \in Nat
    BY EnvNumbers
  <2>2. Sane(old) => old.since <= old.gen
    BY DEF Sane
  <2> QED
    BY <1>2, <1>4, <2>1, <2>2
<1>7. Changed(old, new)
  BY <1>1, <1>4, <1>6 DEF Changed
<1>8. Sane(old) => Sane(new)
  BY <1>4, <1>6 DEF Sane
<1>9. Edited(n, new)
  BY <1>1, <1>4, <1>7, <1>8 DEF Edited
<1> QED
  BY <1>4, <1>5, <1>9 DEF EnvsMove

(* Each request of the console has its fields.                               *)
LEMMA RequestFields ==
  ASSUME TypeInv
  PROVE  /\ request.kind = "createEnvironment" => request.on \in Names
         /\ request.kind \in {"updateEnvironment", "deleteEnvironment"} =>
              /\ request \in [kind : {"updateEnvironment", "deleteEnvironment"},
                              on : Names, step : {"shown", "checked"},
                              seen : Seen, got : Env]
              /\ request.on \in Names /\ request.seen \in Seen /\ request.got \in Env
         /\ request.kind = "deleteClass" =>
              /\ request \in [kind : {"deleteClass"}, step : {"shown", "checked"},
                              seen : [uid : Uids], got : Class]
              /\ request.seen \in [uid : Uids] /\ request.got \in Class
BY DEF TypeInv, Requests, NoRequest

(* What the console does to environments.                                    *)
LEMMA ConsoleMoves ==
  ASSUME TypeInv, BoundInv, CreateEnvironment \/ UpdateEnvironment \/ DeleteEnvironment
  PROVE  EnvsMove
<1>1. CASE CreateEnvironment
  <2>1. request.on \in Names
    BY <1>1, RequestFields DEF CreateEnvironment
  <2>2. CASE envs[request.on].exists \/ ops = MaxOps
    BY <1>1, <2>2 DEF CreateEnvironment, EnvsMove
  <2>3. CASE ~(envs[request.on].exists \/ ops = MaxOps)
    BY <1>1, <2>1, <2>3, NewEnvFresh DEF CreateEnvironment, Specs
  <2> QED
    BY <2>2, <2>3
<1>2. CASE UpdateEnvironment
  <2>1. request.on \in Names
    BY <1>2, RequestFields DEF UpdateEnvironment
  <2>2. CASE UNCHANGED envs
    BY <1>2, <2>2 DEF UpdateEnvironment, EnvsMove
  <2>3. ASSUME NEW spec \in Resized(request.got.spec),
               envs' = [envs EXCEPT ![request.on] = Written(@, spec)]
        PROVE  EnvsMove
    <3>1. request.got.spec \in Specs
      BY <1>2, RequestFields DEF UpdateEnvironment, Env
    <3>2. spec \in Specs
      BY <3>1 DEF Resized, Specs
    <3> QED
      BY <1>2, <2>1, <2>3, <3>2, WrittenMoves DEF UpdateEnvironment
  <2> QED
    BY <1>2, <2>2, <2>3 DEF UpdateEnvironment
<1>3. CASE DeleteEnvironment
  <2>1. request.on \in Names
    BY <1>3, RequestFields DEF DeleteEnvironment
  <2>2. CASE UNCHANGED envs
    BY <1>3, <2>2 DEF DeleteEnvironment, EnvsMove
  <2>3. CASE /\ envs[request.on].exists
             /\ envs' = [envs EXCEPT ![request.on] = DeletedEnv(@)]
    BY <1>3, <2>1, <2>3, DeletionMoves DEF DeleteEnvironment
  <2> QED
    BY <1>3, <2>2, <2>3 DEF DeleteEnvironment
<1> QED
  BY <1>1, <1>2, <1>3

(* So every step moves at most one environment, as said above.               *)
LEMMA EnvStep ==
  TypeInv /\ BoundInv /\ ViewInv /\ [AdmNext]_admVars => EnvsMove
<1> SUFFICES ASSUME TypeInv, BoundInv, ViewInv, [AdmNext]_admVars PROVE EnvsMove
  OBVIOUS
<1>1. CASE ClassController
  BY <1>1 DEF ClassController, RefuseRelease, ReleaseClass, ProtectClass,
     ValidateClass, ForgetClass, UpdateClass, EnvsMove
<1>2. CASE Console
  <2>1. ASSUME NEW n \in Names, SubmitCreate(n) \/ ShowEnv(n) PROVE EnvsMove
    BY <2>1 DEF SubmitCreate, ShowEnv, OnlyRequest, EnvsMove
  <2>2. CASE ShowClass \/ SubmitOnEnv \/ SubmitDeleteClass \/ DeleteClass
    BY <2>2 DEF ShowClass, SubmitOnEnv, SubmitDeleteClass, OnlyRequest, DeleteClass,
       EnvsMove
  <2> QED
    BY <1>2, <2>1, <2>2, ConsoleMoves DEF Console
<1>3. CASE UserOfClass \/ CacheClass \/ CacheEnvs
  BY <1>3 DEF UserOfClass, CacheClass, CacheEnvs, EnvsMove
<1>4. ASSUME NEW n \in Names, UserOfEnv(n) PROVE EnvsMove
  <2>1. CASE CreateEnvBy(n)
    BY <1>4, <2>1, NewEnvFresh DEF UserOfEnv, CreateEnvBy, SpecsOf, Specs
  <2>2. CASE EditEnvBy(n)
    BY <2>2, WrittenMoves DEF EditEnvBy, SpecsOf, Specs
  <2>3. CASE DeleteEnvBy(n)
    BY <2>3, DeletionMoves DEF DeleteEnvBy
  <2> QED
    BY <1>4, <2>1, <2>2, <2>3 DEF UserOfEnv
<1>5. ASSUME NEW n \in Names, CollectStack(n) PROVE EnvsMove
  BY <1>5 DEF CollectStack, EnvsMove
<1>6. CASE UNCHANGED admVars
  BY <1>6 DEF admVars, EnvsMove
<1> QED
  BY <1>1, <1>2, <1>3, <1>4, <1>5, <1>6, ControllerMoves DEF AdmNext

-----------------------------------------------------------------------------
(* What steps do to the rest                                                 *)

(* The class changes within its type, the caches show what is, stacks come   *)
(* and go, and what users and the console do is counted.                     *)
RestMoves ==
  /\ class' \in Class /\ class'.uid <= ops' + 1
  /\ classView' \in {classView, class}
  /\ envsView' = envsView \/ (envsView' = envs /\ UNCHANGED <<envs, stacks, users>>)
  /\ \/ UNCHANGED stacks
     \/ \E n \in Names : Admit(n) \/ ReleaseEnvOf(n) \/ CollectStack(n)
  /\ ops' = ops \/ (ops < MaxOps /\ ops' = ops + 1)
  /\ due' \in BOOLEAN /\ request' \in Requests /\ users' \subseteq Names \X Uids \X Nat

(* A class that is changed keeps its identity.                               *)
LEMMA ClassMoves ==
  ASSUME TypeInv, BoundInv, NEW new \in Class, NEW again \in BOOLEAN,
         new.uid = classView.uid, UpdateClass(new, again)
  PROVE  RestMoves
<1>1. class' \in Class /\ class'.uid = class.uid
  BY DEF TypeInv, UpdateClass
<1> QED
  BY <1>1 DEF TypeInv, BoundInv, UpdateClass, RestMoves

(* The users of a class that is told to go are environments of the cache.    *)
LEMMA ToldMoves ==
  ASSUME TypeInv, BoundInv, ToldToGo
  PROVE  /\ class' \in Class /\ class'.uid = class.uid
         /\ users' \subseteq Names \X Uids \X Nat
<1>1. PICK old \in Class : old = class
  BY DEF TypeInv
<1>2. [old EXCEPT !.deleting = TRUE, !.exists = old.finalizer] \in Class
  BY DEF Class
<1>3. [old EXCEPT !.deleting = TRUE, !.exists = old.finalizer].uid = old.uid
  BY DEF Class
<1>4. \A n \in Names : envsView[n].uid \in Uids /\ envsView[n].since \in Nat
  BY DEF TypeInv, Env
<1> QED
  BY <1>1, <1>2, <1>3, <1>4 DEF ToldToGo

(* Every step does so.                                                       *)
LEMMA RestStep ==
  TypeInv /\ BoundInv /\ [AdmNext]_admVars => RestMoves
<1> SUFFICES ASSUME TypeInv, BoundInv, [AdmNext]_admVars PROVE RestMoves
  OBVIOUS
<1>0. /\ class \in Class /\ class.uid <= ops + 1 /\ class.uid \in Nat /\ ops \in Nat
      /\ due \in BOOLEAN /\ request \in Requests /\ users \subseteq Names \X Uids \X Nat
  <2>1. class.uid \in Uids /\ ops \in 0..MaxOps
    BY DEF TypeInv, Class
  <2>2. class.uid \in Nat
    BY <2>1, Numbers
  <2>3. ops \in Nat
    BY <2>1
  <2> QED
    BY <2>2, <2>3 DEF TypeInv, BoundInv
<1>1. CASE ClassController
  <2>1. PICK view \in Class : view = classView
    BY DEF TypeInv
  <2>2. CASE RefuseRelease
    <3>1. PICK new : new = [view EXCEPT !.reason = "ClassInUse"]
      OBVIOUS
    <3>2. new \in Class /\ new.uid = view.uid
      BY <3>1 DEF Class
    <3> QED
      BY <2>1, <2>2, <3>1, <3>2, ClassMoves DEF RefuseRelease
  <2>3. CASE ReleaseClass
    <3>1. PICK new : new = [view EXCEPT !.finalizer = FALSE, !.exists = FALSE]
      OBVIOUS
    <3>2. new \in Class /\ new.uid = view.uid
      BY <3>1 DEF Class
    <3> QED
      BY <2>1, <2>3, <3>1, <3>2, ClassMoves DEF ReleaseClass
  <2>4. CASE ProtectClass
    <3>1. PICK new : new = [view EXCEPT !.finalizer = TRUE]
      OBVIOUS
    <3>2. new \in Class /\ new.uid = view.uid
      BY <3>1 DEF Class
    <3> QED
      BY <2>1, <2>4, <3>1, <3>2, ClassMoves DEF ProtectClass
  <2>5. CASE ValidateClass
    <3>1. PICK new : new = [view EXCEPT !.reason = "ClassValidated"]
      OBVIOUS
    <3>2. new \in Class /\ new.uid = view.uid
      BY <3>1 DEF Class
    <3> QED
      BY <2>1, <2>5, <3>1, <3>2, ClassMoves DEF ValidateClass
  <2>6. CASE ForgetClass
    BY <1>0, <2>6 DEF ForgetClass, RestMoves
  <2> QED
    BY <1>1, <2>2, <2>3, <2>4, <2>5, <2>6 DEF ClassController
<1>2. ASSUME NEW n \in Names, EnvController(n) PROVE RestMoves
  <2>1. CASE Admit(n)
    BY <1>0, <2>1 DEF Admit, RestMoves
  <2>2. CASE ReleaseEnvOf(n)
    BY <1>0, <2>2 DEF ReleaseEnvOf, RestMoves
  <2>3. CASE ~Admit(n) /\ ~ReleaseEnvOf(n)
    BY <1>0, <1>2, <2>3 DEF EnvController, ProtectEnv, RejectMode, AdoptLegacy, MissClass,
       RejectByClass, RejectByQuota, RecordAdmission, MeetConflict, ReportDeletion,
       Reports, UpdateEnvOf, RestMoves
  <2> QED
    BY <2>1, <2>2, <2>3
<1>3. ASSUME NEW n \in Names, UserOfEnv(n) \/ CollectStack(n) PROVE RestMoves
  BY <1>0, <1>3 DEF UserOfEnv, CollectStack, Operate, RestMoves
<1>4. CASE UserOfClass
  <2>1. class' \in Class /\ class'.uid <= class.uid + 1 /\ users' \subseteq Names \X Uids \X Nat
    <3>1. CASE CreateClass
      <4>1. class.uid + 1 \in Uids
        <5>1. class.uid \in Nat /\ class.uid <= ops + 1 /\ ops < MaxOps
          BY <1>0, <1>4 DEF UserOfClass, Operate
        <5> QED
          BY <1>0, <5>1, Numbers DEF Uids
      <4>2. class' = [exists |-> TRUE, uid |-> class.uid + 1, deleting |-> FALSE,
                      finalizer |-> FALSE, reason |-> ""]
        BY <3>1 DEF CreateClass, NoClass
      <4> QED
        <5>1. class' \in Class /\ class'.uid = class.uid + 1
          BY <4>1, <4>2 DEF Class
        <5> QED
          BY <1>0, <3>1, <5>1 DEF CreateClass
    <3>2. CASE DeleteClassBy
      BY <1>0, <3>2, ToldMoves DEF DeleteClassBy
    <3> QED
      BY <1>4, <3>1, <3>2 DEF UserOfClass
  <2>2. class'.uid \in Nat
    BY <2>1, Numbers DEF Class
  <2> QED
    BY <1>0, <1>4, <2>1, <2>2 DEF UserOfClass, Operate, RestMoves
<1>5. CASE CacheClass \/ CacheEnvs
  BY <1>0, <1>5 DEF CacheClass, CacheEnvs, RestMoves
<1>6. CASE Console
  <2>1. ASSUME NEW n \in Names, SubmitCreate(n) PROVE RestMoves
    <3>1. request' \in Requests
      BY <2>1 DEF SubmitCreate, Requests
    <3> QED
      BY <1>0, <2>1, <3>1 DEF SubmitCreate, OnlyRequest, RestMoves
  <2>2. ASSUME NEW n \in Names, ShowEnv(n) PROVE RestMoves
    <3>1. NoEnv \in Env /\ [uid |-> envs[n].uid, gen |-> envs[n].gen] \in Seen
      BY NoEnvIsEnv DEF TypeInv, Env, Seen
    <3>2. request' \in Requests
      BY <2>2, <3>1 DEF ShowEnv, Requests
    <3> QED
      BY <1>0, <2>2, <3>2 DEF ShowEnv, OnlyRequest, RestMoves
  <2>3. CASE ShowClass
    <3>1. NoClass \in Class
      <4>1. 0 \in Uids
        BY Numbers DEF Uids
      <4> QED
        BY <4>1 DEF NoClass, Class
    <3>2. request' \in Requests
      BY <1>0, <2>3, <3>1 DEF ShowClass, Requests, Class
    <3> QED
      BY <1>0, <2>3, <3>2 DEF ShowClass, OnlyRequest, RestMoves
  <2>4. CASE SubmitOnEnv
    <3>1. PICK req : req = request
      OBVIOUS
    <3>2. PICK now \in Env : now = Kept(envs[req.on])
      BY <2>4, <3>1, RequestFields, NoEnvIsEnv DEF SubmitOnEnv, TypeInv, Kept
    <3>3. req \in [kind : {"updateEnvironment", "deleteEnvironment"}, on : Names,
                   step : {"shown", "checked"}, seen : Seen, got : Env]
      BY <2>4, <3>1, RequestFields DEF SubmitOnEnv
    <3>4. [req EXCEPT !.step = "checked", !.got = now] \in
             [kind : {"updateEnvironment", "deleteEnvironment"}, on : Names,
              step : {"shown", "checked"}, seen : Seen, got : Env]
      BY <3>3
    <3>5. request' \in Requests
      BY <2>4, <3>1, <3>2, <3>4 DEF SubmitOnEnv, Requests
    <3> QED
      BY <1>0, <2>4, <3>5 DEF SubmitOnEnv, OnlyRequest, RestMoves
  <2>5. CASE SubmitDeleteClass
    <3>1. PICK req : req = request
      OBVIOUS
    <3>2. PICK now \in Class : now = class
      BY <1>0
    <3>3. req \in [kind : {"deleteClass"}, step : {"shown", "checked"},
                   seen : [uid : Uids], got : Class]
      BY <2>5, <3>1, RequestFields DEF SubmitDeleteClass
    <3>4. [req EXCEPT !.step = "checked", !.got = now] \in
             [kind : {"deleteClass"}, step : {"shown", "checked"},
              seen : [uid : Uids], got : Class]
      BY <3>3
    <3>5. request' \in Requests
      BY <2>5, <3>1, <3>2, <3>4 DEF SubmitDeleteClass, Requests
    <3> QED
      BY <1>0, <2>5, <3>5 DEF SubmitDeleteClass, OnlyRequest, RestMoves
  <2>6. NoRequest \in Requests
    BY DEF Requests
  <2>7. CASE CreateEnvironment \/ UpdateEnvironment \/ DeleteEnvironment
    <3>1. /\ UNCHANGED <<class, classView, envsView, stacks, due, users>>
          /\ request' = NoRequest
          /\ ops' = ops \/ (ops < MaxOps /\ ops' = ops + 1)
      BY <2>7 DEF CreateEnvironment, UpdateEnvironment, DeleteEnvironment, Answered,
         Operate
    <3>2. class'.uid <= ops' + 1
      BY <1>0, <3>1
    <3> QED
      BY <1>0, <2>6, <3>1, <3>2 DEF RestMoves
  <2>8. CASE DeleteClass
    <3>1. CASE UNCHANGED <<class, users, ops>>
      BY <1>0, <2>6, <2>8, <3>1 DEF DeleteClass, Answered, RestMoves
    <3>2. CASE Operate /\ ToldToGo
      BY <1>0, <2>6, <2>8, <3>2, ToldMoves DEF DeleteClass, Answered, Operate,
         RestMoves
    <3> QED
      BY <2>8, <3>1, <3>2 DEF DeleteClass
  <2> QED
    BY <1>6, <2>1, <2>2, <2>3, <2>4, <2>5, <2>7, <2>8 DEF Console
<1>7. CASE UNCHANGED admVars
  BY <1>0, <1>7 DEF admVars, RestMoves
<1> QED
  BY <1>1, <1>2, <1>3, <1>4, <1>5, <1>6, <1>7 DEF AdmNext

(* What an update does not touch, and a new environment does not have.       *)
LEMMA EnvLater ==
  ASSUME TypeInv, BoundInv, ViewInv, [AdmNext]_admVars, NEW n \in Names
  PROVE  /\ envs'[n] \in Env /\ Later(envs[n], envs'[n])
         /\ Sane(envs[n]) => Sane(envs'[n])
<1>1. PICK old \in Env : old = envs[n]
  BY DEF TypeInv
<1>2. old.uid \in Nat
  BY EnvNumbers
<1>3. CASE envs'[n] = old
  BY <1>1, <1>3, LaterReflexive
<1>4. ASSUME NEW new \in Env, envs'[n] = new, Fresh(n, new)
      PROVE  Later(old, new) /\ Sane(new)
  <2>0. new.uid = old.uid + 1
    BY <1>1, <1>4 DEF Fresh
  <2>1. old.uid < new.uid
    BY <1>2, <2>0
  <2> QED
    BY <1>4, <2>1 DEF Later, Fresh
<1>5. ASSUME NEW new \in Env, envs'[n] = new, Edited(n, new)
      PROVE  Later(old, new) /\ (Sane(old) => Sane(new))
  BY <1>1, <1>5 DEF Edited, Later
<1>6. \/ envs'[n] = old
      \/ \E new \in Env : envs'[n] = new /\ (Fresh(n, new) \/ Edited(n, new))
  BY <1>1, EnvStep DEF EnvsMove, TypeInv
<1> QED
  BY <1>1, <1>3, <1>4, <1>5, <1>6

(* The types are kept.                                                       *)
LEMMA TypeStep ==
  TypeInv /\ BoundInv /\ ViewInv /\ [AdmNext]_admVars => TypeInv'
<1> SUFFICES ASSUME TypeInv, BoundInv, ViewInv, [AdmNext]_admVars PROVE TypeInv'
  OBVIOUS
<1>1. EnvsMove /\ RestMoves
  BY EnvStep, RestStep
<1>2. envs' \in [Names -> Env] /\ envsView' \in [Names -> Env]
  BY <1>1 DEF EnvsMove, RestMoves, TypeInv
<1>3. ops \in 0..MaxOps /\ ops' \in 0..MaxOps
  BY <1>1, Numbers DEF RestMoves, TypeInv
<1>4. clock' \in Clock
  <2>1. CASE clock' = clock
    BY <2>1 DEF TypeInv
  <2>2. CASE ops < MaxOps /\ clock' = clock + 1
    <3>1. clock \in Clock /\ clock <= ops
      BY DEF TypeInv, BoundInv
    <3>2. clock \in Nat /\ ops \in Nat /\ MaxOps \in Nat
      BY <1>3, <3>1, Numbers
    <3>3. clock + 1 \in 0..MaxOps
      BY <2>2, <3>1, <3>2
    <3> QED
      BY <2>2, <3>3 DEF Clock
  <2> QED
    BY <1>1, <2>1, <2>2 DEF EnvsMove, Fresh, Edited
<1>5. stacks' \in [Names -> Uids]
  <2>1. \A n \in Names : envsView[n].uid \in Uids
    BY DEF TypeInv, Env
  <2>2. 0 \in Uids
    BY Numbers DEF Uids
  <2> QED
    BY <1>1, <2>1, <2>2 DEF RestMoves, Admit, ReleaseEnvOf, CollectStack, TypeInv
<1> QED
  BY <1>1, <1>2, <1>3, <1>4, <1>5 DEF TypeInv, RestMoves

(* Caches show what was.                                                     *)
LEMMA ViewStep ==
  TypeInv /\ BoundInv /\ ViewInv /\ [AdmNext]_admVars => ViewInv'
<1> SUFFICES ASSUME TypeInv, BoundInv, ViewInv, [AdmNext]_admVars, NEW n \in Names
             PROVE  /\ Later(envsView'[n], envs'[n])
                    /\ Sane(envs'[n]) /\ Sane(envsView'[n])
  BY DEF ViewInv
<1>1. PICK view \in Env : view = envsView[n]
  BY DEF TypeInv
<1>2. PICK old \in Env : old = envs[n]
  BY DEF TypeInv
<1>3. PICK new \in Env : new = envs'[n]
  BY EnvLater
<1>4. /\ Later(view, old) /\ Later(old, new)
      /\ Sane(view) /\ Sane(old) /\ Sane(new)
  BY <1>1, <1>2, <1>3, EnvLater DEF ViewInv
<1>5. Later(view, new)
  BY <1>4, LaterTransitive
<1>6. envsView'[n] = view \/ (envsView'[n] = old /\ new = old)
  BY <1>1, <1>2, <1>3, RestStep DEF RestMoves
<1> QED
  BY <1>3, <1>4, <1>5, <1>6, LaterReflexive

(* Identities and seconds are counted by what users and the console do.      *)
LEMMA BoundStep ==
  TypeInv /\ BoundInv /\ ViewInv /\ [AdmNext]_admVars => BoundInv'
<1> SUFFICES ASSUME TypeInv, BoundInv, ViewInv, [AdmNext]_admVars PROVE BoundInv'
  OBVIOUS
<1>1. EnvsMove /\ RestMoves
  BY EnvStep, RestStep
<1>2. ops \in Nat /\ clock \in Nat /\ clock <= ops /\ ops' \in Nat /\ ops <= ops'
  <2>1. ops \in 0..MaxOps /\ clock \in Clock
    BY DEF TypeInv
  <2>2. ops \in Nat
    BY <2>1
  <2>3. clock \in Nat
    BY <2>1, Numbers
  <2> QED
    BY <1>1, <2>2, <2>3 DEF BoundInv, RestMoves
<1>3. /\ clock' \in Nat /\ clock <= clock' /\ clock' <= ops'
  <2>1. clock' = clock \/ (clock' = clock + 1 /\ ops' = ops + 1)
    BY <1>1 DEF EnvsMove, Fresh, Edited
  <2> QED
    BY <1>2, <2>1
<1>4. ASSUME NEW n \in Names
      PROVE  /\ envs'[n].uid <= ops' /\ envs'[n].born <= clock'
             /\ stacks'[n] <= envs'[n].uid
             /\ envs'[n].exists => envs'[n].uid > 0
  <2>1. PICK old \in Env : old = envs[n]
    BY DEF TypeInv
  <2>2. /\ old.uid \in Nat /\ old.born \in Nat /\ old.uid <= ops /\ old.born <= clock
        /\ old.exists => old.uid > 0
        /\ stacks[n] \in Nat /\ stacks[n] <= old.uid
    <3>1. stacks[n] \in Uids
      BY DEF TypeInv
    <3>2. stacks[n] \in Nat
      BY <3>1, Numbers
    <3> QED
      BY <2>1, <3>2, EnvNumbers DEF BoundInv
  <2>3. PICK new \in Env : new = envs'[n]
    BY EnvLater
  <2>4. \/ new = old
        \/ new.uid = old.uid + 1 /\ new.born = clock /\ ops' = ops + 1
        \/ new.uid = old.uid /\ new.born = old.born /\ (new.exists => old.exists)
    BY <1>1, <2>1, <2>3 DEF EnvsMove, TypeInv, Fresh, Edited, Changed
  <2>5. /\ new.uid \in Nat /\ old.uid <= new.uid /\ new.uid <= ops' /\ new.born <= clock'
        /\ new.exists => new.uid > 0
    BY <1>2, <1>3, <2>2, <2>4
  <2>6. stacks'[n] = stacks[n] \/ stacks'[n] = 0 \/ stacks'[n] = envsView[n].uid
    BY <1>1 DEF RestMoves, Admit, ReleaseEnvOf, CollectStack, TypeInv
  <2>7. envsView[n].uid <= old.uid /\ envsView[n].uid \in Nat
    BY <2>1, <2>2, EnvNumbers DEF TypeInv, ViewInv, Later, Changed
  <2> QED
    BY <2>2, <2>3, <2>5, <2>6, <2>7
<1>5. class'.uid <= ops' + 1 /\ clock' <= ops'
  BY <1>1, <1>3 DEF RestMoves
<1> QED
  BY <1>4, <1>5 DEF BoundInv

-----------------------------------------------------------------------------
(* Who is protected                                                          *)

(* A class that is ready is protected, and so is an environment with a       *)
(* stack.                                                                    *)
GuardedInv ==
  /\ class.exists /\ class.reason = "ClassValidated" => class.finalizer
  /\ \A n \in Names : envs[n].exists /\ envs[n].uid = stacks[n] => envs[n].finalizer

(* The stack of a name changes only when its environment is admitted or      *)
(* gone.                                                                     *)
LEMMA StackMoves ==
  ASSUME TypeInv, RestMoves, NEW n \in Names
  PROVE  stacks'[n] = stacks[n] \/ Admit(n) \/ ReleaseEnvOf(n) \/ CollectStack(n)
BY DEF RestMoves, TypeInv, Admit, ReleaseEnvOf, CollectStack

(* What a step may do to one environment.                                    *)
LEMMA EnvMoves ==
  ASSUME TypeInv, EnvsMove, NEW n \in Names
  PROVE  \/ envs'[n] = envs[n]
         \/ \E new \in Env : envs'[n] = new /\ (Fresh(n, new) \/ Edited(n, new))
BY DEF EnvsMove, TypeInv

(* A new environment has an identity that none had under this name.          *)
LEMMA FreshIsNew ==
  ASSUME TypeInv, BoundInv, NEW n \in Names, NEW new \in Env, Fresh(n, new)
  PROVE  envs[n].uid < new.uid /\ new.uid # stacks[n]
<1>1. PICK old \in Env : old = envs[n]
  BY DEF TypeInv
<1>2. old.uid \in Nat /\ new.uid = old.uid + 1
  BY <1>1, EnvNumbers DEF Fresh
<1>3. stacks[n] \in Nat /\ stacks[n] <= old.uid
  <2>1. stacks[n] \in Uids
    BY DEF TypeInv
  <2>2. stacks[n] \in Nat
    BY <2>1, Numbers
  <2> QED
    BY <1>1, <2>2 DEF BoundInv
<1> QED
  BY <1>1, <1>2, <1>3

(* Protection is not taken off.                                              *)
LEMMA GuardedStep ==
  TypeInv /\ BoundInv /\ ViewInv /\ GuardedInv /\ [AdmNext]_admVars => GuardedInv'
<1> SUFFICES ASSUME TypeInv, BoundInv, ViewInv, GuardedInv, [AdmNext]_admVars
             PROVE  GuardedInv'
  OBVIOUS
<1>1. EnvsMove /\ RestMoves
  BY EnvStep, RestStep
<1>2. ASSUME NEW n \in Names, envs'[n].exists, envs'[n].uid = stacks'[n]
      PROVE  envs'[n].finalizer
  <2>1. CASE Admit(n)
    <3>1. envs'[n] = envs[n] /\ stacks'[n] = envsView[n].uid /\ envsView[n].finalizer
      BY <2>1 DEF Admit, Admissible, Fits, HasClass, Checked, TypeInv
    <3>2. envsView[n].uid \in Nat
      BY EnvNumbers DEF TypeInv
    <3>3. Changed(envsView[n], envs[n])
      BY <1>2, <3>1, <3>2 DEF ViewInv, Later
    <3> QED
      BY <1>2, <3>1, <3>3 DEF Changed
  <2>2. CASE ReleaseEnvOf(n)
    <3>1. ~envs'[n].exists
      BY <2>2 DEF ReleaseEnvOf, TypeInv, Env
    <3> QED
      BY <1>2, <3>1
  <2>4. CASE CollectStack(n)
    <3>1. stacks'[n] = 0 /\ envs'[n] = envs[n] /\ envs[n].uid \in Nat
      BY <2>4, EnvNumbers DEF CollectStack, TypeInv
    <3>2. envs[n].uid > 0
      BY <1>2, <3>1 DEF BoundInv
    <3> QED
      BY <1>2, <3>1, <3>2
  <2>3. CASE stacks'[n] = stacks[n]
    <3>1. CASE envs'[n] = envs[n]
      BY <1>2, <2>3, <3>1 DEF GuardedInv
    <3>2. ASSUME NEW new \in Env, envs'[n] = new, Fresh(n, new) PROVE FALSE
      BY <1>2, <2>3, <3>2, FreshIsNew
    <3>3. ASSUME NEW new \in Env, envs'[n] = new, Edited(n, new) PROVE new.finalizer
      BY <1>2, <2>3, <3>3 DEF Edited, Changed, GuardedInv
    <3> QED
      BY <1>1, <3>1, <3>2, <3>3, EnvMoves
  <2> QED
    BY <1>1, <2>1, <2>2, <2>3, <2>4, StackMoves
<1>3. class'.exists /\ class'.reason = "ClassValidated" => class'.finalizer
  <2>1. CASE UNCHANGED class
    BY <2>1 DEF GuardedInv
  <2>2. PICK view \in Class : view = classView
    BY DEF TypeInv
  <2>3. CASE RefuseRelease
    <3>1. [view EXCEPT !.reason = "ClassInUse"].reason = "ClassInUse"
      BY DEF Class
    <3> QED
      BY <2>1, <2>2, <2>3, <3>1 DEF RefuseRelease, UpdateClass
  <2>4. CASE ReleaseClass
    <3>1. ~[view EXCEPT !.finalizer = FALSE, !.exists = FALSE].exists
      BY DEF Class
    <3> QED
      BY <2>1, <2>2, <2>4, <3>1 DEF ReleaseClass, UpdateClass
  <2>5. CASE ProtectClass
    <3>1. [view EXCEPT !.finalizer = TRUE].finalizer
      BY DEF Class
    <3> QED
      BY <2>1, <2>2, <2>5, <3>1 DEF ProtectClass, UpdateClass
  <2>6. CASE ValidateClass
    <3>1. view.finalizer
      BY <2>2, <2>6 DEF ValidateClass, NeedsProtection
    <3>2. [view EXCEPT !.reason = "ClassValidated"].finalizer = view.finalizer
      BY DEF Class
    <3> QED
      BY <2>1, <2>2, <2>6, <3>1, <3>2 DEF ValidateClass, UpdateClass
  <2>7. CASE CreateClass
    <3>1. class'.reason = ""
      BY <2>7 DEF CreateClass, NoClass
    <3> QED
      BY <3>1
  <2>8. CASE ToldToGo
    <3>1. class'.exists = class.finalizer /\ class'.finalizer = class.finalizer
      BY <2>8 DEF ToldToGo, TypeInv, Class
    <3> QED
      BY <3>1
  <2>9. \/ UNCHANGED class
        \/ RefuseRelease \/ ReleaseClass \/ ProtectClass \/ ValidateClass
        \/ CreateClass \/ ToldToGo
    <3>1. CASE ClassController
      BY <3>1 DEF ClassController, ForgetClass
    <3>2. CASE Console
      BY <3>2 DEF Console, SubmitCreate, ShowEnv, ShowClass, SubmitOnEnv,
         SubmitDeleteClass, OnlyRequest, CreateEnvironment, UpdateEnvironment,
         DeleteEnvironment, DeleteClass
    <3>3. CASE UserOfClass \/ CacheClass \/ CacheEnvs
      BY <3>3 DEF UserOfClass, DeleteClassBy, CacheClass, CacheEnvs
    <3>4. ASSUME NEW n \in Names, EnvController(n) \/ CollectStack(n) \/ UserOfEnv(n)
          PROVE  UNCHANGED class
      BY <3>4 DEF EnvController, ProtectEnv, RejectMode, AdoptLegacy, MissClass,
         RejectByClass, RejectByQuota, Admit, RecordAdmission, MeetConflict,
         ReportDeletion, ReleaseEnvOf, CollectStack, Reports, UpdateEnvOf, UserOfEnv
    <3>5. CASE UNCHANGED admVars
      BY <3>5 DEF admVars
    <3> QED
      BY <3>1, <3>2, <3>3, <3>4, <3>5 DEF AdmNext
  <2> QED
    BY <2>1, <2>3, <2>4, <2>5, <2>6, <2>7, <2>8, <2>9
<1> QED
  BY <1>2, <1>3 DEF GuardedInv

-----------------------------------------------------------------------------
(* What the console has checked, and who is known to use the class           *)

(* A request that was checked is about the object its page showed.           *)
CheckedInv ==
  /\ request.kind \in {"updateEnvironment", "deleteClass"}
  /\ request.step = "checked"
  => /\ request.got.exists /\ request.got.uid = request.seen.uid
     /\ request.kind = "updateEnvironment" => request.got.gen = request.seen.gen

(* It is checked against what is read, and keeps it.                        *)
LEMMA CheckedStep ==
  TypeInv /\ CheckedInv /\ [AdmNext]_admVars => CheckedInv'
<1> SUFFICES ASSUME TypeInv, CheckedInv, [AdmNext]_admVars PROVE CheckedInv'
  OBVIOUS
<1>1. CASE UNCHANGED request
  BY <1>1 DEF CheckedInv
<1>2. CASE request' = NoRequest
  BY <1>2 DEF CheckedInv, NoRequest
<1>3. CASE Console
  <2>1. ASSUME NEW n \in Names, SubmitCreate(n) \/ ShowEnv(n) PROVE CheckedInv'
    BY <2>1 DEF SubmitCreate, ShowEnv, CheckedInv
  <2>2. CASE ShowClass
    BY <2>2 DEF ShowClass, CheckedInv
  <2>3. CASE SubmitOnEnv
    <3>1. PICK req : req = request
      OBVIOUS
    <3>2. PICK now : now = envs[req.on]
      OBVIOUS
    <3>3. req \in [kind : {"updateEnvironment", "deleteEnvironment"}, on : Names,
                   step : {"shown", "checked"}, seen : Seen, got : Env]
      BY <2>3, <3>1, RequestFields DEF SubmitOnEnv
    <3>4. PICK new : new = [req EXCEPT !.step = "checked", !.got = Kept(now)]
      OBVIOUS
    <3>5. /\ new.kind = req.kind /\ new.seen = req.seen
          /\ new.kind = "updateEnvironment" => new.got = now
      BY <3>1, <3>3, <3>4 DEF Kept
    <3>6. CASE Same(req.kind, now, req.seen) /\ request' = new
      BY <3>3, <3>5, <3>6 DEF CheckedInv, Same
    <3> QED
      BY <1>2, <2>3, <3>1, <3>2, <3>4, <3>6 DEF SubmitOnEnv
  <2>4. CASE SubmitDeleteClass
    <3>1. PICK req : req = request
      OBVIOUS
    <3>2. PICK now : now = class
      OBVIOUS
    <3>3. req \in [kind : {"deleteClass"}, step : {"shown", "checked"},
                   seen : [uid : Uids], got : Class]
      BY <2>4, <3>1, RequestFields DEF SubmitDeleteClass
    <3>4. PICK new : new = [req EXCEPT !.step = "checked", !.got = now]
      OBVIOUS
    <3>5. new.kind = "deleteClass" /\ new.seen = req.seen /\ new.got = now
      BY <3>3, <3>4
    <3>6. CASE Same(req.kind, now, req.seen) /\ request' = new
      BY <3>3, <3>5, <3>6 DEF CheckedInv, Same
    <3> QED
      BY <1>2, <2>4, <3>1, <3>2, <3>4, <3>6 DEF SubmitDeleteClass
  <2>5. CASE CreateEnvironment \/ UpdateEnvironment \/ DeleteEnvironment \/ DeleteClass
    BY <1>2, <2>5 DEF CreateEnvironment, UpdateEnvironment, DeleteEnvironment,
       DeleteClass, Answered
  <2> QED
    BY <1>3, <2>1, <2>2, <2>3, <2>4, <2>5 DEF Console
<1>4. CASE ClassController \/ UserOfClass \/ CacheClass \/ CacheEnvs
  BY <1>1, <1>4 DEF ClassController, RefuseRelease, ReleaseClass, ProtectClass,
     ValidateClass, ForgetClass, UpdateClass, UserOfClass, CacheClass, CacheEnvs
<1>5. ASSUME NEW n \in Names, EnvController(n) \/ CollectStack(n) \/ UserOfEnv(n)
      PROVE  CheckedInv'
  BY <1>1, <1>5 DEF EnvController, ProtectEnv, RejectMode, AdoptLegacy, MissClass,
     RejectByClass, RejectByQuota, Admit, RecordAdmission, MeetConflict,
     ReportDeletion, ReleaseEnvOf, CollectStack, Reports, UpdateEnvOf, UserOfEnv
<1>6. CASE UNCHANGED admVars
  BY <1>1, <1>6 DEF admVars
<1> QED
  BY <1>3, <1>4, <1>5, <1>6 DEF AdmNext

(* What the cache shows of those who were known to use the class is not      *)
(* older than what it showed then.                                           *)
KnownInv ==
  \A user \in users :
    LET view == envsView[user[1]]
    IN  /\ user[3] > 0
        /\ user[2] < view.uid \/ (user[2] = view.uid /\ user[3] <= view.gen)

(* What becomes of the users, and when a class goes.                         *)
UsersMove ==
  /\ \/ UNCHANGED users
     \/ users' = {}
     \/ /\ users' = {<<n, envsView[n].uid, envsView[n].since>> :
                        n \in {m \in Names : Uses(envsView[m])}}
        /\ UNCHANGED envsView
  /\ ~class'.exists =>
       \/ users' = {}
       \/ ~class.exists /\ UNCHANGED users
       \/ Usage = 0 /\ UNCHANGED <<envs, users>>

(* The users are noted when a class that is there is told to go.            *)
LEMMA ToldUsers ==
  ASSUME TypeInv, ToldToGo, class.exists, UNCHANGED envsView
  PROVE  UsersMove
<1>1. class'.exists = class.finalizer
  BY DEF ToldToGo, TypeInv, Class
<1> QED
  BY <1>1 DEF ToldToGo, UsersMove

(* Every step does so.                                                      *)
LEMMA UsersStep ==
  TypeInv /\ CheckedInv /\ [AdmNext]_admVars => UsersMove
<1> SUFFICES ASSUME TypeInv, CheckedInv, [AdmNext]_admVars PROVE UsersMove
  OBVIOUS
<1>1. CASE UNCHANGED <<class, users>>
  BY <1>1 DEF UsersMove
<1>2. PICK view \in Class : view = classView
  BY DEF TypeInv
<1>3. CASE ClassController
  <2>1. ASSUME NEW new, new.exists = view.exists, view.exists,
               UpdateClass(new, TRUE) \/ UpdateClass(new, FALSE)
        PROVE  UsersMove
    BY <1>2, <2>1 DEF UpdateClass, UsersMove
  <2>2. CASE RefuseRelease
    <3>1. [view EXCEPT !.reason = "ClassInUse"].exists = view.exists
      BY DEF Class
    <3> QED
      BY <1>2, <2>1, <2>2, <3>1 DEF RefuseRelease, ClassTurn
  <2>3. CASE ReleaseClass
    BY <2>3 DEF ReleaseClass, UpdateClass, UsersMove
  <2>4. CASE ProtectClass
    <3>1. [view EXCEPT !.finalizer = TRUE].exists = view.exists
      BY DEF Class
    <3> QED
      BY <1>2, <2>1, <2>4, <3>1 DEF ProtectClass, ClassTurn
  <2>5. CASE ValidateClass
    <3>1. [view EXCEPT !.reason = "ClassValidated"].exists = view.exists
      BY DEF Class
    <3> QED
      BY <1>2, <2>1, <2>5, <3>1 DEF ValidateClass, ClassTurn
  <2>6. CASE ForgetClass
    BY <1>1, <2>6 DEF ForgetClass
  <2> QED
    BY <1>3, <2>2, <2>3, <2>4, <2>5, <2>6 DEF ClassController
<1>4. CASE UserOfClass
  <2>1. CASE CreateClass
    BY <2>1 DEF CreateClass, UsersMove
  <2>2. CASE DeleteClassBy
    BY <1>4, <2>2, ToldUsers DEF DeleteClassBy, UserOfClass
  <2> QED
    BY <1>4, <2>1, <2>2 DEF UserOfClass
<1>5. CASE DeleteClass
  <2>1. CASE UNCHANGED <<class, users>>
    BY <1>1, <2>1
  <2>2. CASE ToldToGo /\ class = request.got
    <3>1. class.exists
      BY <1>5, <2>2 DEF DeleteClass, CheckedInv
    <3> QED
      BY <1>5, <2>2, <3>1, ToldUsers DEF DeleteClass, Answered
  <2> QED
    BY <1>5, <2>1, <2>2 DEF DeleteClass
<1>6. CASE Console /\ ~DeleteClass
  BY <1>1, <1>6 DEF Console, SubmitCreate, ShowEnv, ShowClass, SubmitOnEnv,
     SubmitDeleteClass, OnlyRequest, CreateEnvironment, UpdateEnvironment,
     DeleteEnvironment
<1>7. CASE CacheClass \/ CacheEnvs
  BY <1>1, <1>7 DEF CacheClass, CacheEnvs
<1>8. ASSUME NEW n \in Names, EnvController(n) \/ CollectStack(n) \/ UserOfEnv(n)
      PROVE  UsersMove
  BY <1>1, <1>8 DEF EnvController, ProtectEnv, RejectMode, AdoptLegacy, MissClass,
     RejectByClass, RejectByQuota, Admit, RecordAdmission, MeetConflict,
     ReportDeletion, ReleaseEnvOf, CollectStack, Reports, UpdateEnvOf, UserOfEnv
<1>9. CASE UNCHANGED admVars
  BY <1>1, <1>9 DEF admVars
<1> QED
  BY <1>3, <1>4, <1>5, <1>6, <1>7, <1>8, <1>9 DEF AdmNext

(* They stay known.                                                          *)
LEMMA KnownStep ==
  TypeInv /\ BoundInv /\ ViewInv /\ CheckedInv /\ KnownInv /\ [AdmNext]_admVars
    => KnownInv'
<1> SUFFICES ASSUME TypeInv, BoundInv, ViewInv, CheckedInv, KnownInv,
                    [AdmNext]_admVars, NEW user \in users'
             PROVE  LET view == envsView'[user[1]]
                    IN  /\ user[3] > 0
                        /\ user[2] < view.uid \/ (user[2] = view.uid /\ user[3] <= view.gen)
  BY DEF KnownInv
<1>1. CASE user \in users
  <2>1. user[1] \in Names /\ user[2] \in Nat /\ user[3] \in Nat
    BY <1>1, Numbers DEF TypeInv
  <2>2. PICK view \in Env : view = envsView[user[1]]
    BY <2>1 DEF TypeInv
  <2>3. PICK env \in Env : env = envs[user[1]]
    BY <2>1 DEF TypeInv
  <2>4. PICK new : new = envsView'[user[1]]
    OBVIOUS
  <2>5. new = view \/ new = env
    BY <2>1, <2>2, <2>3, <2>4, RestStep DEF RestMoves
  <2>6. /\ user[3] > 0
        /\ user[2] < view.uid \/ (user[2] = view.uid /\ user[3] <= view.gen)
    BY <1>1, <2>2 DEF KnownInv
  <2>7. view.uid < env.uid \/ (view.uid = env.uid /\ view.gen <= env.gen)
    BY <2>1, <2>2, <2>3 DEF ViewInv, Later, Changed
  <2>8. view.uid \in Nat /\ env.uid \in Nat /\ view.gen \in Nat /\ env.gen \in Nat
    BY EnvNumbers
  <2>9. user[2] < new.uid \/ (user[2] = new.uid /\ user[3] <= new.gen)
    BY <2>1, <2>5, <2>6, <2>7, <2>8
  <2> QED
    BY <2>4, <2>6, <2>9
<1>2. CASE user \notin users
  <2>1. PICK n \in Names : /\ user = <<n, envsView[n].uid, envsView[n].since>>
                           /\ Uses(envsView[n])
    BY <1>2, UsersStep DEF UsersMove
  <2>2. UNCHANGED envsView
    BY <1>2, UsersStep DEF UsersMove
  <2>3. envsView[n].since > 0 /\ envsView[n].since <= envsView[n].gen
    BY <2>1 DEF ViewInv, Sane, Uses
  <2> QED
    BY <2>1, <2>2, <2>3
<1> QED
  BY <1>1, <1>2

(* No known user is left when the class goes, and none comes back.           *)
LEMMA KnownUsersStep ==
  TypeInv /\ BoundInv /\ ViewInv /\ CheckedInv /\ KnownInv /\ KnownUsersKeepClass
    /\ [AdmNext]_admVars => KnownUsersKeepClass'
<1> SUFFICES ASSUME TypeInv, BoundInv, ViewInv, CheckedInv, KnownInv,
                    KnownUsersKeepClass, [AdmNext]_admVars,
                    ~class'.exists, NEW user \in users',
                    envs'[user[1]].exists, envs'[user[1]].uid = user[2],
                    envs'[user[1]].since = user[3]
             PROVE  FALSE
  BY DEF KnownUsersKeepClass
<1>1. UsersMove
  BY UsersStep
<1>2. user \in users
  BY <1>1 DEF UsersMove
<1>3. user[1] \in Names /\ user[2] \in Nat /\ user[3] \in Nat
  BY <1>2, Numbers DEF TypeInv
<1>4. PICK view \in Env : view = envsView[user[1]]
  BY <1>3 DEF TypeInv
<1>5. PICK env \in Env : env = envs[user[1]]
  BY <1>3 DEF TypeInv
<1>6. /\ view.uid \in Nat /\ env.uid \in Nat /\ view.gen \in Nat /\ env.gen \in Nat
      /\ user[3] > 0
      /\ user[2] < view.uid \/ (user[2] = view.uid /\ user[3] <= view.gen)
      /\ view.uid < env.uid \/ Changed(view, env)
  BY <1>2, <1>3, <1>4, <1>5, EnvNumbers DEF KnownInv, ViewInv, Later
<1>7. CASE ~class.exists
  <2>1. ~(env.exists /\ env.uid = user[2] /\ env.since = user[3])
    BY <1>2, <1>5, <1>7 DEF KnownUsersKeepClass
  <2>2. PICK new \in Env : new = envs'[user[1]]
    BY <1>3, EnvLater
  <2>3. new.uid \in Nat /\ (env.uid < new.uid \/ Changed(env, new))
    BY <1>3, <1>5, <2>2, EnvLater, EnvNumbers DEF Later
  <2>4. new.exists /\ new.uid = user[2] /\ new.since = user[3]
    BY <2>2
  <2>5. user[2] <= env.uid /\ (user[2] = env.uid => user[3] <= env.gen)
    BY <1>3, <1>6 DEF Changed
  <2>6. Changed(env, new)
    BY <1>3, <1>6, <2>3, <2>4, <2>5
  <2>7. env.exists /\ env.uid = user[2] /\ ~(env.gen < user[3])
    BY <1>3, <1>6, <2>4, <2>5, <2>6 DEF Changed
  <2>8. env.since = user[3]
    BY <1>3, <1>6, <2>4, <2>6, <2>7 DEF Changed
  <2> QED
    BY <2>1, <2>7, <2>8
<1>8. CASE Usage = 0 /\ UNCHANGED envs
  <2>1. {n \in Names : Uses(envsView[n])} = {}
    <3>1. IsFiniteSet({n \in Names : Uses(envsView[n])})
      BY AdmissionAssumption, FS_Subset
    <3> QED
      BY <1>8, <3>1, FS_EmptySet DEF Usage
  <2>2. ~Uses(view)
    BY <1>3, <1>4, <2>1
  <2>3. env.exists /\ env.uid = user[2] /\ env.since = user[3]
    BY <1>5, <1>8
  <2>4. Changed(view, env) /\ user[3] <= view.gen
    <3>1. ~(view.uid < env.uid) /\ ~(user[2] < view.uid)
      <4>1. CASE view.uid < env.uid
        BY <1>3, <1>6, <2>3, <4>1
      <4>2. CASE Changed(view, env)
        BY <1>3, <1>6, <2>3, <4>2 DEF Changed
      <4> QED
        BY <1>6, <4>1, <4>2
    <3> QED
      BY <1>6, <3>1
  <2>5. view.since = user[3]
    BY <1>3, <1>6, <2>3, <2>4 DEF Changed
  <2>6. view.since > 0
    BY <1>6, <2>5
  <2>7. view.spec \in Using
    BY <1>3, <1>4, <2>6 DEF ViewInv, Sane
  <2> QED
    BY <2>2, <2>3, <2>4, <2>7 DEF Changed, Uses
<1> QED
  BY <1>1, <1>2, <1>7, <1>8 DEF UsersMove

-----------------------------------------------------------------------------
(* The quota                                                                 *)

(* An environment whose status says that it was admitted has its stack.      *)
AdoptedInv ==
  \A n \in Names :
    envs[n].exists /\ envs[n].adopted = "own" => stacks[n] = envs[n].uid

(* The cache shows the environments at one moment: when it shows one, it     *)
(* shows those that were born before it.                                     *)
SnapInv ==
  /\ \A n \in Names : envsView[n].born <= clock
  /\ \A m, n \in Names :
       envs[m].exists /\ envs[m].born < envsView[n].born
         => envsView[m].uid = envs[m].uid

(* Seconds tell environments apart.                                          *)
BirthInv ==
  \A m, n \in Names :
    envs[m].exists /\ envs[n].exists =>
      envs[n].born < clock /\ (m # n => envs[m].born # envs[n].born)

Live(n) == envs[n].exists /\ ~envs[n].deleting /\ envs[n].sound

Older(n) == {m \in Names : Live(m) /\ envs[m].born < envs[n].born}

(* Who has passed the quota: its stack is there, or it is reported to have    *)
(* come as far.                                                              *)
Passed(n) ==
  \/ stacks[n] = envs[n].uid
  \/ envs[n].reason = "Started"
  \/ envsView[n].uid = envs[n].uid /\ envsView[n].reason = "Started"

(* Whoever has passed it has fewer before it than the tenant may have.       *)
RankInv ==
  \A n \in Names : Live(n) /\ Passed(n) => Cardinality(Older(n)) < MaxEnvironments

(* Only an environment that has its stack is said to be admitted.            *)
LEMMA AdoptedStep ==
  TypeInv /\ BoundInv /\ ViewInv /\ AdoptedInv /\ [AdmNext]_admVars => AdoptedInv'
<1> SUFFICES ASSUME TypeInv, BoundInv, ViewInv, AdoptedInv, [AdmNext]_admVars,
                    NEW n \in Names, envs'[n].exists, envs'[n].adopted = "own"
             PROVE  stacks'[n] = envs'[n].uid
  BY DEF AdoptedInv
<1>1. EnvsMove /\ RestMoves
  BY EnvStep, RestStep
<1>2. CASE Admit(n)
  <2>1. envs'[n] = envs[n] /\ stacks[n] = 0
    BY <1>2 DEF Admit
  <2>2. envs[n].uid \in Nat /\ envs[n].uid > 0 /\ stacks[n] = envs[n].uid
    BY <2>1, EnvNumbers DEF TypeInv, BoundInv, AdoptedInv
  <2> QED
    BY <2>1, <2>2
<1>3. CASE ReleaseEnvOf(n)
  <2>1. ~envs'[n].exists
    <3>1. envs' = [envs EXCEPT ![n].exists = FALSE, ![n].finalizer = FALSE]
      BY <1>3 DEF ReleaseEnvOf
    <3> QED
      BY <3>1 DEF TypeInv, Env
  <2> QED
    BY <2>1
<1>4. CASE stacks'[n] = stacks[n]
  <2>1. CASE envs'[n] = envs[n]
    BY <1>4, <2>1 DEF AdoptedInv
  <2>2. ASSUME NEW new \in Env, envs'[n] = new, Fresh(n, new) PROVE FALSE
    BY <2>2 DEF Fresh
  <2>3. ASSUME NEW new \in Env, envs'[n] = new, Edited(n, new) PROVE stacks[n] = new.uid
    BY <2>3 DEF Edited, Changed, AdoptedInv
  <2> QED
    BY <1>1, <1>4, <2>1, <2>2, <2>3, EnvMoves
<1>5. CASE CollectStack(n)
  BY <1>5 DEF CollectStack, AdoptedInv
<1> QED
  BY <1>1, <1>2, <1>3, <1>4, <1>5, StackMoves

(* Seconds are numbers, and do not go back.                                  *)
LEMMA ClockMoves ==
  ASSUME TypeInv, EnvsMove
  PROVE  clock \in Nat /\ clock' \in Nat /\ clock <= clock'
<1>1. clock \in Nat
  BY Numbers DEF TypeInv
<1>2. clock' = clock \/ clock' = clock + 1
  BY DEF EnvsMove, Fresh, Edited
<1> QED
  BY <1>1, <1>2

(* A cache that is refreshed shows all; a new environment is younger than    *)
(* what the cache shows.                                                     *)
LEMMA SnapStep ==
  TypeInv /\ BoundInv /\ ViewInv /\ SnapInv /\ [AdmNext]_admVars => SnapInv'
<1> SUFFICES ASSUME TypeInv, BoundInv, ViewInv, SnapInv, [AdmNext]_admVars
             PROVE  SnapInv'
  OBVIOUS
<1>1. EnvsMove /\ RestMoves
  BY EnvStep, RestStep
<1>2. clock \in Nat /\ clock' \in Nat /\ clock <= clock'
  BY <1>1, ClockMoves
<1>3. ASSUME NEW n \in Names PROVE envsView'[n].born <= clock'
  <2>1. PICK view \in Env : view = envsView[n]
    BY DEF TypeInv
  <2>2. PICK env \in Env : env = envs[n]
    BY DEF TypeInv
  <2>3. view.born \in Nat /\ env.born \in Nat /\ view.born <= clock /\ env.born <= clock
    BY <2>1, <2>2, EnvNumbers DEF BoundInv, SnapInv
  <2>4. view.born <= clock' /\ env.born <= clock'
    BY <1>2, <2>3
  <2>5. envsView'[n] = view \/ envsView'[n] = env
    BY <1>1, <2>1, <2>2 DEF RestMoves
  <2> QED
    BY <2>4, <2>5
<1>4. ASSUME NEW m \in Names, NEW n \in Names, envs'[m].exists,
             envs'[m].born < envsView'[n].born
      PROVE  envsView'[m].uid = envs'[m].uid
  <2>1. CASE envsView' = envs /\ UNCHANGED envs
    BY <2>1
  <2>2. CASE envsView' = envsView
    <3>1. CASE envs'[m] = envs[m]
      BY <1>4, <2>2, <3>1 DEF SnapInv
    <3>2. ASSUME NEW new \in Env, envs'[m] = new, Fresh(m, new) PROVE FALSE
      <4>1. PICK view \in Env : view = envsView[n]
        BY DEF TypeInv
      <4>2. view.born \in Nat /\ view.born <= clock
        BY <4>1, EnvNumbers DEF SnapInv
      <4>3. clock < view.born
        BY <1>4, <2>2, <3>2, <4>1 DEF Fresh
      <4> QED
        BY <1>2, <4>2, <4>3
    <3>3. ASSUME NEW new \in Env, envs'[m] = new, Edited(m, new)
          PROVE  envsView[m].uid = new.uid
      BY <1>4, <2>2, <3>3 DEF Edited, Changed, SnapInv
    <3> QED
      BY <1>1, <2>2, <3>1, <3>2, <3>3, EnvMoves
  <2> QED
    BY <1>1, <2>1, <2>2 DEF RestMoves
<1> QED
  BY <1>3, <1>4 DEF SnapInv

(* No second is used twice.                                                  *)
LEMMA BirthStep ==
  ASSUME ~SharedSeconds
  PROVE  TypeInv /\ BoundInv /\ ViewInv /\ BirthInv /\ [AdmNext]_admVars => BirthInv'
<1> SUFFICES ASSUME TypeInv, BoundInv, ViewInv, BirthInv, [AdmNext]_admVars
             PROVE  BirthInv'
  OBVIOUS
<1>1. EnvsMove
  BY EnvStep
<1>2. clock \in Nat /\ clock' \in Nat /\ clock <= clock'
  BY <1>1, ClockMoves
<1>3. ASSUME NEW m \in Names, NEW n \in Names, envs'[m].exists, envs'[n].exists
      PROVE  envs'[n].born < clock' /\ (m # n => envs'[m].born # envs'[n].born)
  <2>1. CASE envs' = envs
    <3>1. PICK env \in Env : env = envs[n]
      BY DEF TypeInv
    <3>2. env.born \in Nat /\ env.born < clock
      BY <1>3, <2>1, <3>1, EnvNumbers DEF BirthInv
    <3>3. env.born < clock'
      BY <1>2, <3>2
    <3> QED
      BY <1>3, <2>1, <3>1, <3>3 DEF BirthInv
  <2>2. ASSUME NEW k \in Names, NEW new \in Env,
               envs' = [envs EXCEPT ![k] = new], Edited(k, new)
        PROVE  envs'[n].born < clock' /\ (m # n => envs'[m].born # envs'[n].born)
    <3>1. clock' = clock /\ new.born = envs[k].born /\ (new.exists => envs[k].exists)
      BY <2>2 DEF Edited, Changed
    <3>2. /\ envs[m].exists /\ envs[n].exists
          /\ envs'[m].born = envs[m].born /\ envs'[n].born = envs[n].born
      BY <1>3, <2>2, <3>1 DEF TypeInv
    <3> QED
      BY <3>1, <3>2 DEF BirthInv
  <2>3. ASSUME NEW k \in Names, NEW new \in Env,
               envs' = [envs EXCEPT ![k] = new], Fresh(k, new)
        PROVE  envs'[n].born < clock' /\ (m # n => envs'[m].born # envs'[n].born)
    <3>1. clock' = clock + 1 /\ new.born = clock
      BY <2>3 DEF Fresh
    <3>2. ASSUME NEW j \in Names, envs'[j].exists, j # k
          PROVE  envs'[j].born \in Nat /\ envs'[j].born < clock /\ envs'[j] = envs[j]
      <4>1. envs'[j] = envs[j]
        BY <2>3, <3>2 DEF TypeInv
      <4>2. envs[j] \in Env /\ envs[j].born < clock
        BY <3>2, <4>1 DEF TypeInv, BirthInv
      <4> QED
        BY <4>1, <4>2, EnvNumbers
    <3>3. envs'[k].born = clock
      BY <2>3, <3>1 DEF TypeInv
    <3>4. ASSUME NEW j \in Names, envs'[j].exists PROVE envs'[j].born < clock'
      <4>1. CASE j = k
        BY <1>2, <3>1, <3>3, <4>1
      <4>2. CASE j # k
        <5>1. envs'[j].born \in Nat /\ envs'[j].born < clock
          BY <3>2, <3>4, <4>2
        <5> QED
          BY <1>2, <3>1, <5>1
      <4> QED
        BY <4>1, <4>2
    <3>5. CASE m # n /\ m # k /\ n # k
      <4>1. envs'[m] = envs[m] /\ envs'[n] = envs[n]
        BY <1>3, <3>2, <3>5
      <4>2. envs[m].born # envs[n].born
        BY <1>3, <3>5, <4>1 DEF BirthInv
      <4> QED
        BY <1>3, <3>4, <4>1, <4>2
    <3>6. CASE m # n /\ (m = k \/ n = k)
      <4>1. PICK j \in Names : j # k /\ envs'[j].exists
                               /\ {m, n} = {j, k}
        BY <1>3, <3>6
      <4>2. envs'[j].born \in Nat /\ envs'[j].born < clock
        BY <3>2, <4>1
      <4>3. envs'[j].born # envs'[k].born
        BY <1>2, <3>3, <4>2
      <4> QED
        BY <1>3, <3>4, <3>6, <4>1, <4>3
    <3> QED
      BY <1>3, <3>4, <3>5, <3>6
  <2> QED
    BY <1>1, <2>1, <2>2, <2>3 DEF EnvsMove
<1> QED
  BY <1>3 DEF BirthInv

(* A name keeps its rank while it is the same environment's.                 *)
LEMMA OlderStays ==
  ASSUME TypeInv, BoundInv, EnvsMove, NEW n \in Names, Live(n)',
         envs'[n].uid = envs[n].uid
  PROVE  Live(n) /\ Older(n)' \subseteq Older(n)
<1>1. clock \in Nat /\ clock' \in Nat /\ clock <= clock'
  BY ClockMoves
<1>2. PICK old \in Env : old = envs[n]
  BY DEF TypeInv
<1>3. old.born \in Nat /\ old.born <= clock
  BY <1>2, EnvNumbers DEF BoundInv
<1>4. Live(n) /\ envs'[n].born = old.born
  <2>1. CASE envs'[n] = envs[n]
    BY <1>2, <2>1 DEF Live
  <2>2. ASSUME NEW new \in Env, envs'[n] = new, Fresh(n, new) PROVE FALSE
    <3>1. new.uid = old.uid + 1 /\ new.uid = old.uid
      BY <1>2, <2>2 DEF Fresh
    <3> QED
      BY <3>1, EnvNumbers
  <2>3. ASSUME NEW new \in Env, envs'[n] = new, Edited(n, new)
        PROVE  Live(n) /\ new.born = old.born
    BY <1>2, <2>3 DEF Edited, Changed, Live
  <2> QED
    BY <2>1, <2>2, <2>3, EnvMoves
<1>5. ASSUME NEW m \in Names, Live(m)', envs'[m].born < old.born
      PROVE  Live(m) /\ envs[m].born < old.born
  <2>1. CASE envs'[m] = envs[m]
    BY <1>5, <2>1 DEF Live
  <2>2. ASSUME NEW new \in Env, envs'[m] = new, Fresh(m, new) PROVE FALSE
    <3>1. clock < old.born
      BY <1>5, <2>2 DEF Fresh
    <3> QED
      BY <1>1, <1>3, <3>1
  <2>3. ASSUME NEW new \in Env, envs'[m] = new, Edited(m, new)
        PROVE  Live(m) /\ envs[m].born < old.born
    BY <1>5, <2>3 DEF Edited, Changed, Live
  <2> QED
    BY <2>1, <2>2, <2>3, EnvMoves
<1> QED
  BY <1>2, <1>4, <1>5 DEF Older

(* Whoever passes the quota is judged by a cache that shows all who are      *)
(* older, or had passed it before.                                           *)
LEMMA AdmissibleRank ==
  ASSUME TypeInv, BoundInv, ViewInv, AdoptedInv, SnapInv, RankInv, NEW n \in Names,
         Admissible(n), Live(n), envs[n].uid = envsView[n].uid, stacks[n] # envs[n].uid
  PROVE  Cardinality(Older(n)) < MaxEnvironments
<1>1. PICK view \in Env : view = envsView[n]
  BY DEF TypeInv
<1>2. PICK env \in Env : env = envs[n]
  BY DEF TypeInv
<1>3. /\ env.uid = view.uid /\ env.exists /\ ~env.deleting /\ env.sound
      /\ env.uid \in Nat /\ view.born \in Nat
  BY <1>1, <1>2, EnvNumbers DEF Live
<1>4. Changed(view, env)
  BY <1>1, <1>2, <1>3 DEF ViewInv, Later
<1>5. CASE AlreadyAdmitted(view)
  <2>1. view.sound /\ ~view.deleting /\ view.adopted # "own"
    BY <1>2, <1>3, <1>4 DEF Changed, AdoptedInv
  <2>2. view.adopted = "none"
    BY <1>1, <2>1 DEF ViewInv, Sane, Env
  <2>3. view.reason = "Started"
    BY <1>1, <1>5, <2>1, <2>2 DEF AlreadyAdmitted, ViewInv, Sane
  <2>4. Passed(n)
    BY <1>1, <2>3 DEF Passed
  <2> QED
    BY <2>4 DEF RankInv
<1>6. CASE ~AlreadyAdmitted(view)
  <2> DEFINE Others == {m \in Names \ {n} : Present(m) /\ Ahead(m, n)}
  <2>1. Cardinality(Others) < MaxEnvironments
    BY <1>1, <1>6 DEF Admissible, WithinQuota
  <2>2. ASSUME NEW m \in Names, Live(m), envs[m].born < env.born
        PROVE  m \in Others
    <3>1. PICK other \in Env : other = envs[m]
      BY DEF TypeInv
    <3>2. PICK seen \in Env : seen = envsView[m]
      BY DEF TypeInv
    <3>3. view.born = env.born
      BY <1>4 DEF Changed
    <3>4. other.exists /\ ~other.deleting /\ other.born < view.born
      BY <2>2, <3>1, <3>3 DEF Live
    <3>5. seen.uid = other.uid
      BY <1>1, <3>1, <3>2, <3>4 DEF SnapInv
    <3>6. Changed(seen, other)
      <4>1. seen.uid \in Nat
        BY EnvNumbers
      <4> QED
        BY <3>1, <3>2, <3>5, <4>1 DEF ViewInv, Later
    <3>7. m # n
      BY <1>2, <1>3, <3>1, <3>3, <3>4
    <3> QED
      BY <1>1, <3>2, <3>4, <3>6, <3>7 DEF Changed, Present, Ahead
  <2>3. Older(n) \subseteq Others
    BY <1>2, <2>2 DEF Older
  <2>4. IsFiniteSet(Others)
    BY AdmissionAssumption, FS_Subset
  <2>5. /\ Cardinality(Older(n)) <= Cardinality(Others)
        /\ Cardinality(Older(n)) \in Nat /\ Cardinality(Others) \in Nat
    BY <2>3, <2>4, FS_Subset, FS_CardinalityType
  <2> QED
    BY <2>1, <2>5, Numbers
<1> QED
  BY <1>5, <1>6

(* Whoever has passed the quota after a step had passed it before, or is     *)
(* admissible.                                                               *)
LEMMA PassedMoves ==
  ASSUME TypeInv, BoundInv, ViewInv, EnvsMove, RestMoves, NEW n \in Names,
         Live(n)', Passed(n)'
  PROVE  /\ envs'[n].uid = envs[n].uid
         /\ \/ Passed(n)
            \/ Admissible(n) /\ envs[n].uid = envsView[n].uid /\ stacks[n] # envs[n].uid
<1>1. PICK old \in Env : old = envs[n]
  BY DEF TypeInv
<1>2. PICK view \in Env : view = envsView[n]
  BY DEF TypeInv
<1>3. /\ old.uid \in Nat /\ view.uid \in Nat /\ view.uid <= old.uid
      /\ old.exists => old.uid > 0
  BY <1>1, <1>2, EnvNumbers DEF ViewInv, Later, Changed, BoundInv
<1>4. stacks[n] \in Nat /\ stacks[n] <= old.uid
  <2>1. stacks[n] \in Uids
    BY DEF TypeInv
  <2>2. stacks[n] \in Nat
    BY <2>1, Numbers
  <2> QED
    BY <1>1, <2>2 DEF BoundInv
<1>5. stacks'[n] \in {stacks[n], 0} \/ (Admit(n) /\ stacks'[n] = view.uid)
  BY <1>2, StackMoves DEF Admit, ReleaseEnvOf, CollectStack, TypeInv
<1>6. envsView'[n] = view \/ (envsView'[n] = old /\ envs' = envs)
  BY <1>1, <1>2 DEF RestMoves
<1>7. ASSUME NEW new \in Env, envs'[n] = new, Fresh(n, new) PROVE FALSE
  <2>1. new.uid = old.uid + 1 /\ new.reason = ""
    BY <1>1, <1>7 DEF Fresh
  <2>4. new.uid = old.uid + 1
    BY <2>1
  <2>2. stacks'[n] # new.uid
    <3>1. ~(new.uid <= old.uid) /\ 0 <= old.uid
      BY <1>3, <2>4
    <3>2. stacks'[n] <= old.uid
      BY <1>3, <1>4, <1>5, <3>1
    <3> QED
      BY <3>1, <3>2
  <2>3. envsView'[n].uid # new.uid
    <3>1. ~(new.uid <= old.uid) /\ old.uid <= old.uid
      BY <1>3, <2>4
    <3>2. envs' # envs
      <4>1. new # old
        BY <3>1
      <4> QED
        BY <1>1, <1>7, <4>1
    <3>3. envsView'[n].uid = view.uid
      BY <1>6, <3>2
    <3> QED
      BY <1>3, <3>1, <3>3
  <2> QED
    BY <1>7, <2>1, <2>2, <2>3 DEF Passed
<1>8. ASSUME NEW new \in Env, envs'[n] = new, new = old \/ Edited(n, new)
      PROVE  /\ new.uid = old.uid
             /\ \/ Passed(n)
                \/ Admissible(n) /\ old.uid = view.uid /\ stacks[n] # old.uid
  <2>1. new.uid = old.uid /\ (new.exists => old.exists)
    BY <1>1, <1>8 DEF Edited, Changed
  <2>2. new.exists /\ new.sound
    BY <1>8 DEF Live
  <2>3. CASE stacks'[n] = new.uid
    <3>1. CASE stacks'[n] \in {stacks[n], 0}
      BY <1>1, <1>3, <2>1, <2>2, <2>3, <3>1 DEF Passed
    <3>2. CASE Admit(n) /\ stacks'[n] = view.uid
      <4>1. Admissible(n) /\ stacks[n] = 0
        BY <3>2 DEF Admit
      <4> QED
        BY <1>3, <2>1, <2>2, <2>3, <3>2, <4>1
    <3> QED
      BY <1>5, <3>1, <3>2
  <2>4. CASE new.reason = "Started"
    <3>1. CASE new = old
      BY <1>1, <2>1, <2>4, <3>1 DEF Passed
    <3>2. CASE Edited(n, new) /\ MeetConflict(n) /\ old.uid = view.uid
      BY <1>2, <2>1, <3>2 DEF MeetConflict
    <3>3. CASE Edited(n, new) /\ ~MeetConflict(n)
      BY <1>1, <2>1, <2>2, <2>4, <3>3 DEF Edited, Passed
    <3>4. CASE MeetConflict(n) /\ old.uid # view.uid
      <4>1. envs' = envs
        BY <1>1, <1>2, <3>4 DEF MeetConflict, Reports, UpdateEnvOf, TypeInv
      <4> QED
        BY <1>1, <1>8, <2>1, <2>4, <4>1 DEF Passed
    <3> QED
      BY <1>8, <3>1, <3>2, <3>3, <3>4
  <2>5. CASE envsView'[n].uid = new.uid /\ envsView'[n].reason = "Started"
    <3>1. CASE envsView'[n] = view
      BY <1>1, <1>2, <2>1, <2>5, <3>1 DEF Passed
    <3>2. CASE envsView'[n] = old
      BY <1>1, <2>1, <2>5, <3>2 DEF Passed
    <3> QED
      BY <1>6, <3>1, <3>2
  <2> QED
    BY <1>8, <2>1, <2>3, <2>4, <2>5 DEF Passed
<1> QED
  BY <1>1, <1>2, <1>7, <1>8, EnvMoves

(* So every rank is below the maximum.                                       *)
LEMMA RankStep ==
  TypeInv /\ BoundInv /\ ViewInv /\ AdoptedInv /\ SnapInv /\ RankInv /\ [AdmNext]_admVars
    => RankInv'
<1> SUFFICES ASSUME TypeInv, BoundInv, ViewInv, AdoptedInv, SnapInv, RankInv,
                    [AdmNext]_admVars, NEW n \in Names, Live(n)', Passed(n)'
             PROVE  Cardinality(Older(n)') < MaxEnvironments
  BY DEF RankInv
<1>1. EnvsMove /\ RestMoves
  BY EnvStep, RestStep
<1>2. /\ envs'[n].uid = envs[n].uid
      /\ \/ Passed(n)
         \/ Admissible(n) /\ envs[n].uid = envsView[n].uid /\ stacks[n] # envs[n].uid
  BY <1>1, PassedMoves
<1>3. Live(n) /\ Older(n)' \subseteq Older(n)
  BY <1>1, <1>2, OlderStays
<1>4. Cardinality(Older(n)) < MaxEnvironments
  BY <1>2, <1>3, AdmissibleRank DEF RankInv
<1>5. IsFiniteSet(Older(n))
  BY AdmissionAssumption, FS_Subset DEF Older
<1>6. /\ Cardinality(Older(n)') <= Cardinality(Older(n))
      /\ Cardinality(Older(n)') \in Nat /\ Cardinality(Older(n)) \in Nat
  BY <1>3, <1>5, FS_Subset, FS_CardinalityType
<1> QED
  BY <1>4, <1>6, Numbers

(* A set of numbers has a least one.                                         *)
LEMMA Smallest ==
  ASSUME NEW S \in SUBSET Nat, S # {}
  PROVE  \E x \in S : \A y \in S : x <= y
<1> DEFINE R == {ss \in Nat \X Nat : ss[1] < ss[2]}
<1>1. IsWellFoundedOn(R, Nat)
  BY NatLessThanWellFounded DEF OpToRel
<1> HIDE DEF R
<1>2. PICK x \in S : \A y \in S : ~ (<<y, x>> \in R)
  BY <1>1, WFMin
<1>3. ASSUME NEW y \in S PROVE x <= y
  <2>1. <<y, x>> \in Nat \X Nat /\ ~ (y < x)
    BY <1>2 DEF R
  <2>2. x \in Nat /\ y \in Nat
    OBVIOUS
  <2> QED
    BY <2>1, <2>2
<1> QED
  BY <1>3

(* The youngest of those who were admitted has the others before it.         *)
LEMMA RankBoundsQuota ==
  TypeInv /\ BoundInv /\ BirthInv /\ RankInv => ClassedWithinQuota
<1> SUFFICES ASSUME TypeInv, BoundInv, BirthInv, RankInv PROVE ClassedWithinQuota
  OBVIOUS
<1> DEFINE Counted == {n \in Admitted : envs[n].sound}
<1>1. ASSUME NEW n \in Counted
      PROVE  /\ n \in Names /\ Live(n) /\ stacks[n] = envs[n].uid /\ envs[n].exists
             /\ envs[n].born \in Nat /\ envs[n].born < clock
  <2>1. n \in Names /\ Live(n) /\ stacks[n] = envs[n].uid /\ envs[n].exists
    BY DEF Admitted, Live
  <2> QED
    BY <2>1, EnvNumbers DEF BirthInv, TypeInv
<1>2. IsFiniteSet(Counted)
  <2>1. Counted \subseteq Names
    BY DEF Admitted
  <2> QED
    BY <2>1, AdmissionAssumption, FS_Subset
<1>3. CASE Counted = {}
  <2>1. Cardinality(Counted) = 0
    BY <1>3, FS_EmptySet
  <2> QED
    BY <2>1, Numbers DEF ClassedWithinQuota
<1>4. CASE Counted # {}
  <2>1. clock \in Nat
    BY Numbers DEF TypeInv
  <2> DEFINE Age(n) == clock - envs[n].born
             Ages == {Age(n) : n \in Counted}
  <2>2. \A n \in Counted : Age(n) \in Nat
    BY <1>1, <2>1
  <2>3. Ages \in SUBSET Nat /\ Ages # {}
    BY <1>4, <2>2
  <2> HIDE DEF Ages
  <2>4. PICK age \in Ages : \A other \in Ages : age <= other
    BY <2>3, Smallest
  <2>5. PICK n \in Counted : \A m \in Counted : Age(n) <= Age(m)
    BY <2>4 DEF Ages
  <2>6. ASSUME NEW m \in Counted \ {n} PROVE m \in Older(n)
    <3>1. /\ envs[m].born \in Nat /\ envs[n].born \in Nat /\ m \in Names /\ n \in Names
          /\ Live(m) /\ envs[m].exists /\ envs[n].exists
      BY <1>1
    <3>2. envs[m].born # envs[n].born
      BY <2>6, <3>1 DEF BirthInv
    <3>3. clock - envs[n].born <= clock - envs[m].born
      BY <2>5
    <3>4. envs[m].born < envs[n].born
      BY <2>1, <3>1, <3>2, <3>3
    <3> QED
      BY <3>1, <3>4 DEF Older
  <2> HIDE DEF Counted
  <2>7. Counted \ {n} \subseteq Older(n)
    BY <2>6
  <2>8. IsFiniteSet(Older(n))
    BY AdmissionAssumption, FS_Subset DEF Older
  <2>9. /\ Cardinality(Counted \ {n}) <= Cardinality(Older(n))
        /\ Cardinality(Older(n)) \in Nat
    BY <2>7, <2>8, FS_Subset, FS_CardinalityType
  <2>10. Cardinality(Older(n)) < MaxEnvironments
    BY <1>1 DEF RankInv, Passed
  <2>11. Cardinality(Counted \ {n}) = Cardinality(Counted) - 1 /\ Cardinality(Counted) \in Nat
    BY <1>2, <2>5, FS_RemoveElement, FS_CardinalityType
  <2>12. Cardinality(Counted) <= MaxEnvironments
    BY <2>9, <2>10, <2>11, Numbers
  <2> QED
    BY <2>12 DEF Counted, ClassedWithinQuota
<1> QED
  BY <1>3, <1>4

-----------------------------------------------------------------------------
(* The theorems                                                              *)

(* What every state satisfies.                                               *)
AdmInv ==
  /\ TypeInv /\ BoundInv /\ ViewInv /\ GuardedInv
  /\ CheckedInv /\ KnownInv /\ KnownUsersKeepClass
  /\ AdoptedInv /\ SnapInv

(* When no two environments are created in one second.                       *)
QuotaInv == AdmInv /\ BirthInv /\ RankInv

(* The initial state has no environment.                                     *)
LEMMA AdmInitInv ==
  AdmInit => QuotaInv
<1> SUFFICES ASSUME AdmInit PROVE QuotaInv
  OBVIOUS
<1>1. /\ 0 \in Uids /\ 1 \in Uids /\ 0 \in Clock /\ 0 \in 0..MaxOps
  BY Numbers DEF Uids, Clock
<1>2. NoEnv \in Env /\ class \in Class
  BY <1>1, NoEnvIsEnv DEF AdmInit, Class
<1>3. \A n \in Names : envs[n] = NoEnv /\ envsView[n] = NoEnv /\ stacks[n] = 0
  BY DEF AdmInit
<1>4. TypeInv
  BY <1>1, <1>2 DEF AdmInit, TypeInv, Requests
<1>5. /\ NoEnv.uid = 0 /\ NoEnv.born = 0 /\ ~NoEnv.exists
      /\ NoEnv.spec = "neither" /\ NoEnv.since = 0 /\ NoEnv.gen = 0 /\ ~NoEnv.sound
  BY DEF NoEnv
<1>6. BoundInv
  BY <1>3, <1>5 DEF AdmInit, BoundInv
<1>7. ViewInv
  <2>1. NoEnv.spec \notin Using /\ ~(NoEnv.since > 0) /\ NoEnv.since <= NoEnv.gen
    <3>1. ~(0 > 0) /\ 0 <= 0
      OBVIOUS
    <3>2. "neither" \notin Using
      BY DEF Using
    <3> QED
      BY <1>5, <3>1, <3>2
  <2>2. Sane(NoEnv)
    BY <1>5, <2>1 DEF Sane
  <2>3. Later(NoEnv, NoEnv)
    BY <1>2, LaterReflexive
  <2> QED
    BY <1>3, <2>2, <2>3 DEF ViewInv
<1>8. GuardedInv
  BY <1>3, <1>5 DEF AdmInit, GuardedInv
<1>9. CheckedInv /\ KnownInv /\ KnownUsersKeepClass
  BY DEF AdmInit, CheckedInv, NoRequest, KnownInv, KnownUsersKeepClass
<1>10. AdoptedInv /\ SnapInv /\ BirthInv
  BY <1>3, <1>5 DEF AdmInit, AdoptedInv, SnapInv, BirthInv
<1>11. RankInv
  BY <1>3, <1>5 DEF RankInv, Live
<1> QED
  BY <1>4, <1>6, <1>7, <1>8, <1>9, <1>10, <1>11 DEF AdmInv, QuotaInv

(* Every step keeps it.                                                      *)
LEMMA AdmInvStep ==
  AdmInv /\ [AdmNext]_admVars => AdmInv'
BY TypeStep, BoundStep, ViewStep, GuardedStep, CheckedStep, KnownStep, KnownUsersStep,
   AdoptedStep, SnapStep DEF AdmInv

(* So every state satisfies it.                                              *)
THEOREM AdmInvariant == AdmSpec => []AdmInv
<1>1. AdmInit => AdmInv
  BY AdmInitInv DEF QuotaInv
<1> QED
  BY <1>1, AdmInvStep, PTL DEF AdmSpec

(* Classes, environments and requests keep their types, and a class that is  *)
(* ready and an environment with a stack are protected by their finalizers.  *)
THEOREM AdmTypeCorrect == AdmSpec => []AdmTypeOK
<1>1. AdmInv => AdmTypeOK
  BY DEF AdmInv, TypeInv, GuardedInv, AdmTypeOK
<1> QED
  BY <1>1, AdmInvariant, PTL

(* A class stays as long as an environment does that was known to use it     *)
(* when it was told to go and has named it ever since.                       *)
THEOREM KnownUsersKeep == AdmSpec => []KnownUsersKeepClass
<1>1. AdmInv => KnownUsersKeepClass
  BY DEF AdmInv
<1> QED
  BY <1>1, AdmInvariant, PTL

(* The console changes the object its page showed.                           *)
THEOREM ConsoleActsOnSeen == AdmSpec => ConsoleActsOnWhatWasSeen
<1> DEFINE Right ==
      /\ Acts("updateEnvironment") \/ Acts("deleteEnvironment")
           => envs[request.on].uid = request.seen.uid
      /\ Acts("updateEnvironment") => envs[request.on].gen = request.seen.gen
      /\ Acts("deleteClass") => class.uid = request.seen.uid
<1>1. AdmInv /\ [AdmNext]_admVars => [Right]_admVars
  <2> SUFFICES ASSUME AdmInv, AdmNext,
                      NEW kind \in {"updateEnvironment", "deleteEnvironment", "deleteClass"},
                      Acts(kind)
               PROVE  /\ kind # "deleteClass" => envs[request.on].uid = request.seen.uid
                      /\ kind = "updateEnvironment"
                           => envs[request.on].gen = request.seen.gen
                      /\ kind = "deleteClass" => class.uid = request.seen.uid
    BY DEF admVars
  <2>1. request.kind = kind /\ request' = NoRequest /\ ops' # ops /\ request' # request
    BY DEF Acts, NoRequest
  <2>2. CASE UpdateEnvironment
    <3>1. /\ request.kind = "updateEnvironment" /\ request.step = "checked"
          /\ envs[request.on] = request.got
      BY <2>1, <2>2 DEF UpdateEnvironment
    <3> QED
      BY <2>1, <3>1 DEF AdmInv, CheckedInv
  <2>3. CASE DeleteEnvironment
    BY <2>1, <2>3 DEF DeleteEnvironment
  <2>4. CASE DeleteClass
    <3>1. /\ request.kind = "deleteClass" /\ request.step = "checked"
          /\ class = request.got
      BY <2>1, <2>4 DEF DeleteClass
    <3> QED
      BY <2>1, <3>1 DEF AdmInv, CheckedInv
  <2>5. CASE Console /\ ~UpdateEnvironment /\ ~DeleteEnvironment /\ ~DeleteClass
    BY <2>1, <2>5 DEF Console, SubmitCreate, ShowEnv, ShowClass, SubmitOnEnv,
       SubmitDeleteClass, OnlyRequest, CreateEnvironment
  <2>6. CASE ClassController \/ UserOfClass \/ CacheClass \/ CacheEnvs
    BY <2>1, <2>6 DEF ClassController, RefuseRelease, ReleaseClass, ProtectClass,
       ValidateClass, ForgetClass, UpdateClass, UserOfClass, CacheClass, CacheEnvs
  <2>7. ASSUME NEW n \in Names, EnvController(n) \/ CollectStack(n) \/ UserOfEnv(n)
        PROVE  FALSE
    BY <2>1, <2>7 DEF EnvController, ProtectEnv, RejectMode, AdoptLegacy, MissClass,
       RejectByClass, RejectByQuota, Admit, RecordAdmission, MeetConflict,
       ReportDeletion, ReleaseEnvOf, CollectStack, Reports, UpdateEnvOf, UserOfEnv
  <2> QED
    BY <2>2, <2>3, <2>4, <2>5, <2>6, <2>7 DEF AdmNext
<1> QED
  BY <1>1, AdmInvariant, PTL DEF AdmSpec, ConsoleActsOnWhatWasSeen

(* The quota holds for those who have been of Class Mode from the start,     *)
(* however far the cache lags, when no two environments are created in one   *)
(* second.                                                                   *)
THEOREM QuotaHolds ==
  ~SharedSeconds => (AdmSpec => []ClassedWithinQuota)
<1> SUFFICES ASSUME ~SharedSeconds PROVE AdmSpec => []ClassedWithinQuota
  OBVIOUS
<1>1. AdmInit => QuotaInv
  BY AdmInitInv
<1>2. QuotaInv /\ [AdmNext]_admVars => QuotaInv'
  BY AdmInvStep, BirthStep, RankStep DEF QuotaInv, AdmInv
<1>3. QuotaInv => ClassedWithinQuota
  BY RankBoundsQuota DEF QuotaInv, AdmInv
<1> QED
  BY <1>1, <1>2, <1>3, PTL DEF AdmSpec
=============================================================================
