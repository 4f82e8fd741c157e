------------------------------ MODULE Admission -------------------------------
(***************************************************************************)
(* An EnvironmentClass, the environments of one tenant namespace that ask  *)
(* for it, and who changes them: the controllers of classes and of         *)
(* environments, which read caches, the console, which reads the API       *)
(* server, and users with clients of their own.                            *)
(*                                                                         *)
(* An environment is admitted when its InfraStack has been created; what   *)
(* follows is the subject of Environment.                                  *)
(***************************************************************************)
EXTENDS Naturals, FiniteSets

CONSTANTS
  Names,            \* names of environments
  Rank,             \* their order as strings
  MaxEnvironments,  \* the quota of the tenant, and the limit of the class
  Careless,         \* environments whose users write specs of any form
  SharedSeconds,    \* may environments be created in the same second?
  MaxOps            \* bound: how often users and the console change anything

ASSUME AdmissionAssumption ==
  /\ IsFiniteSet(Names)
  /\ Rank \in [Names -> Nat]
  /\ \A m, n \in Names : Rank[m] = Rank[n] => m = n
  /\ MaxEnvironments \in Nat \ {0} /\ MaxOps \in Nat
  /\ Careless \subseteq Names /\ SharedSeconds \in BOOLEAN

VARIABLES
  class,      \* the class in the API server, see Class
  classView,  \* the class as the cache shows it
  envs,       \* the environments in the API server, see Env
  envsView,   \* the environments as the cache shows them
  stacks,     \* by name, whose InfraStack there is: the UID of its
              \* environment, or 0
  due,        \* whether the class is queued for its controller
  request,    \* the request the console is working on, see Requests
  users,      \* history: whom the cache showed when the class was to go
  clock,      \* seconds
  ops         \* how often users and the console have changed anything

admVars ==
  <<class, classView, envs, envsView, stacks, due, request, users, clock, ops>>

-----------------------------------------------------------------------------
Uids == 0..(MaxOps + 1)
Clock == 0..MaxOps

(* Its spec never changes: the CRD makes it immutable. *)
Class ==
  [exists : BOOLEAN, uid : Uids, deleting : BOOLEAN, finalizer : BOOLEAN,
   reason : {"", "ClassValidated", "ClassInUse"}]

NoClass ==
  [exists |-> FALSE, uid |-> 0, deleting |-> FALSE, finalizer |-> FALSE,
   reason |-> ""]

(* What a spec asks for: this class, within what it allows or not, another   *)
(* class (that is installed, and stays so), an InfraStack and a target of    *)
(* its own (legacy mode), a class and those, or neither.                     *)
Specs == {"fit", "misfit", "other", "legacy", "both", "neither"}

ClassMode == {"fit", "misfit", "other"}
Using == {"fit", "misfit", "both"}   \* classRef names this class

(* Started stands for all reasons an environment gets after it passed the    *)
(* quota, adopted for status.infraStackRef.  History: since is the           *)
(* generation from which on the spec has named this class, or 0, and sound   *)
(* says whether it has been of Class Mode from the start.                    *)
Env ==
  [exists : BOOLEAN, uid : Uids, gen : Nat, deleting : BOOLEAN,
   finalizer : BOOLEAN, spec : Specs, since : Nat, sound : BOOLEAN,
   born : Clock, adopted : {"none", "own", "legacy"},
   reason : {"", "InvalidSpec", "ClassNotFound", "ClassRejected",
             "QuotaRejected", "Started", "Deleting"}]

NoEnv ==
  [exists |-> FALSE, uid |-> 0, gen |-> 0, deleting |-> FALSE,
   finalizer |-> FALSE, spec |-> "neither", since |-> 0, sound |-> FALSE,
   born |-> 0, adopted |-> "none", reason |-> ""]

(* A spec that is written is a new generation.                               *)
Written(e, spec) ==
  [e EXCEPT !.spec = spec, !.gen = @ + 1,
            !.since = IF spec \notin Using THEN 0
                      ELSE IF e.since > 0 THEN e.since ELSE e.gen + 1,
            !.sound = @ /\ spec \in ClassMode]

NewEnv(n, spec) ==
  [Written([NoEnv EXCEPT !.sound = TRUE], spec)
     EXCEPT !.exists = TRUE, !.uid = envs[n].uid + 1, !.born = clock]

(* A page of the console shows a class or an environment.  A request that is *)
(* sent from it says what it has seen, is checked against what the console   *)
(* reads then (got), and takes effect later.                                 *)
NoRequest == [kind |-> "none"]

Seen == [uid : Uids, gen : Nat]

Requests ==
  {NoRequest}
    \cup [kind : {"createEnvironment"}, on : Names, step : {"checked"}]
    \cup [kind : {"updateEnvironment", "deleteEnvironment"}, on : Names,
          step : {"shown", "checked"}, seen : Seen, got : Env]
    \cup [kind : {"deleteClass"}, step : {"shown", "checked"},
          seen : [uid : Uids], got : Class]

(* The class has been installed and validated. *)
AdmInit ==
  /\ class = [exists |-> TRUE, uid |-> 1, deleting |-> FALSE,
              finalizer |-> TRUE, reason |-> "ClassValidated"]
  /\ classView = class
  /\ envs = [n \in Names |-> NoEnv] /\ envsView = envs
  /\ stacks = [n \in Names |-> 0]
  /\ due = FALSE /\ request = NoRequest /\ users = {}
  /\ clock = 0 /\ ops = 0

-----------------------------------------------------------------------------
(* The controller of classes. *)

Uses(e) == e.exists /\ e.spec \in Using

(* Mutant: environments that are on their way out are not counted. *)
UsageOfSettled == Cardinality({n \in Names : Uses(envsView[n]) /\ ~envsView[n].deleting})

Usage == Cardinality({n \in Names : Uses(envsView[n])})

(* An update fails on conflict when the class was read stale; the class then *)
(* stays in the queue, and so it does when the step asks for another one.    *)
UpdateClass(new, again) ==
  /\ class' = IF class = classView THEN new ELSE class
  /\ due' = (again \/ class # classView)
  /\ UNCHANGED <<classView, envs, envsView, stacks, request, users, clock, ops>>

ClassTurn == due /\ classView.exists

RefuseRelease ==
  /\ ClassTurn /\ classView.deleting /\ Usage > 0
  /\ UpdateClass([classView EXCEPT !.reason = "ClassInUse"], FALSE)

ReleaseClass ==
  /\ ClassTurn /\ classView.deleting /\ Usage = 0
  /\ UpdateClass([classView EXCEPT !.finalizer = FALSE, !.exists = FALSE], FALSE)

(* Mutant: a class is validated before it is protected. *)
NoNeedToProtect == FALSE

NeedsProtection == ~classView.finalizer

ProtectClass ==
  /\ ClassTurn /\ ~classView.deleting /\ NeedsProtection
  /\ UpdateClass([classView EXCEPT !.finalizer = TRUE], TRUE)

ValidateClass ==
  /\ ClassTurn /\ ~classView.deleting /\ ~NeedsProtection
  /\ UpdateClass([classView EXCEPT !.reason = "ClassValidated"], FALSE)

(* A class that is gone needs nothing. *)
ForgetClass ==
  /\ due /\ ~classView.exists
  /\ due' = FALSE
  /\ UNCHANGED <<class, classView, envs, envsView, stacks, request, users,
                 clock, ops>>

ClassController ==
  RefuseRelease \/ ReleaseClass \/ ProtectClass \/ ValidateClass \/ ForgetClass

-----------------------------------------------------------------------------
(* The controller of environments, up to the admission. *)

UpdateEnvOf(n, new) ==
  /\ envs' = [envs EXCEPT ![n] = IF @ = envsView[n] THEN new ELSE @]
  /\ UNCHANGED <<class, classView, envsView, stacks, due, request, users,
                 clock, ops>>

Reports(n, reason) == UpdateEnvOf(n, [envsView[n] EXCEPT !.reason = reason])

Present(n) == envsView[n].exists /\ ~envsView[n].deleting

ProtectEnv(n) ==
  /\ Present(n) /\ ~envsView[n].finalizer
  /\ UpdateEnvOf(n, [envsView[n] EXCEPT !.finalizer = TRUE])

Checked(n) == Present(n) /\ envsView[n].finalizer

(* validatePlatformEnvironmentSpec: a class, or what legacy mode needs, and  *)
(* not both.                                                                 *)
RejectMode(n) ==
  /\ Checked(n) /\ envsView[n].spec \in {"both", "neither"}
  /\ Reports(n, "InvalidSpec")

(* An environment of legacy mode has no class to be checked against.         *)
AdoptLegacy(n) ==
  /\ Checked(n) /\ envsView[n].spec = "legacy"
  /\ UpdateEnvOf(n, [envsView[n] EXCEPT !.adopted = "legacy", !.reason = "Started"])

Served(e) == e.spec = "other" \/ classView.exists

MissClass(n) ==
  /\ Checked(n) /\ envsView[n].spec \in ClassMode /\ ~Served(envsView[n])
  /\ Reports(n, "ClassNotFound")

HasClass(n) ==
  Checked(n) /\ envsView[n].spec \in ClassMode /\ Served(envsView[n])

Fits(n) == HasClass(n) /\ envsView[n].spec # "misfit"

RejectByClass(n) == HasClass(n) /\ ~Fits(n) /\ Reports(n, "ClassRejected")

(* environmentAlreadyAdmitted *)
AlreadyAdmitted(e) ==
  \/ e.adopted # "none"
  \/ e.reason \notin {"", "QuotaRejected", "ClassRejected", "ClassNotFound"}

(* Mutant: only environments that were admitted count. *)
AheadIfAdmitted(m, n) == AlreadyAdmitted(envsView[m])

(* Who is ahead of environment n: who was admitted and who asked before.     *)
Ahead(m, n) ==
  LET other == envsView[m]  own == envsView[n]
  IN  \/ AlreadyAdmitted(other)
      \/ other.born < own.born
      \/ other.born = own.born /\ Rank[m] < Rank[n]

WithinQuota(n) ==
  \/ AlreadyAdmitted(envsView[n])
  \/ Cardinality({m \in Names \ {n} : Present(m) /\ Ahead(m, n)})
       < MaxEnvironments

RejectByQuota(n) ==
  Fits(n) /\ ~WithinQuota(n) /\ Reports(n, "QuotaRejected")

(* Mutant: an environment that was rejected is not tried again. *)
AdmissibleOnce(n) ==
  Fits(n) /\ WithinQuota(n) /\ envsView[n].reason # "QuotaRejected"

Admissible(n) == Fits(n) /\ WithinQuota(n)

(* Creates the InfraStack; the status is written in a later reconciliation.  *)
Admit(n) ==
  /\ Admissible(n) /\ stacks[n] = 0
  /\ stacks' = [stacks EXCEPT ![n] = envsView[n].uid]
  /\ UNCHANGED <<class, classView, envs, envsView, due, request, users, clock,
                 ops>>

RecordAdmission(n) ==
  /\ Admissible(n) /\ stacks[n] = envsView[n].uid
  /\ UpdateEnvOf(n, [envsView[n] EXCEPT !.adopted = "own", !.reason = "Started"])

(* Its predecessor's InfraStack is still there (ChildOwnershipConflict).     *)
MeetConflict(n) ==
  /\ Admissible(n) /\ stacks[n] \notin {0, envsView[n].uid}
  /\ Reports(n, "Started")

(* The deletion is reported, takes its course, and ends.  It looks for the   *)
(* InfraStack by the status, or else by the spec, and the cache may not show *)
(* one yet that is not in the status.  One it does not find is left to the   *)
(* garbage collection, one of another environment it waits for.              *)
Finds(e) ==
  \/ e.adopted = "own"
  \/ e.adopted = "none" /\ e.spec \in ClassMode

ReportDeletion(n) ==
  /\ envsView[n].exists /\ envsView[n].deleting
  /\ Reports(n, "Deleting")

ReleaseEnvOf(n) ==
  /\ envsView[n].exists /\ envsView[n].deleting
  /\ envsView[n].reason = "Deleting" /\ envs[n] = envsView[n]
  /\ \E found \in {Finds(envsView[n]), envsView[n].adopted = "own"} :
       /\ found => stacks[n] \in {0, envsView[n].uid}
       /\ stacks' = [stacks EXCEPT ![n] = IF found THEN 0 ELSE @]
  /\ envs' = [envs EXCEPT ![n].exists = FALSE, ![n].finalizer = FALSE]
  /\ UNCHANGED <<class, classView, envsView, due, request, users, clock, ops>>

EnvController(n) ==
  \/ ProtectEnv(n) \/ RejectMode(n) \/ AdoptLegacy(n) \/ MissClass(n)
  \/ RejectByClass(n) \/ RejectByQuota(n) \/ Admit(n) \/ RecordAdmission(n)
  \/ MeetConflict(n) \/ ReportDeletion(n) \/ ReleaseEnvOf(n)

(* The garbage collection of Kubernetes takes what lost its owner.           *)
CollectStack(n) ==
  /\ stacks[n] # 0 /\ ~(envs[n].exists /\ envs[n].uid = stacks[n])
  /\ stacks' = [stacks EXCEPT ![n] = 0]
  /\ UNCHANGED <<class, classView, envs, envsView, due, request, users, clock,
                 ops>>

-----------------------------------------------------------------------------
(* Users with clients of their own; an object without finalizer is gone at   *)
(* once when it is deleted.                                                  *)

Operate == ops < MaxOps /\ ops' = ops + 1

(* Creations in different seconds, unless they may share one. *)
Created(n, new) ==
  /\ envs' = [envs EXCEPT ![n] = new]
  /\ IF SharedSeconds THEN clock' \in {clock, clock + 1} ELSE clock' = clock + 1

SpecsOf(n) == IF n \in Careless THEN Specs ELSE {"fit"}

CreateEnvBy(n) ==
  ~envs[n].exists /\ \E spec \in SpecsOf(n) : Created(n, NewEnv(n, spec))

(* Nothing in a spec is immutable, classRef included, and a spec can be      *)
(* written while the environment is on its way out.                          *)
EditEnvBy(n) ==
  /\ envs[n].exists
  /\ \E spec \in SpecsOf(n) : envs' = [envs EXCEPT ![n] = Written(@, spec)]
  /\ UNCHANGED clock

DeletedEnv(e) == [e EXCEPT !.deleting = TRUE, !.gen = @ + 1, !.exists = e.finalizer]

DeleteEnvBy(n) ==
  /\ envs[n].exists /\ ~envs[n].deleting
  /\ envs' = [envs EXCEPT ![n] = DeletedEnv(@)]
  /\ UNCHANGED clock

UserOfEnv(n) ==
  /\ Operate
  /\ CreateEnvBy(n) \/ EditEnvBy(n) \/ DeleteEnvBy(n)
  /\ UNCHANGED <<class, classView, envsView, stacks, due, request, users>>

(* createClass works the same way for the console and for others. *)
CreateClass ==
  /\ ~class.exists
  /\ class' = [NoClass EXCEPT !.exists = TRUE, !.uid = class.uid + 1]
  /\ users' = {}

ToldToGo ==
  /\ class' = [class EXCEPT !.deleting = TRUE, !.exists = class.finalizer]
  /\ users' = IF class.finalizer
              THEN {<<n, envsView[n].uid, envsView[n].since>> :
                      n \in {m \in Names : Uses(envsView[m])}}
              ELSE {}

DeleteClassBy == class.exists /\ ~class.deleting /\ ToldToGo

UserOfClass ==
  /\ Operate
  /\ CreateClass \/ DeleteClassBy
  /\ UNCHANGED <<classView, envs, envsView, stacks, due, request, clock>>

-----------------------------------------------------------------------------
(* The console. *)

OnlyRequest ==
  UNCHANGED <<class, classView, envs, envsView, stacks, due, users, clock, ops>>

NoPage == request = NoRequest

(* validateEnvironmentRequest: the class is there, not being deleted, ready, *)
(* big enough, and not at its limit.                                         *)
SubmitCreate(n) ==
  /\ NoPage
  /\ class.exists /\ ~class.deleting /\ class.reason = "ClassValidated"
  /\ Cardinality({m \in Names : Uses(envs[m])}) < MaxEnvironments
  /\ request' = [kind |-> "createEnvironment", on |-> n, step |-> "checked"]
  /\ OnlyRequest

ShowEnv(n) ==
  /\ NoPage /\ envs[n].exists
  /\ \E kind \in {"updateEnvironment", "deleteEnvironment"} :
       request' = [kind |-> kind, on |-> n, step |-> "shown",
                   seen |-> [uid |-> envs[n].uid, gen |-> envs[n].gen], got |-> NoEnv]
  /\ OnlyRequest

ShowClass ==
  /\ NoPage /\ class.exists
  /\ request' = [kind |-> "deleteClass", step |-> "shown",
                 seen |-> [uid |-> class.uid], got |-> NoClass]
  /\ OnlyRequest

(* Mutant: the object is identified by its name. *)
SameByName(kind, now, seen) == now.exists

(* UID, and generation for an update. *)
Same(kind, now, seen) ==
  /\ now.exists /\ now.uid = seen.uid
  /\ kind = "updateEnvironment" => now.gen = seen.gen

Updatable(e) ==
  ~e.deleting /\ (e.spec = "other" \/ (e.spec \in Using /\ class.exists))

(* The write of an update is compared with what was read. *)
Kept(now) == IF request.kind = "updateEnvironment" THEN now ELSE NoEnv

SubmitOnEnv ==
  /\ request.kind \in {"updateEnvironment", "deleteEnvironment"}
  /\ request.step = "shown"
  /\ LET now == envs[request.on]
     IN  IF /\ Same(request.kind, now, request.seen)
            /\ request.kind = "updateEnvironment" => Updatable(now)
         THEN request' = [request EXCEPT !.step = "checked", !.got = Kept(now)]
         ELSE request' = NoRequest
  /\ OnlyRequest

SubmitDeleteClass ==
  /\ request.kind = "deleteClass" /\ request.step = "shown"
  /\ IF /\ Same(request.kind, class, request.seen)
        /\ \A n \in Names : ~Uses(envs[n])
     THEN request' = [request EXCEPT !.step = "checked", !.got = class]
     ELSE request' = NoRequest
  /\ OnlyRequest

Answered == request' = NoRequest /\ UNCHANGED <<classView, envsView, stacks, due>>

CreateEnvironment ==
  /\ request.kind = "createEnvironment"
  /\ IF envs[request.on].exists \/ ops = MaxOps
     THEN UNCHANGED <<class, envs, users, clock, ops>>
     ELSE /\ Operate /\ Created(request.on, NewEnv(request.on, "fit"))
          /\ UNCHANGED <<class, users>>
  /\ Answered

(* The update is sent with the resource version that was read, and sets the  *)
(* number of nodes, which may be what the class objected to.                 *)
Resized(spec) == IF spec = "misfit" THEN {"misfit", "fit"} ELSE {spec}

UpdateEnvironment ==
  /\ request.kind = "updateEnvironment" /\ request.step = "checked"
  /\ IF envs[request.on] = request.got /\ ops < MaxOps
     THEN /\ Operate
          /\ \E spec \in Resized(request.got.spec) :
               envs' = [envs EXCEPT ![request.on] = Written(@, spec)]
     ELSE UNCHANGED <<envs, ops>>
  /\ UNCHANGED <<class, users, clock>>
  /\ Answered

(* The deletion has the UID as its precondition. *)
DeleteEnvironment ==
  /\ request.kind = "deleteEnvironment" /\ request.step = "checked"
  /\ LET now == envs[request.on]
     IN  IF now.exists /\ now.uid = request.seen.uid /\ ~now.deleting /\ ops < MaxOps
         THEN Operate /\ envs' = [envs EXCEPT ![request.on] = DeletedEnv(@)]
         ELSE UNCHANGED <<envs, ops>>
  /\ UNCHANGED <<class, users, clock>>
  /\ Answered

(* The deletion has UID and resource version as its preconditions. *)
DeleteClass ==
  /\ request.kind = "deleteClass" /\ request.step = "checked"
  /\ IF class = request.got /\ ~class.deleting /\ ops < MaxOps
     THEN Operate /\ ToldToGo
     ELSE UNCHANGED <<class, users, ops>>
  /\ UNCHANGED <<envs, clock>>
  /\ Answered

Console ==
  \/ \E n \in Names : SubmitCreate(n) \/ ShowEnv(n)
  \/ ShowClass \/ SubmitOnEnv \/ SubmitDeleteClass
  \/ CreateEnvironment \/ UpdateEnvironment \/ DeleteEnvironment \/ DeleteClass

-----------------------------------------------------------------------------
(* The caches.  Every change that a cache shows queues the class: its own,   *)
(* and those of environments, which are mapped to the class they name.       *)

CacheClass ==
  /\ classView # class
  /\ classView' = class /\ due' = TRUE
  /\ UNCHANGED <<class, envs, envsView, stacks, request, users, clock, ops>>

(* Mutant: changes of environments do not queue their class. *)
CacheEnvsQuietly ==
  /\ envsView # envs
  /\ envsView' = envs
  /\ UNCHANGED <<class, classView, envs, stacks, due, request, users, clock, ops>>

CacheEnvs ==
  /\ envsView # envs
  /\ envsView' = envs
  /\ due' = (due \/ \E n \in Names : /\ envsView[n] # envs[n]
                                     /\ Uses(envsView[n]) \/ Uses(envs[n]))
  /\ UNCHANGED <<class, classView, envs, stacks, request, users, clock, ops>>

AdmNext ==
  \/ ClassController \/ Console \/ UserOfClass
  \/ CacheClass \/ CacheEnvs
  \/ \E n \in Names : EnvController(n) \/ CollectStack(n) \/ UserOfEnv(n)

AdmSpec == AdmInit /\ [][AdmNext]_admVars

(* Queues are worked off, environments are requeued while they are not       *)
(* ready, watches deliver, garbage is collected.                             *)
AdmFairness ==
  /\ WF_admVars(ClassController)
  /\ WF_admVars(CacheClass) /\ WF_admVars(CacheEnvs)
  /\ \A n \in Names : WF_admVars(EnvController(n)) /\ WF_admVars(CollectStack(n))

FairAdmSpec == AdmSpec /\ AdmFairness

-----------------------------------------------------------------------------
(* Classes, environments and requests keep their types, a class that is      *)
(* ready is protected by its finalizer until it is to go, and so is an       *)
(* environment whose stack exists (Reconcile of both controllers).           *)
AdmTypeOK ==
  /\ class \in Class /\ classView \in Class
  /\ envs \in [Names -> Env] /\ envsView \in [Names -> Env]
  /\ stacks \in [Names -> Uids] /\ due \in BOOLEAN
  /\ request \in Requests /\ users \subseteq Names \X Uids \X Nat
  /\ clock \in Clock /\ ops \in 0..MaxOps
  /\ class.exists /\ class.reason = "ClassValidated" => class.finalizer
  /\ \A n \in Names :
       envs[n].exists /\ envs[n].uid = stacks[n] => envs[n].finalizer

(* The environments of the tenant that have been admitted and not been asked *)
(* to go.                                                                    *)
Admitted ==
  {n \in Names : /\ envs[n].exists /\ ~envs[n].deleting
                 /\ stacks[n] = envs[n].uid}

(* Never more environments are admitted than the tenant may have, although   *)
(* each is judged by a cache that lags, if only those count whose specs have *)
(* been of Class Mode, a class and nothing of legacy mode, from the start    *)
(* (validateTenantPolicy).                                                   *)
ClassedWithinQuota ==
  Cardinality({n \in Admitted : envs[n].sound}) <= MaxEnvironments

(* The same of all environments, as the message of validateTenantPolicy has  *)
(* it: a tenant does not get beyond the maximum of admitted environments.    *)
AdmittedWithinQuota == Cardinality(Admitted) <= MaxEnvironments

(* A class that was protected when it was told to go stays as long as one of *)
(* the environments does that the cache showed using it then and that has    *)
(* named it ever since (EnvironmentClassReconciler.Reconcile 37-58).         *)
KnownUsersKeepClass ==
  ~class.exists =>
    \A user \in users :
      LET env == envs[user[1]]
      IN  ~(env.exists /\ env.uid = user[2] /\ env.since = user[3])

(* What the console changes is the object its page showed, and an update is  *)
(* based on the generation it showed, whatever happened to objects of that   *)
(* name in between (updateEnvironment, deleteEnvironment, deleteClass).      *)
Acts(kind) == request.kind = kind /\ request' = NoRequest /\ ops' # ops

ConsoleActsOnWhatWasSeen ==
  [][/\ Acts("updateEnvironment") \/ Acts("deleteEnvironment")
          => envs[request.on].uid = request.seen.uid
     /\ Acts("updateEnvironment") => envs[request.on].gen = request.seen.gen
     /\ Acts("deleteClass") => class.uid = request.seen.uid]_admVars

(* A class that is to go goes, once no environment uses it any more: the     *)
(* watch on environments brings its controller back.                         *)
UnusedClassGoes ==
  class.exists /\ class.deleting ~>
    ~class.exists \/ \E n \in Names : Uses(envs[n])

(* An environment that waits while fewer others exist than the tenant may    *)
(* have is admitted.                                                         *)
RoomIsGiven ==
  \A n \in Names :
    <>[](/\ class.exists /\ envs[n].exists /\ ~envs[n].deleting
         /\ envs[n].spec = "fit"
         /\ Cardinality({m \in Names \ {n} : envs[m].exists /\ ~envs[m].deleting})
              < MaxEnvironments)
      => []<>(n \in Admitted)
=============================================================================
