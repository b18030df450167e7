--------------------------- MODULE CSMReconciler ---------------------------
(***************************************************************************)
(* The reconcile loop of the operator for one ContainerStorageModule (CR)  *)
(* of a driver: the API object, the informer cache the reconciler reads,   *)
(* the work queue, the single worker that runs Reconcile step by step, the *)
(* objects it creates in the cluster, and the user, the garbage collector, *)
(* failures and restarts of the operator around it.                        *)
(*                                                                         *)
(* Reconcile keeps no state of its own between two calls: what survives is *)
(* the finalizer, the annotations and the objects in the cluster.          *)
(***************************************************************************)
EXTENDS DriverResources, FiniteSets

CONSTANTS
    DriverType,     \* spec.driver.csiDriverType
    Specs,          \* the specs a user may submit
    UpgradePairs,   \* <<old, new>> versions IsValidUpgrade accepts
    MaxEdits,       \* bound: spec edits, and changes of the prerequisites
    MaxFaults,      \* bound: failed API calls and operator crashes
    MaxUids,        \* bound: how often the CR is created
    ObjectCacheLag, \* whether the cache of created objects may lag
    GetMayFail      \* whether reading the CR may fail other than with NotFound

ASSUME ConstantsAssumption ==
    /\ DriverType \in DriverTypes
    /\ Specs \subseteq SpecType /\ Specs # {}
    /\ UpgradePairs \subseteq Nat \X Nat
    /\ MaxEdits \in Nat /\ MaxFaults \in Nat /\ MaxUids \in Nat
    /\ ObjectCacheLag \in BOOLEAN /\ GetMayFail \in BOOLEAN

VARIABLES
    api,        \* the CR in the API server
    cache,      \* the CR in the manager's informer cache
    cacheCurrent, \* the cache has the CR's latest resourceVersion
    queued,     \* the CR's key is in the work queue
    pc,         \* where the worker is in Reconcile
    csm,        \* the worker's in-memory copy of the CR
    csmCurrent, \* that copy has the CR's latest resourceVersion
    requeue,    \* HandleSuccess asked for another reconcile
    plan,       \* the calls SyncCSM or the deletion branch still has to make
    cluster,    \* the objects in the cluster
    unseen,     \* those of them the object cache does not hold yet
    owner,      \* uid in the ownerReference of an owned object, 0 for none
    installed,  \* version of the controller Deployment, 0 for none
    ready,      \* the pods of Deployment and DaemonSet are available
    valid,      \* the secrets and files the prechecks look for are there
    abandoned,  \* history: objects a removal passed over, see Pass
    edits, faults

apiVars   == <<api, cache, cacheCurrent, queued>>
workVars  == <<pc, csm, csmCurrent, requeue, plan>>
objVars   == <<cluster, unseen, owner, installed, abandoned>>
envVars   == <<ready, valid, edits>>
vars == <<apiVars, workVars, objVars, envVars, faults>>

States == {"", "Failed", "Succeeded"}

CRType == [exists : BOOLEAN, uid : Nat, gen : Nat, deleting : BOOLEAN, fin : BOOLEAN,
           spec : SpecType, cfgv : Nat, prev : Seq(SpecType),
           state : States]

NewCR(uid, s) == [exists |-> TRUE, uid |-> uid, gen |-> 1, deleting |-> FALSE,
                  fin |-> FALSE, spec |-> s, cfgv |-> 0, prev |-> << >>, state |-> ""]

NilSpec == [ver |-> 0, force |-> "unset", modules |-> {}, dr |-> "off", metrics |-> {}]

NoCR == [NewCR(0, NilSpec) EXCEPT !.exists = FALSE, !.gen = 0]

Init ==
    /\ api = NoCR
    /\ cache = api /\ cacheCurrent = TRUE
    /\ queued = FALSE
    /\ pc = "idle" /\ csm = NoCR /\ csmCurrent = FALSE /\ requeue = FALSE /\ plan = << >>
    /\ cluster = {} /\ unseen = {} /\ installed = 0
    /\ owner = [o \in OwnedObjects |-> 0]
    /\ ready = FALSE /\ valid = TRUE /\ abandoned = {}
    /\ edits = 0 /\ faults = 0

(***************************************************************************)
(* The API server.  A write invalidates every copy of the object; the      *)
(* writer's own copy is refreshed by the response.  A write of a copy that *)
(* is not current is refused (conflict, or not found).                     *)
(***************************************************************************)
\* r.Update(csm): persists metadata and spec, never the status subresource.
\* The object goes away when its last finalizer is removed.
Stored(obj) ==
    [obj EXCEPT !.state = api.state,
                !.gen = IF obj.spec = api.spec THEN api.gen ELSE api.gen + 1,
                !.exists = ~obj.deleting \/ obj.fin]

UpdateCR(obj) ==
    /\ api' = Stored(obj)
    /\ csm' = [obj EXCEPT !.gen = Stored(obj).gen]
    /\ csmCurrent' = TRUE
    /\ cacheCurrent' = FALSE

CanUpdate == csmCurrent /\ api.exists

WriteByOther(obj) ==
    /\ api' = obj
    /\ csmCurrent' = FALSE
    /\ cacheCurrent' = FALSE

(***************************************************************************)
(* The user.                                                               *)
(***************************************************************************)
Create ==
    /\ ~api.exists /\ api.uid < MaxUids
    /\ \E s \in Specs : WriteByOther(NewCR(api.uid + 1, s))
    /\ UNCHANGED <<cache, queued, pc, csm, requeue, plan, objVars, envVars, faults>>

EditSpec ==
    /\ api.exists /\ edits < MaxEdits
    /\ \E s \in Specs \ {api.spec} :
         WriteByOther([api EXCEPT !.spec = s, !.gen = @ + 1])
    /\ edits' = edits + 1
    /\ UNCHANGED <<cache, queued, pc, csm, requeue, plan, objVars, ready, valid, faults>>

\* kubectl delete: an object with a finalizer is only marked.
Delete ==
    /\ api.exists /\ ~api.deleting
    /\ WriteByOther(IF api.fin THEN [api EXCEPT !.deleting = TRUE, !.gen = @ + 1]
                               ELSE [api EXCEPT !.exists = FALSE])
    /\ UNCHANGED <<cache, queued, pc, csm, requeue, plan, objVars, envVars, faults>>

\* A secret or configuration the prechecks need is removed or restored.
ChangePrerequisites ==
    /\ edits < MaxEdits
    /\ valid' = ~valid /\ edits' = edits + 1
    /\ UNCHANGED <<apiVars, workVars, objVars, ready, faults>>

(***************************************************************************)
(* The watch.  ignoreUpdatePredicate drops updates that leave the          *)
(* generation alone: status and annotation writes.                         *)
(***************************************************************************)
PassesPredicate_mut(old, new) == old.exists # new.exists \* bug: an edit is not seen

PassesPredicate(old, new) ==
    old.exists # new.exists \/ old.uid # new.uid \/ old.gen # new.gen

CacheSync ==
    /\ ~cacheCurrent
    /\ cache' = api /\ cacheCurrent' = TRUE
    /\ queued' = (queued \/ PassesPredicate(cache, api))
    /\ UNCHANGED <<api, workVars, objVars, envVars, faults>>

ObjectCacheSync ==
    /\ unseen # {} /\ unseen' = {}
    /\ UNCHANGED <<apiVars, workVars, cluster, owner, installed, abandoned, envVars, faults>>

(***************************************************************************)
(* Reconcile, step by step.  A return with an error, or with Requeue set,  *)
(* puts the key back into the queue.                                       *)
(***************************************************************************)
Fault == faults < MaxFaults /\ faults' = faults + 1

NoFault == faults' = faults

Return ==
    /\ pc' = "idle" /\ csm' = NoCR /\ csmCurrent' = FALSE
    /\ requeue' = FALSE /\ plan' = << >>

ReturnError_mut == Return /\ queued' = queued \* bug: the error is swallowed

ReturnError == Return /\ queued' = TRUE

GetCR ==
    /\ pc = "idle" /\ queued /\ cache.exists
    /\ queued' = FALSE
    /\ csm' = [cache EXCEPT !.spec = Defaulted(@)]
    /\ csmCurrent' = cacheCurrent
    /\ pc' = "precheck"
    /\ UNCHANGED <<api, cache, cacheCurrent, requeue, plan, objVars, envVars, faults>>

GetNotFound ==
    /\ pc = "idle" /\ queued /\ ~cache.exists
    /\ queued' = FALSE
    /\ UNCHANGED <<api, cache, cacheCurrent, workVars, objVars, envVars, faults>>

\* Any other error: the code returns Result{} and a nil error.
GetError ==
    /\ pc = "idle" /\ queued /\ GetMayFail /\ Fault
    /\ queued' = FALSE
    /\ UNCHANGED <<api, cache, cacheCurrent, workVars, objVars, envVars>>

\* LoadDefaultComponents or GetVersion returns an error.
LoadFails ==
    /\ pc = "precheck" /\ Fault
    /\ ReturnError
    /\ UNCHANGED <<api, cache, cacheCurrent, objVars, envVars>>

\* checkUpgrade compares the config version annotation with the spec.
UpgradeValid ==
    csm.cfgv \in {0, csm.spec.ver} \/ <<csm.cfgv, csm.spec.ver>> \in UpgradePairs

\* PreChecks fails; HandleValidationError writes the status, if it can.
PreChecksFail ==
    /\ pc = "precheck"
    /\ ((~valid \/ ~UpgradeValid) /\ NoFault) \/ Fault
    /\ \/ CanUpdate /\ api' = [api EXCEPT !.state = "Failed"] /\ cacheCurrent' = FALSE
       \/ UNCHANGED <<api, cacheCurrent>>
    /\ ReturnError
    /\ UNCHANGED <<cache, objVars, envVars>>

PreChecksPass_mut == \* bug: the finalizer is added only to a CR with the annotation
    /\ pc = "precheck" /\ UpgradeValid
    /\ (valid /\ NoFault) \/ (~valid /\ Fault)
    /\ IF csm.deleting
         THEN pc' = "remove" /\ plan' = RemovalPlan(DriverType, csm.spec)
         ELSE pc' = (IF csm.cfgv = 0 THEN "annotate" ELSE "finalizer") /\ UNCHANGED plan
    /\ UNCHANGED <<apiVars, csm, csmCurrent, requeue, objVars, envVars>>

\* A check of a prerequisite fails only when its Get reports NotFound: another
\* error of that Get lets a missing one pass.
PreChecksPass ==
    /\ pc = "precheck" /\ UpgradeValid
    /\ (valid /\ NoFault) \/ (~valid /\ Fault)
    /\ IF csm.deleting
         THEN /\ pc' = "remove" /\ plan' = RemovalPlan(DriverType, csm.spec)
              /\ abandoned' = abandoned \cup (cluster \cap NotCovered(csm.spec))
         ELSE /\ pc' = (IF csm.fin THEN "annotate" ELSE "finalizer")
              /\ UNCHANGED <<plan, abandoned>>
    /\ UNCHANGED <<apiVars, csm, csmCurrent, requeue, cluster, unseen, owner, installed,
                   envVars>>

AddFinalizer ==
    /\ pc = "finalizer" /\ CanUpdate
    /\ UpdateCR([csm EXCEPT !.fin = TRUE])
    /\ pc' = "annotate"
    /\ UNCHANGED <<cache, queued, requeue, plan, objVars, envVars, faults>>

\* What calculateState may report: Running compares the replicas that are
\* available with the desired ones, and a DaemonSet that is not there counts
\* as not available, whereas a missing Deployment of COSI counts as 0 of 0.
RunningOutcomes ==
    IF DriverType # "cosi" /\ "daemonSet" \notin cluster \ unseen THEN {FALSE}
    ELSE IF ready \/ "deployment" \notin cluster THEN {TRUE}
    ELSE BOOLEAN

AnnotateAndStartSync_mut == \* bug: the object as it was before AddFinalizer is written
    /\ pc = "annotate" /\ CanUpdate
    /\ UpdateCR([csm EXCEPT !.cfgv = csm.spec.ver, !.fin = FALSE])
    /\ requeue' \in BOOLEAN
    /\ plan' = SyncPlan(DriverType, csm.prev, csm.spec)
    /\ pc' = "sync"
    /\ UNCHANGED <<cache, queued, objVars, envVars, faults>>

\* applyConfigVersionAnnotations, HandleSuccess, and the call of SyncCSM.
AnnotateAndStartSync ==
    /\ pc = "annotate"
    /\ IF csm.cfgv = csm.spec.ver
         THEN UNCHANGED <<api, csm, csmCurrent, cacheCurrent>>
         ELSE CanUpdate /\ UpdateCR([csm EXCEPT !.cfgv = csm.spec.ver])
    /\ \E running \in RunningOutcomes : requeue' = ~running
    /\ plan' = SyncPlan(DriverType, csm.prev, csm.spec)
    /\ pc' = "sync"
    /\ UNCHANGED <<cache, queued, objVars, envVars, faults>>

\* The Update of the CR the worker is about to make, if any.
Updating ==
    \/ pc = "finalizer"
    \/ pc = "annotate" /\ csm.cfgv # csm.spec.ver
    \/ plan # << >> /\ Head(plan).op \in {"save", "release"}

PendingUpdate ==
    CASE pc = "finalizer" -> [csm EXCEPT !.fin = TRUE]
      [] pc = "annotate"  -> [csm EXCEPT !.cfgv = csm.spec.ver]
      [] pc = "sync"      -> [csm EXCEPT !.prev = <<csm.spec>>]
      [] OTHER            -> [csm EXCEPT !.fin = FALSE]

\* It is refused or fails, or it takes effect and the answer is lost.
UpdateFails ==
    /\ Updating
    /\ \/ ((~CanUpdate /\ NoFault) \/ Fault) /\ UNCHANGED <<api, cacheCurrent>>
       \/ CanUpdate /\ Fault /\ api' = Stored(PendingUpdate) /\ cacheCurrent' = FALSE
    /\ ReturnError
    /\ UNCHANGED <<cache, objVars, envVars>>

(***************************************************************************)
(* The calls of SyncCSM and of the deletion branch.                        *)
(***************************************************************************)
AtStep(ops) == plan # << >> /\ Head(plan).op \in ops

NextStep ==
    /\ plan' = Tail(plan)
    /\ pc' = IF pc = "sync" /\ Len(plan) = 1 THEN "report" ELSE pc
    /\ UNCHANGED <<csm, csmCurrent, requeue>>

CheckStep ==
    /\ AtStep({"check"})
    /\ NextStep
    /\ UNCHANGED <<apiVars, objVars, envVars, faults>>

\* The object now exists and is this CR's; a new one may not be cached yet.
Put(o) ==
    /\ cluster' = cluster \cup {o}
    /\ unseen' \in {unseen, IF ObjectCacheLag /\ o \notin cluster THEN unseen \cup {o} ELSE unseen}
    /\ owner' = IF o \in OwnedObjects THEN [owner EXCEPT ![o] = csm.uid] ELSE owner
    /\ installed' = IF o = "deployment" THEN csm.spec.ver ELSE installed
    /\ abandoned' = abandoned \ {o}

Drop(o) ==
    /\ cluster' = cluster \ Cascade(o) /\ unseen' = unseen \ Cascade(o)
    /\ owner' = IF o \in OwnedObjects THEN [owner EXCEPT ![o] = 0] ELSE owner
    /\ installed' = IF o = "deployment" THEN 0 ELSE installed
    /\ abandoned' = abandoned \ Cascade(o)

\* A removal goes on although o is still there: the cached Get did not find
\* it, or its failure is only logged.
Pass(o) ==
    /\ abandoned' = abandoned \cup ({o} \cap cluster)
    /\ UNCHANGED <<cluster, unseen, owner, installed>>

\* New pods are not available at once.
Rollout(o) ==
    ready' = (ready /\ (o \in {"deployment", "daemonSet"} =>
                           o \in cluster /\ installed = csm.spec.ver))

\* Create, or update, after a Get through the cache; server-side apply does
\* not read the cache.
ApplyStep ==
    /\ AtStep({"apply", "create", "ssa"})
    /\ Head(plan).op # "ssa" => Head(plan).obj \notin unseen
    /\ Put(Head(plan).obj) /\ Rollout(Head(plan).obj)
    /\ NextStep
    /\ UNCHANGED <<apiVars, valid, edits, faults>>

\* Creating what exists but is not cached yet fails with AlreadyExists.
ApplyStale ==
    /\ AtStep({"apply", "create"}) /\ Head(plan).obj \in unseen
    /\ ReturnError
    /\ UNCHANGED <<api, cache, cacheCurrent, objVars, envVars, faults>>

DeleteStep ==
    /\ AtStep({"delete", "get+delete", "warn"})
    /\ IF Head(plan).obj \in unseen THEN Pass(Head(plan).obj) ELSE Drop(Head(plan).obj)
    /\ ready' = (ready /\ Head(plan).obj \notin {"deployment", "daemonSet"})
    /\ NextStep
    /\ UNCHANGED <<apiVars, valid, edits, faults>>

\* A failure the code ignores: of a "warn" deletion, of the Get before the
\* DaemonSet or Deployment is deleted or the replication ConfigMap created.
FailureIgnored ==
    /\ AtStep({"get+delete", "warn", "create"}) /\ Fault
    /\ IF AtStep({"create"}) THEN UNCHANGED objVars ELSE Pass(Head(plan).obj)
    /\ NextStep
    /\ UNCHANGED <<apiVars, envVars>>

\* Any other failure ends the reconcile; the call may have taken effect.
StepFails ==
    /\ AtStep({"check", "apply", "create", "ssa", "delete", "get+delete"}) /\ Fault
    /\ \/ UNCHANGED <<objVars, ready>>
       \/ AtStep({"apply", "create", "ssa"}) /\ Put(Head(plan).obj) /\ Rollout(Head(plan).obj)
       \/ AtStep({"delete", "get+delete"}) /\ Drop(Head(plan).obj) /\ UNCHANGED ready
    /\ ReturnError
    /\ UNCHANGED <<api, cache, cacheCurrent, valid, edits>>

SaveStep ==
    /\ AtStep({"save"}) /\ CanUpdate
    /\ UpdateCR(PendingUpdate)
    /\ plan' = Tail(plan)
    /\ UNCHANGED <<cache, queued, pc, requeue, objVars, envVars, faults>>

\* removeDeploymentOwnerRef; an error is only logged.  From here on the
\* objects stay, as forceRemoveDriver=false asks.
DisownStep ==
    /\ AtStep({"disown"})
    /\ \/ /\ "deployment" \notin unseen /\ NoFault
          /\ owner' = [owner EXCEPT !["deployment"] = IF @ = csm.uid THEN 0 ELSE @]
       \/ owner' = owner /\ (("deployment" \in unseen /\ NoFault) \/ Fault)
    /\ abandoned' = cluster
    /\ NextStep
    /\ UNCHANGED <<apiVars, cluster, unseen, installed, envVars>>

\* removeFinalizer; the object leaves the API server.
ReleaseStep ==
    /\ AtStep({"release"}) /\ CanUpdate
    /\ api' = Stored(PendingUpdate) /\ cacheCurrent' = FALSE
    /\ Return
    /\ UNCHANGED <<cache, queued, objVars, envVars, faults>>

(***************************************************************************)
(* The end of Reconcile.                                                   *)
(***************************************************************************)
\* HandleSuccess found the CSM not running: reconcile again.
ReportNotRunning ==
    /\ pc = "report" /\ requeue
    /\ ReturnError
    /\ UNCHANGED <<api, cache, cacheCurrent, objVars, envVars, faults>>

ReportStatus_mut == \* bug: a state that is not one of the CR's states
    /\ pc = "report" /\ ~requeue /\ api.exists
    /\ api' = [api EXCEPT !.state = "Running"] /\ cacheCurrent' = FALSE
    /\ Return
    /\ UNCHANGED <<cache, queued, objVars, envVars, faults>>

\* UpdateStatus reads the CR again and writes the state it calculates; it
\* returns an error, and Reconcile requeues, when the CSM is not running.
\* ContentWatch follows.
ReportStatus ==
    /\ pc = "report" /\ ~requeue /\ api.exists
    /\ \E running \in RunningOutcomes :
         /\ api' = [api EXCEPT !.state = IF running THEN "Succeeded" ELSE "Failed"]
         /\ queued' = (queued \/ ~running)
    /\ cacheCurrent' = FALSE
    /\ Return
    /\ UNCHANGED <<cache, objVars, envVars, faults>>

ReportFails ==
    /\ pc = "report" /\ ~requeue /\ ((~api.exists /\ NoFault) \/ Fault)
    /\ ReturnError
    /\ UNCHANGED <<api, cache, cacheCurrent, objVars, envVars>>

(***************************************************************************)
(* The cluster around the operator.                                        *)
(***************************************************************************)
\* Kubernetes removes an owned object whose owner is gone.
GarbageCollect ==
    \E o \in OwnedObjects \cap cluster :
       /\ owner[o] # 0 /\ (~api.exists \/ owner[o] # api.uid)
       /\ Drop(o)
       /\ ready' = (ready /\ o # "deployment")
       /\ UNCHANGED <<apiVars, workVars, valid, edits, faults>>

PodsReady ==
    /\ ~ready /\ "deployment" \in cluster
    /\ DriverType # "cosi" => "daemonSet" \in cluster
    /\ ready' = TRUE
    /\ UNCHANGED <<apiVars, workVars, objVars, valid, edits, faults>>

\* The operator pod restarts: the caches are listed anew and every CR in
\* the API server is reconciled.
Restart ==
    /\ Fault
    /\ Return
    /\ cache' = api /\ cacheCurrent' = TRUE /\ queued' = api.exists
    /\ unseen' = {}
    /\ UNCHANGED <<api, cluster, owner, installed, abandoned, envVars>>

User == Create \/ EditSpec \/ Delete \/ ChangePrerequisites

\* The worker's steps that are not failures of the environment.
Worker ==
    \/ GetCR \/ GetNotFound \/ PreChecksPass \/ AddFinalizer \/ AnnotateAndStartSync
    \/ CheckStep \/ ApplyStep \/ ApplyStale \/ DeleteStep \/ SaveStep \/ DisownStep
    \/ ReleaseStep \/ ReportNotRunning \/ ReportStatus

WorkerFailure ==
    \/ GetError \/ LoadFails \/ PreChecksFail \/ UpdateFails
    \/ FailureIgnored \/ StepFails \/ ReportFails

Next ==
    \/ User \/ CacheSync \/ ObjectCacheSync \/ Worker \/ WorkerFailure
    \/ GarbageCollect \/ PodsReady \/ Restart

Spec == Init /\ [][Next]_vars

\* The worker never stops with work in the queue, the caches catch up, pods
\* come up and garbage is collected.  Failures are not fair: they are bounded.
Fairness ==
    /\ WF_vars(Worker \/ WorkerFailure)
    /\ WF_vars(CacheSync) /\ WF_vars(ObjectCacheSync)
    /\ WF_vars(PodsReady) /\ WF_vars(GarbageCollect)

FairSpec == Spec /\ Fairness

\* The steps a sync and a removal may contain.  For COSI a sync touches no
\* node object.
SyncObjects == IF DriverType = "cosi" THEN StepObjects \ NodeObjects ELSE StepObjects

SyncStepType ==
    [op : {"check", "apply", "create", "ssa", "delete", "warn", "save"}, obj : SyncObjects]

RemovalStepType ==
    [op : {"check", "delete", "get+delete", "warn", "disown", "release"}, obj : StepObjects]

TypeOK ==
    /\ api \in CRType /\ cache \in CRType /\ csm \in CRType
    /\ cacheCurrent \in BOOLEAN /\ queued \in BOOLEAN /\ csmCurrent \in BOOLEAN
    /\ requeue \in BOOLEAN /\ ready \in BOOLEAN /\ valid \in BOOLEAN
    /\ pc \in {"idle", "precheck", "remove", "finalizer", "annotate", "sync", "report"}
    /\ plan \in Seq(SyncStepType \cup RemovalStepType)
    /\ cluster \subseteq StepObjects /\ unseen \subseteq cluster /\ abandoned \subseteq cluster
    /\ owner \in [OwnedObjects -> Nat] /\ installed \in Nat
    /\ edits \in Nat /\ faults \in Nat

(***************************************************************************)
(* Safety.                                                                 *)
(***************************************************************************)
\* The driver's objects that no removal has passed over.
Owed == (cluster \cap DriverObjects) \ abandoned

\* Every object applied for the CR (other than one a removal passed over) is
\* protected: the CR exists and carries the finalizer, so that it cannot go
\* away before the deletion branch of Reconcile has run.
ObjectsUnderFinalizer ==
    Owed # {} => api.exists /\ api.fin

\* The controllers of modules, and those that no removal has passed over.
Controllers == {"replCtrl", "obs"}

ModuleOf(o) == IF o = "replCtrl" THEN "replication" ELSE "observability"

OwedControllers == (cluster \cap Controllers) \ abandoned

\* The modules the applied-configuration annotation names.
Recorded(cr) == IF cr.prev = << >> THEN {} ELSE cr.prev[1].modules

\* The applied-configuration annotation is a write-ahead record: a module
\* whose controller was applied for this CR is named in it, so that a later
\* spec without the module makes oldStandAloneModuleCleanup remove it.
ModulesRecorded ==
    \A o \in OwedControllers : ModuleOf(o) \in Recorded(api)

\* Once the finalizer is gone nothing is applied for that CR any more: an
\* object appears only under a CR that exists and has the finalizer.
CreatesOnlyUnderFinalizer ==
    [][cluster' \ cluster # {} => api.exists /\ api.fin /\ csm.uid = api.uid]_vars

\* The phase of the CR's life, as a client of the API server sees it.
Phase ==
    CASE ~api.exists  -> "absent"
      [] api.exists /\ api.deleting -> "deleting"
      [] api.exists /\ ~api.deleting /\ api.fin -> "held"
      [] OTHER -> "open"

Abstract == INSTANCE CSMLifecycle WITH Objs <- DriverObjects, phase <- Phase, objs <- Owed

\* Reconcile, with its caches, failures and restarts, implements the life
\* cycle CSMLifecycle describes: a CR never loses the finalizer before its
\* deletion is complete, is never brought back from a deletion, and leaves
\* the API server only when nothing it answers for is left.
Lifecycle == Abstract!Spec

(***************************************************************************)
(* Why ObjectsUnderFinalizer holds.                                        *)
(***************************************************************************)
\* The objects a removal still has to delete before it may go on.
ToDelete(p) ==
    {o \in DriverObjects :
        \E i \in DOMAIN p : p[i].obj = o /\ p[i].op \in {"delete", "get+delete"}}

\* Where the worker is, and what its copy says.
ControlInv ==
    /\ pc = "idle" => ~csmCurrent
    /\ pc = "finalizer" => ~csm.deleting
    /\ pc \in {"annotate", "sync", "report"} => ~csm.deleting /\ csm.fin
    /\ pc = "remove" => csm.deleting
    /\ pc = "sync" => plan \in Seq(SyncStepType)
    /\ pc \notin {"sync", "remove"} => plan = << >>

\* A copy is older than what it was copied from: a CR is never seen without
\* a deletion mark that an earlier copy of it had.
StaleCopiesInv ==
    /\ cacheCurrent => cache = api
    /\ cache.uid <= api.uid /\ (pc # "idle" => csm.uid <= cache.uid)
    /\ csmCurrent => /\ csm.uid = api.uid /\ csm.deleting = api.deleting
                     /\ csm.fin = api.fin
    /\ cache.deleting /\ cache.uid = api.uid /\ api.exists => api.deleting
    /\ pc # "idle" /\ csm.deleting /\ csm.uid = api.uid /\ api.exists => api.deleting
    /\ pc # "idle" /\ csm.deleting /\ csm.uid = cache.uid /\ cache.exists => cache.deleting

\* A copy with the finalizer and without a deletion mark, however stale,
\* shows that the CR still has the finalizer.
FinalizerInv ==
    /\ cache.exists /\ cache.fin /\ ~cache.deleting =>
          api.exists /\ api.fin /\ api.uid = cache.uid
    /\ pc # "idle" /\ csm.fin /\ ~csm.deleting =>
          api.exists /\ api.fin /\ api.uid = csm.uid

\* A removal that is under way still plans to delete everything it has not
\* passed over, and removes the finalizer last.
RemovalInv ==
    /\ DriverType = "cosi" => cluster \cap NodeObjects = {}
    /\ pc = "remove" =>
          /\ plan \in Seq(RemovalStepType) /\ plan # << >>
          /\ \A i \in DOMAIN plan : plan[i].op = "release" <=> i = Len(plan)
          /\ plan[1].op # "disown" =>
                Owed \subseteq ToDelete(plan)

\* The inductive invariant: finalizer, copies, worker and removal plan agree.
IInv ==
    /\ TypeOK /\ ControlInv /\ StaleCopiesInv /\ FinalizerInv /\ RemovalInv
    /\ ObjectsUnderFinalizer

(***************************************************************************)
(* Why ModulesRecorded holds.                                              *)
(***************************************************************************)
\* The steps of SyncCSM before it saves the annotation, and after that.
BeforeSave ==
    {st \in SyncStepType :
        /\ st.op # "save"
        /\ st.op \in {"apply", "create", "ssa"} => st.obj \notin Controllers}

AfterSave(s) ==
    {st \in SyncStepType :
        /\ st.op # "save"
        /\ st.obj \in Controllers => st.op = "apply" /\ ModuleOf(st.obj) \in s.modules}

\* The plan still has to save the annotation, once, and keeps that order.
SavesAhead(p, s) ==
    \E k \in DOMAIN p :
        /\ p[k].op = "save"
        /\ \A i \in 1..(k - 1) : p[i] \in BeforeSave
        /\ \A i \in (k + 1)..Len(p) : p[i] \in AfterSave(s)

Removes(p, o) == \E i \in DOMAIN p : p[i].op = "delete" /\ p[i].obj = o

\* Before the annotation is saved, a worker whose copy is current is about to
\* remove every controller the new annotation will not name; after that, the
\* annotation is the spec the worker goes by.
SyncRecord ==
    \/ /\ SavesAhead(plan, csm.spec)
       /\ csmCurrent => \A o \in OwedControllers :
                           ModuleOf(o) \in csm.spec.modules \/ Removes(plan, o)
    \/ plan \in Seq(AfterSave(csm.spec)) /\ api.prev = <<csm.spec>>

\* A removal deletes the controllers that are owed.
RemovalRecord ==
    plan[1].op # "disown" => \A o \in OwedControllers : Removes(plan, o)

\* The inductive invariant, with IInv.
RecordInv ==
    /\ ModulesRecorded
    /\ OwedControllers # {} => api.exists /\ api.fin
    /\ csmCurrent => csm.prev = api.prev
    /\ pc = "sync" => SyncRecord
    /\ pc = "remove" => RemovalRecord

(***************************************************************************)
(* Liveness.                                                               *)
(***************************************************************************)
\* A CR that is being deleted goes away, once the prechecks pass for good:
\* removal resumes after every failure and restart.
DeletionCompletes ==
    <>[]valid => [](api.exists /\ api.deleting => <>~api.exists)

\* What SyncCSM converges to: everything the spec asks for is applied, no
\* controller of a module the spec does not enable is left, and the state is
\* Succeeded.
Settled ==
    /\ Desired(DriverType, Defaulted(api.spec)) \ {"replCM"} \subseteq cluster
    /\ \A m \in {<<"replication", "replCtrl">>, <<"observability", "obs">>} :
         m[1] \notin api.spec.modules => m[2] \notin cluster \ abandoned
    /\ api.state = "Succeeded"

\* When the CR stays, and stays valid, the cluster settles on its spec
\* whatever failed, restarted or was edited before.
Converges ==
    <>[](valid /\ api.exists /\ ~api.deleting) => <>[]Settled

(***************************************************************************)
(* Claims of comments in the code.                                         *)
(***************************************************************************)
\* "remove all resources deployed from CR by operator" (forceRemoveDriver):
\* when the CR is gone, so are the module controllers applied for it.
AllResourcesRemoved ==
    ~api.exists /\ Defaulted(api.spec).force = "true" =>
        cluster \cap {"replCtrl", "obs"} = {}

\* "so that Kubernetes garbage collection does not delete it when the CSM CR
\* is removed" (forceRemoveDriver=false).
KeptDeploymentNotCollected ==
    ~api.exists /\ api.spec.force = "false" /\ "deployment" \in cluster =>
        owner["deployment"] # api.uid

\* "Existing version ... If the upgrade path is not valid fail": the version
\* of the running controller changes only along a valid path.
OnlyValidUpgrades ==
    [][installed # 0 /\ installed' \notin {0, installed} =>
          <<installed, installed'>> \in UpgradePairs]_vars

\* "Error reading the object - requeue the request": a change of the CR is
\* reconciled although a read fails.
ReadErrorsRequeued ==
    [](api.exists /\ ~api.fin => <>(~api.exists \/ api.fin \/ ~valid))
=============================================================================
