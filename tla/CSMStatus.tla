----------------------------- MODULE CSMStatus -----------------------------
(***************************************************************************)
(* The status of one CR, of a driver or of an authorization server, and    *)
(* those who write it: the worker, at the end of Reconcile, and the event  *)
(* handlers of the three informers that ContentWatch starts, each in a     *)
(* goroutine of its own.                                                   *)
(*                                                                         *)
(* All of them compute the state from the manager's cache, which lags, and *)
(* write it with UpdateStatus, under the mutex of package operatorutils.   *)
(* The handlers exclude one another with the mutex of package controllers. *)
(* A configuration is a number, larger for a later edit of the spec.       *)
(***************************************************************************)
EXTENDS Naturals, Sequences

CONSTANTS
    Kinds,         \* the kinds of CR: a driver, an authorization server with NGINX
                   \* (up to v2.4) and one with the Gateway API
    Replicas,      \* spec.driver.replicas
    Observability, \* whether the CR enables the observability module
    MaxSpecs,      \* bound: configurations
    MaxChanges,    \* bound: changes of the workloads' status
    MaxEvents,     \* bound: events an informer holds for its handler
    MaxGiveUps     \* bound: UpdateStatus calls that use up their retries

ASSUME ConstantsAssumption ==
    /\ Kinds \subseteq {"driver", "authorization", "gateway"}
    /\ Replicas \in Nat \ {0} /\ Observability \in BOOLEAN
    /\ MaxSpecs \in Nat \ {0} /\ MaxChanges \in Nat /\ MaxEvents \in Nat /\ MaxGiveUps \in Nat

Handlers == {"deployments", "daemonsets", "pods"}

Processes == Handlers \cup {"worker"}

\* What the status of a driver is computed from: the controller Deployment,
\* the DaemonSet, its pods, and a Deployment of observability.  The Deployments
\* of an authorization server are represented by one that Watched has, one that
\* it lacks, and the gateway controller.
Workloads == {"controller", "node", "nodePods", "otel",
              "role-service", "proxy-server", "nginx-gateway-fabric"}

WorkloadsOf(kind) ==
    CASE kind = "driver" ->
            {"controller", "node", "nodePods"} \cup (IF Observability THEN {"otel"} ELSE {})
      [] kind = "authorization" -> {"role-service", "proxy-server"}
      [] OTHER -> {"role-service", "proxy-server", "nginx-gateway-fabric"}

\* informerUpdate passes on an object whose pods have both labels of the CSM.
\* proxy-server, storage-service, tenant-service and redis-commander lack the
\* one with the namespace.
Watched(k) ==
    CASE k = "deployments" -> {"controller", "otel", "role-service", "nginx-gateway-fabric"}
      [] k = "daemonsets"  -> {"node"}
      [] OTHER             -> {"nodePods"}

\* Pods: how many a workload should have (desired) and has (available).  A
\* DaemonSet object counts the desired pods of the node part, the list of
\* its pods the running ones.
PodCounts(d, a) == [desired |-> d, available |-> a]

Counts(w) ==
    CASE w = "controller" -> {PodCounts(0, 0), PodCounts(Replicas, 0), PodCounts(Replicas, Replicas)}
      [] w = "node"       -> {PodCounts(0, 0), PodCounts(1, 0)}
      [] w = "nodePods"   -> {PodCounts(0, 0), PodCounts(0, 1)}
      [] w = "otel"       -> {PodCounts(1, 0), PodCounts(1, 1)}
      [] OTHER            -> {PodCounts(0, 0), PodCounts(1, 0), PodCounts(1, 1)}

VARIABLES
    cr,      \* the CR in the API server
    crSeen,  \* the CR in the manager's cache
    fresh,   \* crSeen has the CR's latest resourceVersion
    current, \* so has the worker's copy
    live,    \* the workloads' status in the API server
    seen,    \* the same in the manager's cache
    watching,\* the content watch runs
    events,  \* the events each informer holds for its handler
    pc, inst,\* where each process is, and its copy of the CR
    override,\* the status the deployment handler passes to UpdateStatus
    handlerLock, statusLock, \* who holds dMutex of controllers, operatorutils
    wake,    \* the CR's key is in the work queue
    requeue, \* HandleSuccess found the driver not running
    changes, giveUps

vars == <<cr, crSeen, fresh, current, live, seen, watching, events, pc, inst, override,
          handlerLock, statusLock, wake, requeue, changes, giveUps>>

Free == "nobody"

CRs == [kind : Kinds, spec : 1..MaxSpecs, applied : 0..MaxSpecs, lsc : 0..MaxSpecs,
        state : {"", "Failed", "Succeeded"},
        controller : UNION {Counts(w) : w \in Watched("deployments")}]

\* The first reconcile of a driver has recorded the configuration, created the
\* workloads and asked for another one.  That of an authorization server is to
\* come; it never records a configuration.
NewCR(kind) ==
    [kind |-> kind, spec |-> 1, applied |-> IF kind = "driver" THEN 1 ELSE 0, lsc |-> 0,
     state |-> "", controller |-> PodCounts(0, 0)]

NoCopy == NewCR(cr.kind)

\* The copy a process reads from the cache, without what calculateState writes
\* before anyone reads it.
CachedCopy == [crSeen EXCEPT !.state = "", !.controller = PodCounts(0, 0)]

Init ==
    /\ \E kind \in Kinds : cr = NewCR(kind)
    /\ crSeen = cr /\ fresh = TRUE /\ current = FALSE
    /\ live = [w \in Workloads |-> IF w = "otel" THEN PodCounts(1, 0) ELSE PodCounts(0, 0)]
    /\ seen = live
    /\ watching = FALSE /\ events = [k \in Handlers |-> << >>]
    /\ pc = [p \in Processes |-> "idle"] /\ inst = [p \in Processes |-> NoCopy]
    /\ override = PodCounts(0, 0)
    /\ handlerLock = Free /\ statusLock = Free
    /\ wake = TRUE /\ requeue = FALSE
    /\ changes = 0 /\ giveUps = 0

(***************************************************************************)
(* The user, the cluster, and the caches.                                  *)
(***************************************************************************)
EditSpec ==
    /\ cr.spec < MaxSpecs
    /\ cr' = [cr EXCEPT !.spec = @ + 1] /\ fresh' = FALSE /\ current' = FALSE
    /\ UNCHANGED <<crSeen, live, seen, watching, events, pc, inst, override,
                   handlerLock, statusLock, wake, requeue, changes, giveUps>>

\* A change reaches the handler as an Update event; a pod that goes away is
\* deleted, or marked for deletion, and is not handled.
Notify(w, status) ==
    LET told == {k \in Handlers : watching /\ w \in Watched(k)
                                 /\ ~(w = "nodePods" /\ status.available = 0)}
    IN  /\ \A k \in told : Len(events[k]) < MaxEvents
        /\ events' = [k \in Handlers |-> IF k \in told THEN Append(events[k], status)
                                                      ELSE events[k]]

WorkloadChanges ==
    /\ changes < MaxChanges /\ changes' = changes + 1
    /\ \E w \in WorkloadsOf(cr.kind) : \E status \in Counts(w) \ {live[w]} :
         /\ cr.kind # "driver" => live[w].desired = 1 /\ status.desired = 1
         /\ live' = [live EXCEPT ![w] = status]
         /\ Notify(w, status)
    /\ UNCHANGED <<cr, crSeen, fresh, current, seen, watching, pc, inst, override,
                   handlerLock, statusLock, wake, requeue, giveUps>>

\* The manager's cache learns of a workload's status.
CacheSync(w) ==
    /\ seen[w] # live[w]
    /\ seen' = [seen EXCEPT ![w] = live[w]]
    /\ UNCHANGED <<cr, crSeen, fresh, current, live, watching, events, pc, inst, override,
                   handlerLock, statusLock, wake, requeue, changes, giveUps>>

\* It learns of the CR; a new generation is put into the work queue.
CRCacheSync ==
    /\ ~fresh
    /\ crSeen' = cr /\ fresh' = TRUE
    /\ wake' = (wake \/ crSeen.spec # cr.spec)
    /\ UNCHANGED <<cr, current, live, seen, watching, events, pc, inst, override,
                   handlerLock, statusLock, requeue, changes, giveUps>>

Resync_mut(k) == \* bug: a resync period of 0, that is none
    FALSE /\ UNCHANGED vars

\* The informers of ContentWatch hand every object to its handler again,
\* REFRESH_MINUTES (60 by default) after the last time.
Resync(k) ==
    /\ watching /\ events[k] = << >>
    /\ \E w \in Watched(k) \cap WorkloadsOf(cr.kind) :
         /\ w = "nodePods" => live[w].available > 0
         /\ events' = [events EXCEPT ![k] = <<live[w]>>]
    /\ UNCHANGED <<cr, crSeen, fresh, current, live, seen, watching, pc, inst, override,
                   handlerLock, statusLock, wake, requeue, changes, giveUps>>

(***************************************************************************)
(* calculateState: the controller's counts are those of the event, for the *)
(* deployment handler, and of the cached controller Deployment otherwise;  *)
(* an authorization server has none, and no DaemonSet.                     *)
(* The caches of the workloads lag independently, so that reading them at  *)
(* one moment gives what reading them one after the other can give.        *)
(***************************************************************************)
NodeGood(view) == view["node"].desired = view["nodePods"].available

\* Both checks go through the Deployments of the namespace, so that one that is
\* not there (0 of 0) is good.
AllAvailable(view, ws) == \A w \in ws : view[w].desired = view[w].available

ObservabilityStatusCheck(view) == AllAvailable(view, WorkloadsOf(cr.kind) \cap {"otel"})

\* The gateway controller is looked for under a name no Deployment has.
AuthProxyStatusCheck(view) ==
    AllAvailable(view, WorkloadsOf(cr.kind) \cap {"role-service", "proxy-server"})

Running(controller, view) ==
    /\ controller.desired = controller.available /\ NodeGood(view)
    /\ ObservabilityStatusCheck(view) /\ AuthProxyStatusCheck(view)

CalculateState_mut(i, controller) == \* bug: a state the CR does not have
    [i EXCEPT !.state = IF Running(controller, seen) THEN "Running" ELSE "Failed",
              !.controller = controller]

\* The last successful configuration of an authorization server is set here.
CalculateState(i, controller) ==
    LET running == Running(controller, seen)
    IN  [i EXCEPT !.state = IF running THEN "Succeeded" ELSE "Failed",
                  !.controller = controller,
                  !.lsc = IF running /\ i.kind # "driver" THEN i.spec ELSE @]

LastSuccessful_mut(i) == \* bug: the spec, applied or not
    IF i.state = "Succeeded" /\ i.controller.desired = Replicas /\ i.applied # 0
    THEN i.spec ELSE i.lsc

\* That of a driver becomes the annotation of the process's copy.
LastSuccessful(i) ==
    IF i.state = "Succeeded" /\ i.controller.desired = Replicas /\ i.applied # 0
    THEN i.applied ELSE i.lsc

(***************************************************************************)
(* UpdateStatus.  It takes the mutex and computes the status into the      *)
(* process's copy; then it reads the CR again and writes that status,      *)
(* retrying while the cached CR it reads is out of date.                   *)
(***************************************************************************)
StartUpdateStatus(p) ==
    /\ pc[p] = "updateStatus" /\ statusLock = Free
    /\ statusLock' = p
    /\ LET i == CalculateState(inst[p], IF p = "deployments" THEN override
                                                            ELSE seen["controller"])
       IN  inst' = [inst EXCEPT ![p] = [i EXCEPT !.lsc = LastSuccessful(i)]]
    /\ pc' = [pc EXCEPT ![p] = "write"]
    /\ UNCHANGED <<cr, crSeen, fresh, current, live, seen, watching, events, override,
                   handlerLock, wake, requeue, changes, giveUps>>

Written(i) == [cr EXCEPT !.state = i.state, !.controller = i.controller, !.lsc = i.lsc]

\* The worker is back in Reconcile, a handler returns.  Reconcile is called
\* again when UpdateStatus failed or found the driver not running, and else
\* starts the content watch.
UpdateStatusReturns(p, ok) ==
    /\ statusLock' = Free
    /\ pc' = [pc EXCEPT ![p] = "idle"]
    /\ inst' = [inst EXCEPT ![p] = NoCopy]
    /\ handlerLock' = IF p \in Handlers THEN Free ELSE handlerLock
    /\ override' = IF p = "deployments" THEN PodCounts(0, 0) ELSE override
    /\ wake' = (wake \/ (p = "worker" /\ ~ok))
    /\ watching' = (watching \/ (p = "worker" /\ ok))

\* A write that changes nothing does not make a new version.
WriteStatus(p) ==
    /\ pc[p] = "write" /\ fresh
    /\ cr' = Written(inst[p])
    /\ fresh' = (cr' = cr) /\ current' = (current /\ cr' = cr)
    /\ UpdateStatusReturns(p, inst[p].state = "Succeeded")
    /\ UNCHANGED <<crSeen, live, seen, events, requeue, changes, giveUps>>

GiveUp_mut(p) == \* bug: the mutex is not released on the error path
    /\ pc[p] = "write" /\ ~fresh
    /\ giveUps < MaxGiveUps /\ giveUps' = giveUps + 1
    /\ pc' = [pc EXCEPT ![p] = "idle"]
    /\ handlerLock' = IF p \in Handlers THEN Free ELSE handlerLock
    /\ wake' = (wake \/ p = "worker")
    /\ UNCHANGED <<cr, crSeen, fresh, current, live, seen, watching, events, inst, override,
                   statusLock, requeue, changes>>

\* Every retry found a version conflict; a handler only logs that.
GiveUp(p) ==
    /\ pc[p] = "write" /\ ~fresh
    /\ giveUps < MaxGiveUps /\ giveUps' = giveUps + 1
    /\ UpdateStatusReturns(p, FALSE)
    /\ UNCHANGED <<cr, crSeen, fresh, current, live, seen, events, requeue, changes>>

(***************************************************************************)
(* handleDeploymentUpdate, handleDaemonsetUpdate, handlePodsUpdate.        *)
(***************************************************************************)
\* Lock, read the CR from the cache; the deployment handler passes on the
\* counts of the event, whichever Deployment with the CSM's labels it is of.
Handle(k) ==
    /\ pc[k] = "idle" /\ events[k] # << >> /\ handlerLock = Free
    /\ handlerLock' = k
    /\ events' = [events EXCEPT ![k] = Tail(@)]
    /\ inst' = [inst EXCEPT ![k] = CachedCopy]
    /\ override' = IF k = "deployments" THEN Head(events[k]) ELSE override
    /\ pc' = [pc EXCEPT ![k] = "updateStatus"]
    /\ UNCHANGED <<cr, crSeen, fresh, current, live, seen, watching, statusLock,
                   wake, requeue, changes, giveUps>>

(***************************************************************************)
(* What Reconcile does to the status.                                      *)
(***************************************************************************)
\* Read the CR from the cache.
Reconcile ==
    /\ pc["worker"] = "idle" /\ wake
    /\ wake' = FALSE
    /\ inst' = [inst EXCEPT !["worker"] = CachedCopy] /\ current' = fresh
    /\ pc' = [pc EXCEPT !["worker"] = "handleSuccess"]
    /\ UNCHANGED <<cr, crSeen, fresh, live, seen, watching, events, override,
                   handlerLock, statusLock, requeue, changes, giveUps>>

\* HandleSuccess calculates the state, under the mutex, before anything is
\* applied.  Of what calculateState puts into the worker's copy, UpdateStatus
\* overwrites all but the last successful configuration.
HandleSuccess ==
    /\ pc["worker"] = "handleSuccess" /\ statusLock = Free
    /\ requeue' = ~Running(seen["controller"], seen)
    /\ LET i == CalculateState(inst["worker"], seen["controller"])
       IN  inst' = [inst EXCEPT !["worker"].lsc = i.lsc]
    /\ pc' = [pc EXCEPT !["worker"] = "sync"]
    /\ UNCHANGED <<cr, crSeen, fresh, current, live, seen, watching, events, override,
                   handlerLock, statusLock, wake, changes, giveUps>>

\* SyncCSM records the configuration in the annotation, of the CR and of the
\* worker's copy; this is a new version even of the same configuration, since
\* the annotation has the resourceVersion in it.  Reconcile does not report the
\* status when HandleSuccess asked for another reconcile.
Sync ==
    /\ pc["worker"] = "sync" /\ cr.kind = "driver" /\ current
    /\ cr' = [cr EXCEPT !.applied = inst["worker"].spec]
    /\ fresh' = FALSE
    /\ inst' = [inst EXCEPT !["worker"] = IF requeue THEN NoCopy
                                          ELSE [@ EXCEPT !.applied = inst["worker"].spec]]
    /\ pc' = [pc EXCEPT !["worker"] = IF requeue THEN "idle" ELSE "updateStatus"]
    /\ wake' = (wake \/ requeue)
    /\ requeue' = FALSE /\ current' = FALSE
    /\ UNCHANGED <<crSeen, live, seen, watching, events, override,
                   handlerLock, statusLock, changes, giveUps>>

\* The worker's copy is out of date: the Update of the annotation is refused.
SyncConflict ==
    /\ pc["worker"] = "sync" /\ cr.kind = "driver" /\ ~current
    /\ inst' = [inst EXCEPT !["worker"] = NoCopy]
    /\ pc' = [pc EXCEPT !["worker"] = "idle"]
    /\ wake' = TRUE /\ requeue' = FALSE
    /\ UNCHANGED <<cr, crSeen, fresh, current, live, seen, watching, events, override,
                   handlerLock, statusLock, changes, giveUps>>

\* SyncCSM of an authorization server creates the Deployments that are not
\* there, and returns; the annotation is not written.
SyncAuthorization ==
    /\ pc["worker"] = "sync" /\ cr.kind # "driver"
    /\ live' = [w \in Workloads |-> IF w \in WorkloadsOf(cr.kind) /\ live[w] = PodCounts(0, 0)
                                   THEN PodCounts(1, 0) ELSE live[w]]
    /\ inst' = [inst EXCEPT !["worker"] = IF requeue THEN NoCopy ELSE @]
    /\ pc' = [pc EXCEPT !["worker"] = IF requeue THEN "idle" ELSE "updateStatus"]
    /\ wake' = (wake \/ requeue)
    /\ requeue' = FALSE /\ current' = FALSE
    /\ UNCHANGED <<cr, crSeen, fresh, seen, watching, events, override,
                   handlerLock, statusLock, changes, giveUps>>

Process(p) == StartUpdateStatus(p) \/ WriteStatus(p) \/ GiveUp(p)

Worker == Reconcile \/ HandleSuccess \/ Sync \/ SyncConflict \/ SyncAuthorization
          \/ Process("worker")

Next ==
    \/ EditSpec \/ WorkloadChanges \/ CRCacheSync \/ Worker
    \/ \E w \in Workloads : CacheSync(w)
    \/ \E k \in Handlers : Resync(k) \/ Handle(k) \/ Process(k)

Spec == Init /\ [][Next]_vars

\* Every process runs on, the caches catch up, and the informers resync.  A
\* handler waits for a mutex that others take and release again and again;
\* Go's mutexes are fair to waiters (starvation mode), hence SF.
Fairness ==
    /\ WF_vars(CRCacheSync) /\ \A w \in Workloads : WF_vars(CacheSync(w))
    /\ SF_vars(Worker)
    /\ \A k \in Handlers : SF_vars(Handle(k)) /\ SF_vars(Process(k)) /\ WF_vars(Resync(k))

FairSpec == Spec /\ Fairness

TypeOK ==
    /\ cr \in CRs /\ crSeen \in CRs /\ inst \in [Processes -> CRs]
    /\ {fresh, current, watching, wake, requeue} \subseteq BOOLEAN
    /\ \A w \in Workloads : live[w] \in Counts(w) /\ seen[w] \in Counts(w)
    /\ \A k \in Handlers : events[k] \in Seq(UNION {Counts(w) : w \in Watched(k)})
    /\ pc \in [Processes -> {"idle", "handleSuccess", "sync", "updateStatus", "write"}]
    /\ override \in UNION {Counts(w) : w \in Watched("deployments")}
    /\ handlerLock \in Handlers \cup {Free} /\ statusLock \in Processes \cup {Free}
    /\ changes \in 0..MaxChanges /\ giveUps \in 0..MaxGiveUps

(***************************************************************************)
(* Properties.                                                             *)
(***************************************************************************)
\* The last successful configuration of a driver is one that SyncCSM recorded
\* as applied, however old the copy it was written from.
SuccessfulWasApplied == cr.kind = "driver" => cr.lsc <= cr.applied

\* A handler that took an event gets through: neither mutex is kept by a
\* process that failed, and no two processes wait for each other.
HandlersReturn == \A k \in Handlers : pc[k] = "updateStatus" ~> pc[k] = "idle"

\* The state a reader of the API server would compute.
TrueState == IF Running(live["controller"], live) THEN "Succeeded" ELSE "Failed"

\* Once deployed, the CR's state settles on that of the workloads, although
\* the handlers read a cache that may be older than the event, and no handler
\* is told of some of an authorization server's Deployments: a later event, or
\* the resync of the other Deployments, corrects it.
StateSettles == <>[](watching => cr.state = TrueState)

(***************************************************************************)
(* Claims of comments in the code.                                         *)
(***************************************************************************)
\* "ControllerStatus is the status of Controller pods": the desired replicas
\* it shows are the driver's.
ControllerStatusIsControllers == cr.kind = "driver" => cr.controller.desired \in {0, Replicas}

\* "LastSuccessfulConfiguration is configurations details only when the CSM
\* CR goes into a successful state": a write that changes it reports success.
SuccessfulOnlyWhenSucceeded ==
    [][cr'.lsc # cr.lsc => cr'.state = "Succeeded"]_vars
=============================================================================
