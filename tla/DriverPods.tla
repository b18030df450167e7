----------------------------- MODULE DriverPods -----------------------------
(***************************************************************************)
(* SyncCSM from the CR to the driver's Deployment and DaemonSet, step by   *)
(* step between the reads it makes: the csm-images ConfigMap is read at    *)
(* the start and again by each of the two authorization sidecars, and the  *)
(* Secret karavi-authorization-config twice for each of them, once for the *)
(* mounts and once for the volumes.  Nothing watches either object.        *)
(* PodTemplates and PodInjection say what the steps compute.               *)
(***************************************************************************)
EXTENDS PodInjection

CONSTANTS
    CRs,         \* the specs a user may give one CR; all pass the prechecks
    ImageMaps,   \* what csm-images may hold for the CR's version: images by key, and
                 \* whether it is valid (it parses, and no image is empty)
    OpenShift,   \* the cluster is OpenShift or Harvester
    MaxEdits,    \* bound: edits of the CR
    MaxChanges,  \* bound: changes of the ConfigMap and of the Secret
    MaxFaults    \* bound: failed calls and restarts of the operator

ASSUME BoundsAssumption ==
    /\ OpenShift \in BOOLEAN
    /\ MaxEdits \in Nat /\ MaxChanges \in Nat /\ MaxFaults \in Nat

VARIABLES
    cr,        \* the CR's spec
    queued,    \* its key is in the work queue
    csmImages, \* the ConfigMap csm-images
    karavi,    \* the Secret karavi-authorization-config exists
    worker,    \* the reconcile under way
    cluster,   \* the applied pods and rules
    edits, changes, faults

vars == <<cr, queued, csmImages, karavi, worker, cluster, edits, changes, faults>>

NoPod == [containers |-> << >>, init |-> << >>, volumes |-> << >>, rules |-> {}]

NoContainer == Container("", << >>, {}, << >>)

Steps == {"idle", "resolve", "config", "adjust", "modules", "controller volumes",
          "node container", "node volumes", "controller role", "deployment",
          "daemonset"}

\* seen, unread and raced are history: the contents csm-images had during the last
\* reconcile, whether it could not be read for an authorization sidecar, and
\* whether karavi was deleted during this one or passed for found when it was not
\* there.
Idle(seen, unread) ==
    [at |-> "idle", cr |-> cr, matched |-> << >>, controller |-> NoPod, node |-> NoPod,
     module |-> 1, sidecar |-> NoContainer, seen |-> seen, unread |-> unread,
     raced |-> FALSE]

Init ==
    /\ cr \in CRs /\ queued = TRUE /\ csmImages \in ImageMaps /\ karavi \in BOOLEAN
    /\ worker = Idle({}, FALSE)
    /\ cluster = [controller |-> NoPod, node |-> NoPod, controllerRules |-> {}, nodeRules |-> {}]
    /\ edits = 0 /\ changes = 0 /\ faults = 0

(***************************************************************************)
(* The user.                                                               *)
(***************************************************************************)
Edit ==
    /\ edits < MaxEdits /\ edits' = edits + 1
    /\ \E c \in CRs \ {cr} : c.driver = cr.driver /\ cr' = c
    /\ queued' = TRUE
    /\ UNCHANGED <<csmImages, karavi, worker, cluster, changes, faults>>

ChangeImages ==
    /\ changes < MaxChanges /\ changes' = changes + 1
    /\ csmImages' \in ImageMaps \ {csmImages}
    /\ worker' = IF worker.at = "idle" THEN worker
                 ELSE [worker EXCEPT !.seen = @ \cup {csmImages'}]
    /\ UNCHANGED <<cr, queued, karavi, cluster, edits, faults>>

ChangeSecret ==
    /\ changes < MaxChanges /\ changes' = changes + 1
    /\ karavi' = ~karavi
    /\ worker' = [worker EXCEPT !.raced = @ \/ (karavi /\ worker.at # "idle")]
    /\ UNCHANGED <<cr, queued, csmImages, cluster, edits, faults>>

(***************************************************************************)
(* The worker.                                                             *)
(***************************************************************************)
Unchanged == UNCHANGED <<cr, csmImages, karavi, edits, changes, faults>>

\* The worker goes on with the given fields of its record changed.
Continue(w) == worker' = w /\ UNCHANGED <<queued, cluster>> /\ Unchanged

Reconcile ==
    /\ worker.at = "idle" /\ queued
    /\ worker' = [worker EXCEPT !.at = "resolve", !.cr = cr, !.seen = {csmImages},
                              !.unread = FALSE]
    /\ queued' = FALSE
    /\ UNCHANGED cluster /\ Unchanged

\* An error goes back to the work queue.
Abort ==
    worker' = Idle({}, FALSE) /\ queued' = TRUE /\ UNCHANGED cluster

\* The version of the CR looked up in the ConfigMap; without one nothing matches.
UpdateUsingConfigMap(c) == IF c.version THEN csmImages.images ELSE << >>

ResolveVersion ==
    /\ worker.at = "resolve"
    /\ IF worker.cr.version /\ ~csmImages.valid
       THEN Abort /\ Unchanged
       ELSE Continue([worker EXCEPT !.at = "config", !.matched = UpdateUsingConfigMap(worker.cr)])

GetDriverConfig_mut == \* bug: the ConfigMap is read again for the node
    /\ worker.at = "config"
    /\ Continue([worker EXCEPT !.at = "adjust",
                               !.controller = GetController(worker.cr, worker.matched),
                               !.node = GetNode(worker.cr, UpdateUsingConfigMap(worker.cr))])

GetDriverConfig ==
    /\ worker.at = "config"
    /\ Continue([worker EXCEPT !.at = "adjust",
                               !.controller = GetController(worker.cr, worker.matched),
                               !.node = GetNode(worker.cr, worker.matched)])

AdjustDriver_mut == \* bug: the first module has index 0
    /\ worker.at = "adjust"
    /\ Continue([worker EXCEPT !.at = "modules", !.module = 0,
                               !.controller = AdjustController(@, worker.cr, worker.matched),
                               !.node = AdjustNode(@, worker.cr, OpenShift)])

AdjustDriver ==
    /\ worker.at = "adjust"
    /\ Continue([worker EXCEPT !.at = "modules", !.module = 1,
                               !.controller = AdjustController(@, worker.cr, worker.matched),
                               !.node = AdjustNode(@, worker.cr, OpenShift)])

\* The module whose turn it is; the others are disabled or have no sidecar.
AtModule(name) ==
    /\ worker.at = "modules" /\ worker.module <= Len(worker.cr.modules)
    /\ worker.cr.modules[worker.module] = name

InjectResiliency ==
    /\ AtModule("resiliency")
    /\ Continue([worker EXCEPT !.module = @ + 1,
            !.controller = ResiliencyInjectDeployment(@, worker.cr, worker.matched),
            !.node = ResiliencyInjectDaemonset(@, worker.cr, worker.matched)])

InjectReplication ==
    /\ AtModule("replication")
    /\ Continue([worker EXCEPT !.module = @ + 1,
            !.controller = ReplicationInjectDeployment(@, worker.cr, worker.matched)])

AtAuthContainer == AtModule("authorization") \/ worker.at = "node container"

\* getAuthApplyCR, for the Deployment and then for the DaemonSet.  That the
\* ConfigMap is not valid is only logged.
WithAuthContainer(images, found) ==
    [worker EXCEPT !.at = IF @ = "modules" THEN "controller volumes" ELSE "node volumes",
                   !.sidecar = AuthContainer(worker.cr, images, found)]

InjectAuthContainer ==
    AtAuthContainer /\ Continue(WithAuthContainer(UpdateUsingConfigMap(worker.cr), karavi))

\* A read fails and the worker goes on.
GoOn(w) ==
    /\ faults < MaxFaults /\ faults' = faults + 1
    /\ worker' = w /\ UNCHANGED <<cr, queued, csmImages, karavi, cluster, edits, changes>>

\* That csm-images could not be read is only logged, too, and GetSecret has an
\* error for NotFound only: a Secret it could not read passes for found, which
\* makes a difference when there is none.
InjectUnread ==
    /\ AtAuthContainer
    /\ \E lost \in (SUBSET {"csm-images", "karavi"}) \ {{}} :
           LET images == IF "csm-images" \in lost THEN << >> ELSE UpdateUsingConfigMap(worker.cr)
           IN  /\ "karavi" \in lost => ~karavi
               /\ GoOn([WithAuthContainer(images, karavi \/ "karavi" \in lost) EXCEPT
                            !.unread = @ \/ "csm-images" \in lost,
                            !.raced = @ \/ "karavi" \in lost])

WithAuth(pod, found) ==
    [pod EXCEPT !.containers = Append(@, worker.sidecar),
                !.volumes = @ \o getAuthApplyVolumes(worker.cr, found)]

WithAuthVolumes(found) ==
    IF worker.at = "controller volumes"
    THEN [worker EXCEPT !.at = "node container", !.controller = WithAuth(@, found)]
    ELSE [worker EXCEPT !.at = "modules", !.module = @ + 1, !.node = WithAuth(@, found)]

AtAuthVolumes == worker.at \in {"controller volumes", "node volumes"}

InjectAuthVolumes == AtAuthVolumes /\ Continue(WithAuthVolumes(karavi))

InjectUnreadVolumes == AtAuthVolumes /\ ~karavi /\ GoOn(WithAuthVolumes(TRUE))

\* A call of the API server that succeeds.
Applied(w, c) == worker' = w /\ cluster' = c /\ UNCHANGED queued /\ Unchanged

At(step) == [worker EXCEPT !.at = step]

\* The ClusterRoles.  The Role of the nodes, which gets rules of podmon the same
\* way (ResiliencyInjectRole), is left out.
SyncClusterRole ==
    \/ /\ worker.at = "modules" /\ worker.module > Len(worker.cr.modules)
       /\ Applied(At("controller role"), [cluster EXCEPT !.nodeRules = worker.node.rules])
    \/ /\ worker.at = "controller role"
       /\ Applied(At("deployment"), [cluster EXCEPT !.controllerRules = worker.controller.rules])

\* What the API server checks in a pod template: every mount has its volume,
\* and no list has two entries with one key.
ServerAccepts(pod) ==
    LET all == pod.containers \o pod.init
    IN  /\ IsInjective(pod.volumes)
        /\ IsInjective([i \in DOMAIN all |-> all[i].name])
        /\ \A i \in DOMAIN all : /\ all[i].mounts \subseteq ToSet(pod.volumes)
                                 /\ IsInjective([j \in DOMAIN all[i].env |-> all[i].env[j].name])

SyncDeployment ==
    /\ worker.at = "deployment" /\ ServerAccepts(worker.controller)
    /\ Applied(At("daemonset"), [cluster EXCEPT !.controller = worker.controller])

SyncDaemonset_mut == \* bug: done is done, whatever came in between
    /\ worker.at = "daemonset" /\ ServerAccepts(worker.node)
    /\ worker' = Idle(worker.seen, worker.unread) /\ cluster' = [cluster EXCEPT !.node = worker.node]
    /\ queued' = FALSE /\ Unchanged

SyncDaemonset ==
    /\ worker.at = "daemonset" /\ ServerAccepts(worker.node)
    /\ Applied(Idle(worker.seen, worker.unread), [cluster EXCEPT !.node = worker.node])

Rejected ==
    /\ \/ worker.at = "deployment" /\ ~ServerAccepts(worker.controller)
       \/ worker.at = "daemonset" /\ ~ServerAccepts(worker.node)

Reject_mut == \* bug: the same pods are sent again
    Rejected /\ Continue(worker)

Reject == Rejected /\ Abort /\ Unchanged

\* A call fails, or the operator restarts; its queue is filled anew.
Fail ==
    /\ worker.at # "idle" /\ faults < MaxFaults /\ faults' = faults + 1
    /\ Abort /\ UNCHANGED <<cr, csmImages, karavi, edits, changes>>

Work ==
    \/ Reconcile \/ ResolveVersion \/ GetDriverConfig \/ AdjustDriver
    \/ InjectResiliency \/ InjectReplication \/ InjectAuthContainer \/ InjectAuthVolumes
    \/ SyncClusterRole \/ SyncDeployment \/ SyncDaemonset \/ Reject

Next ==
    \/ Work \/ Edit \/ ChangeImages \/ ChangeSecret
    \/ InjectUnread \/ InjectUnreadVolumes \/ Fail

Spec == Init /\ [][Next]_vars /\ WF_vars(Work)

(***************************************************************************)
(* Properties.                                                             *)
(***************************************************************************)
\* The variables hold what their declarations say: a worker at one of its
\* steps, with a spec of the CR, and pods whose containers have names.
TypeOK ==
    /\ cr \in CRs /\ csmImages \in ImageMaps
    /\ {queued, karavi, worker.raced, worker.unread} \subseteq BOOLEAN
    /\ worker.at \in Steps /\ worker.cr \in CRs /\ worker.seen \subseteq ImageMaps
    /\ worker.module \in 1..(Len(worker.cr.modules) + 1)
    /\ \A pod \in {cluster.controller, cluster.node, worker.controller, worker.node} :
           /\ DOMAIN pod = DOMAIN NoPod
           /\ \A i \in DOMAIN pod.containers : DOMAIN pod.containers[i] = DOMAIN NoContainer
    /\ edits \in 0..MaxEdits /\ changes \in 0..MaxChanges /\ faults \in 0..MaxFaults

\* The CR is one whose authorization sidecar can be mounted whatever Secrets
\* there are: the volume it takes for the driver's Secret is there, and its two
\* readings of the certificate variables do not keep a mount without a volume.
Mountable(c) ==
    Contains(c.modules, "authorization") =>
        /\ c.driver = "powermax" /\ c.driverSecret => c.useSecret
        /\ SkipCertVolume(c) => SkipCertMount(c)

\* The pods SyncCSM puts together are accepted by the API server: every volume
\* a container mounts is there, and no container, volume or variable is added
\* twice, whatever modules the CR has and in whatever order.  The one exception
\* is a Secret that is deleted between the read for the mounts and the read for
\* the volumes of the authorization sidecar (getAuthApplyCR,
\* getAuthApplyVolumes), or that is not there when the first of them fails and
\* passes for found.
RejectedOnlyIfRaced ==
    Rejected /\ Mountable(worker.cr) =>
        worker.raced /\ Contains(worker.cr.modules, "authorization")

\* Everything asked for so far is done.
Settled == worker.at = "idle" /\ ~queued

SidecarOf == [resiliency |-> "podmon", replication |-> "dell-csi-replicator",
              authorization |-> "karavi-authorization-proxy"]

\* The pod has the sidecars of the modules that are on, once each, and no other.
HasSidecars(pod, on) ==
    \A m \in DOMAIN SidecarOf :
        IF m \in on THEN \E i \in DOMAIN pod.containers : Named(pod.containers, SidecarOf[m]) = {i}
                    ELSE Named(pod.containers, SidecarOf[m]) = {}

\* When the worker is done, both pods run the sidecars of exactly the modules
\* the CR enables, and the roles of their service accounts have the rules of
\* exactly those: a module dropped in the middle of a reconcile, or after one
\* that failed between the roles and the pods, leaves nothing behind.
ModulesAsAsked ==
    LET on == ToSet(cr.modules)
    IN  Settled =>
            /\ HasSidecars(cluster.controller, on)
            /\ HasSidecars(cluster.node, on \ {"replication"})
            /\ \A rules \in {cluster.controllerRules, cluster.nodeRules} :
                   "podmon" \in rules <=> "resiliency" \in on
            /\ "replication" \in cluster.controllerRules <=> "replication" \in on

\* Where the CR lists a container, and under which name.
ListOf(c, name) ==
    CASE name = "podmon" -> c.components["resiliency"]
      [] name = "dell-csi-replicator" -> c.components["replication"]
      [] name = "karavi-authorization-proxy" -> c.components["authorization"]
      [] name = "reverseproxy" -> c.components["csireverseproxy"]
      [] name = "sdc" -> c.initContainers
      [] OTHER -> c.sideCars

EntryOf(pod, name) ==
    CASE name = "podmon" -> IF pod = "node" THEN "podmon-node" ELSE "podmon-controller"
      [] name = "reverseproxy" -> "csipowermax-reverseproxy"
      [] OTHER -> name

\* The image the CR itself gives a container, << >> for none.
Given(c, pod, name) ==
    IF name \in {"driver", "mdm-container"} THEN c.image
    ELSE IF EntryOf(pod, name) \in DOMAIN ListOf(c, name)
    THEN ListOf(c, name)[EntryOf(pod, name)].image ELSE << >>

\* The documented priority: the ConfigMap, the path of the default image under
\* the registry, the image of the CR, the default image.
Priority(c, images, pod, name) ==
    LET key     == CASE name \in {"driver", "mdm-container"} -> c.driver
                     [] name = "reverseproxy" -> "csipowermax-reverseproxy"
                     [] OTHER -> name
        default == Default(CASE name \in {"driver", "mdm-container"} -> c.driver
                             [] name = "sdc-monitor" -> "sdc"
                             [] OTHER -> name)
    IN  IF key \in DOMAIN images THEN images[key]
        ELSE IF c.registry # << >>
        THEN c.registry \o (IF c.retain THEN Tail(default) ELSE <<Last(default)>>)
        ELSE IF Given(c, pod, name) # << >> THEN Given(c, pod, name) ELSE default

\* The images of the pod's containers follow the priority, for a content the
\* ConfigMap had during the reconcile; the authorization sidecar's may follow it
\* without the ConfigMap when that could not be read for it.
FollowsPriority(c, pod, which, exempt) ==
    \A k \in ToSet(pod.containers \o pod.init) :
        \/ k.name \in exempt
        \/ \E m \in worker.seen :
               k.image = Priority(c, IF c.version THEN m.images ELSE << >>, which, k.name)
        \/ /\ k.name = "karavi-authorization-proxy" /\ worker.unread
           /\ k.image = Priority(c, << >>, which, k.name)

\* The sidecars whose module lists other components only: they are not resolved.
Unlisted(c, pod) ==
    {s \in {"podmon", "dell-csi-replicator", "reverseproxy"} :
        ListOf(c, s) # << >> /\ EntryOf(pod, s) \notin DOMAIN ListOf(c, s)}

\* These are resolved twice, which PodTemplatesProofs shows to be once too often.
ResolvedTwice(c) ==
    IF c.registry # << >> /\ ~SafeTwice(c)
    THEN {"mdm-container", "sdc", "karavi-authorization-proxy"} ELSE {}

\* When the worker is done, every container runs the image that the priority
\* documented in GetController gives it, whichever of the six functions that
\* implement it resolved the image (GetController, GetNode, UpdateContainerApply,
\* GetFinalImage, modifyPodmon, getAuthApplyCR).
ImagesByPriority ==
    Settled =>
        /\ FollowsPriority(cr, cluster.controller, "controller",
                           ResolvedTwice(cr) \cup Unlisted(cr, "controller"))
        /\ FollowsPriority(cr, cluster.node, "node",
                           ResolvedTwice(cr) \cup Unlisted(cr, "node"))

\* What ResolveImage and GetController say of every image: the path of the
\* original image is preserved under the registry, and no image is resolved
\* twice.
ImagePathRetained ==
    Settled /\ cr.retain =>
        /\ FollowsPriority(cr, cluster.controller, "controller", Unlisted(cr, "controller"))
        /\ FollowsPriority(cr, cluster.node, "node", Unlisted(cr, "node"))

Images(pod, name) == {k.image : k \in {j \in ToSet(pod.containers \o pod.init) : j.name = name}}

\* The driver of the controller, the driver of the nodes and the init container
\* that runs the driver's image have one image when the worker is done, however
\* csm-images changed while the two pods were put together and applied.
OneDriverImage ==
    Settled =>
        /\ Images(cluster.controller, "driver") = Images(cluster.node, "driver")
        /\ "mdm-container" \notin ResolvedTwice(cr) =>
               Images(cluster.node, "mdm-container") \subseteq Images(cluster.node, "driver")

\* A CR that can be mounted is deployed in the end, once csm-images is valid
\* and nobody edits the CR any more: a rejection is retried, with new reads.
Deploys ==
    <>[](Mountable(cr) /\ csmImages.valid) =>
        <>[](Settled /\ cluster.controller # NoPod /\ cluster.node # NoPod)
=============================================================================
