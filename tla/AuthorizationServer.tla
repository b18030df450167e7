------------------------ MODULE AuthorizationServer ------------------------
(***************************************************************************)
(* The authorization proxy server of one CR: reconcileAuthorization as     *)
(* SyncCSM and the deletion branch call it, the controllers its routes     *)
(* wait for, the move from the NGINX ingress controller (v2.4 and below)   *)
(* to the Gateway API (v2.5), and the package variable that carries the    *)
(* config SecretProviderClass from one call to the next.                   *)
(*                                                                         *)
(* A reconcile is a plan, a sequence of [op, obj]:                         *)
(*   "check"   a test of the CR that may return an error                   *)
(*   "apply" "delete"  an error aborts the reconcile                       *)
(*   "warn"    delete obj; an error is only logged                         *)
(*   "issue" "revoke"  apply or delete objects of cert-manager's kinds     *)
(*   "wait"    poll the Deployment of the controller obj                   *)
(*   "release" remove the finalizer                                        *)
(***************************************************************************)
EXTENDS Naturals, Sequences

CONSTANTS
    Specs,      \* the authorization modules a user may submit
    OpenShift,  \* whether the operator runs on OpenShift
    Lagging,    \* bound: the objects the cache may learn of late
    MaxEdits,   \* bound: edits of the CR
    MaxFaults   \* bound: failed calls, restarts, outages of a controller

\* A module: from v2.5 on or not, its enabled components, the config
\* component (not listed, listed with blank fields, naming a
\* SecretProviderClass), exactly one kind of storage credentials or not, how
\* many of a custom certificate and its key the proxy-server component gives,
\* which every CR lists, enabled or not, forceRemoveModule.
ModuleType ==
    [v25 : BOOLEAN,
     comps : SUBSET {"cert-manager", "proxy-server", "nginx", "nginx-gateway-fabric"},
     config : {"none", "blank", "spc"}, creds : BOOLEAN, custom : 0..2, force : BOOLEAN]

ASSUME ConstantsAssumption ==
    /\ Specs \subseteq ModuleType /\ Specs # {}
    /\ OpenShift \in BOOLEAN /\ MaxEdits \in Nat /\ MaxFaults \in Nat

Objects ==
    {"authCRDs", "certCRDs", "certManager", "server", "redis", "rediscommander", "sentinel",
     "proxyServer", "tenantService", "storageService", "policies", "nginx", "gatewayCert",
     "gatewayCtl", "gateway", "dataPlane", "ingress", "httpRoute", "issuer", "karaviAuth",
     "customCert"}

\* The objects that run and have to come up.
Controllers == {"certManager", "nginx", "gatewayCtl"}

\* The workloads that mount the config SecretProviderClass.
Mounting == {"proxyServer", "tenantService"}

Step(op, obj) == [op |-> op, obj |-> obj]

When(cond, seq) == IF cond THEN seq ELSE << >>

Objs(isDeleting, objs) ==
    [i \in DOMAIN objs |-> Step(IF isDeleting THEN "delete" ELSE "apply", objs[i])]

Certs(isDeleting, obj) == <<Step(IF isDeleting THEN "revoke" ELSE "issue", obj)>>

(***************************************************************************)
(* What each function of reconcileAuthorization does.                      *)
(***************************************************************************)
\* The CRDs stay when cert-manager goes.
CommonCertManager(isDeleting) ==
    When(~isDeleting, <<Step("apply", "certCRDs")>>) \o Objs(isDeleting, <<"certManager">>)

RedisWorkloads(isDeleting) == Objs(isDeleting, <<"redis", "rediscommander", "sentinel">>)

ProxyServer(isDeleting) == Objs(isDeleting, <<"proxyServer">>)

TenantService(isDeleting) == Objs(isDeleting, <<"tenantService">>)

\* "exactly one of SecretProviderClasses or Secrets must be specified", also
\* when the Deployment is to be deleted.
StorageService(isDeleting) == <<Step("check", "creds")>> \o Objs(isDeleting, <<"storageService">>)

\* For v2.3 and above, the versions operatorconfig has.
AuthorizationServerDeployment(isDeleting) ==
    Objs(isDeleting, <<"server">>) \o RedisWorkloads(isDeleting) \o ProxyServer(isDeleting)
    \o TenantService(isDeleting) \o StorageService(isDeleting)

GatewayController_mut(isDeleting) == \* bug: the data plane goes first
    Objs(isDeleting, When(isDeleting, <<"dataPlane">>)) \o Certs(isDeleting, "gatewayCert")
    \o Objs(isDeleting, <<"gatewayCtl", "gateway">>)

\* The controller, then the Gateway it serves; what the controller made of
\* that Gateway is not in the manifest.
GatewayController(isDeleting) ==
    Certs(isDeleting, "gatewayCert")
    \o Objs(isDeleting, <<"gatewayCtl", "gateway">> \o When(isDeleting, <<"dataPlane">>))

NginxIngressController(isDeleting) == Objs(isDeleting, <<"nginx">>)

NginxIngressControllerCleanup == <<Step("warn", "nginx")>>

\* The component keeps its old name after an upgrade.
IngressController(isDeleting, m) ==
    IF m.v25 /\ m.comps \cap {"nginx", "nginx-gateway-fabric"} # {}
      THEN When(~isDeleting, NginxIngressControllerCleanup) \o GatewayController(isDeleting)
      ELSE When("nginx" \in m.comps, NginxIngressController(isDeleting))

AuthorizationHTTPRoute_mut(isDeleting) == \* bug: a deletion waits as well
    <<Step("wait", "gatewayCtl")>> \o Objs(isDeleting, <<"httpRoute">>)

AuthorizationHTTPRoute_mut2(isDeleting) == \* bug: it still waits for the old controller
    When(~isDeleting, <<Step("wait", "nginx")>>) \o Objs(isDeleting, <<"httpRoute">>)

AuthorizationHTTPRoute(isDeleting) ==
    When(~isDeleting, <<Step("wait", "gatewayCtl")>>) \o Objs(isDeleting, <<"httpRoute">>)

AuthorizationIngress(isDeleting, m) ==
    IF m.v25 /\ ~OpenShift
      THEN AuthorizationHTTPRoute(isDeleting)
      ELSE When(~isDeleting /\ ~OpenShift, <<Step("wait", "nginx")>>)
           \o Objs(isDeleting, <<"ingress">>)

InstallWithCerts(isDeleting, m) ==
    <<Step("check", "certificate")>>
    \o (IF m.custom = 0 THEN Certs(isDeleting, "issuer") \o Certs(isDeleting, "karaviAuth")
                        ELSE Objs(isDeleting, <<"customCert">>))

reconcileAuthorization(isDeleting, m) ==
    When("cert-manager" \in m.comps, CommonCertManager(isDeleting))
    \o When("proxy-server" \in m.comps,
            AuthorizationServerDeployment(isDeleting) \o Objs(isDeleting, <<"policies">>))
    \o When(~OpenShift, IngressController(isDeleting, m))
    \o When("proxy-server" \in m.comps, AuthorizationIngress(isDeleting, m))
    \o InstallWithCerts(isDeleting, m)

SyncPlan(m) ==
    <<Step("check", "precheck")>> \o When("proxy-server" \in m.comps, <<Step("apply", "authCRDs")>>)
    \o reconcileAuthorization(FALSE, m)

\* removeModule when forceRemoveModule is set; removeDriver has no driver.
RemovalPlan(m) ==
    <<Step("check", "precheck")>> \o When(m.force, reconcileAuthorization(TRUE, m))
    \o <<Step("release", "cr")>>

\* AuthorizationServerPrecheck.
Precheck(m) == m.v25 \/ "nginx-gateway-fabric" \notin m.comps

Passes(m, what) ==
    CASE what = "precheck" -> Precheck(m)
      [] what = "creds" -> m.creds
      [] what = "certificate" -> m.custom # 1

VARIABLES
    cr,        \* the CR: exists, deleting, its module
    queued,    \* the CR's key is in the work queue
    working,   \* the worker is in Reconcile
    copy,      \* the module in the copy of the CR it works on
    current,   \* that copy has the CR's latest resourceVersion
    plan,      \* the calls it still has to make
    configSPC, \* configSecretProviderClassName is not empty
    cluster,   \* the objects that exist
    mounts,    \* the workloads that mount a config SecretProviderClass
    up,        \* the controllers that are ready
    lingering, \* a gateway controller whose Deployment is gone still runs
    seen,      \* the ready controllers in the manager's cache
    unseen,    \* the objects that exist and are not in that cache yet
    abandoned, \* history: what the last reconcile was to delete and left where it
               \* was, not having found it in the cache or having logged a failure
    edits, faults

workerVars == <<working, copy, current, plan>>
clusterVars == <<cluster, mounts, up, lingering, seen, unseen>>
vars == <<cr, queued, workerVars, configSPC, clusterVars, abandoned, edits, faults>>

Init ==
    /\ \E m \in Specs : cr = [exists |-> TRUE, deleting |-> FALSE, module |-> m]
    /\ queued = TRUE /\ working = FALSE /\ copy = cr.module /\ current = FALSE /\ plan = << >>
    /\ configSPC = FALSE /\ cluster = {} /\ mounts = {} /\ up = {} /\ lingering = FALSE
    /\ seen = {} /\ unseen = {} /\ abandoned = {} /\ edits = 0 /\ faults = 0

(***************************************************************************)
(* The user, the controllers and the cache.                                *)
(***************************************************************************)
EditCR ==
    /\ cr.exists /\ edits < MaxEdits /\ edits' = edits + 1
    /\ \/ \E m \in Specs \ {cr.module} : cr' = [cr EXCEPT !.module = m]
       \/ ~cr.deleting /\ cr' = [cr EXCEPT !.deleting = TRUE]
    /\ queued' = TRUE /\ current' = FALSE
    /\ UNCHANGED <<working, copy, plan, configSPC, clusterVars, abandoned, faults>>

Fault == faults < MaxFaults /\ faults' = faults + 1

ControllerUp ==
    /\ \E c \in (Controllers \cap cluster) \ up : up' = up \cup {c}
    /\ UNCHANGED <<cr, queued, workerVars, configSPC, cluster, mounts, lingering, seen, unseen,
                   abandoned, edits, faults>>

ControllerDown ==
    /\ Fault /\ \E c \in up : up' = up \ {c}
    /\ UNCHANGED <<cr, queued, workerVars, configSPC, cluster, mounts, lingering, seen, unseen,
                   abandoned, edits>>

\* nginx-gateway-fabric serves the Gateway.
SpawnDataPlane ==
    /\ "gateway" \in cluster /\ "dataPlane" \notin cluster /\ ("gatewayCtl" \in up \/ lingering)
    /\ cluster' = cluster \cup {"dataPlane"} /\ unseen' = unseen \cup (Lagging \cap {"dataPlane"})
    /\ UNCHANGED <<cr, queued, workerVars, configSPC, mounts, up, lingering, seen, abandoned,
                   edits, faults>>

\* The pods of a deleted Deployment end.
Terminate ==
    /\ lingering /\ lingering' = FALSE
    /\ UNCHANGED <<cr, queued, workerVars, configSPC, cluster, mounts, up, seen, unseen, abandoned,
                   edits, faults>>

CacheSync ==
    /\ <<seen, unseen>> # <<up, {}>> /\ seen' = up /\ unseen' = {}
    /\ UNCHANGED <<cr, queued, workerVars, configSPC, cluster, mounts, up, lingering, abandoned,
                   edits, faults>>

(***************************************************************************)
(* Reconcile.                                                              *)
(***************************************************************************)
Reconcile ==
    /\ queued /\ ~working /\ cr.exists
    /\ queued' = FALSE /\ working' = TRUE /\ current' = TRUE /\ copy' = cr.module
    /\ plan' = IF cr.deleting THEN RemovalPlan(cr.module) ELSE SyncPlan(cr.module)
    /\ abandoned' = {}
    /\ UNCHANGED <<cr, configSPC, clusterVars, edits, faults>>

Return_mut == \* bug: the rest of the plan is kept
    working' = FALSE /\ current' = FALSE /\ plan' = plan /\ copy' = copy

Return == working' = FALSE /\ current' = FALSE /\ plan' = << >> /\ copy' = copy

ReturnError == Return /\ queued' = TRUE

AtStep(ops) == plan # << >> /\ Head(plan).op \in ops

NextStep ==
    IF Len(plan) = 1 THEN Return /\ UNCHANGED queued
                     ELSE plan' = Tail(plan) /\ UNCHANGED <<working, copy, current, queued>>

UpdateConfig_mut(o) == \* bug: a blank config component leaves the variable alone
    configSPC' = IF o \in Mounting THEN configSPC \/ copy.config = "spc" ELSE configSPC

\* updateConfigGlobalVars is called only when the CR lists the component.
UpdateConfig(o) ==
    configSPC' = IF o \in Mounting /\ copy.config # "none" THEN copy.config = "spc" ELSE configSPC

Put(o) ==
    /\ cluster' = cluster \cup {o}
    /\ unseen' = unseen \cup ((Lagging \cap {o}) \ cluster)
    /\ mounts' = IF o \in Mounting /\ configSPC' THEN mounts \cup {o} ELSE mounts \ {o}
    /\ UNCHANGED <<up, lingering, seen>>

Drop(o) ==
    /\ cluster' = cluster \ {o} /\ unseen' = unseen \ {o} /\ mounts' = mounts \ {o}
    /\ up' = up \ {o}
    /\ lingering' = (lingering \/ (o = "gatewayCtl" /\ o \in up))
    /\ UNCHANGED seen

CheckStep ==
    /\ AtStep({"check"})
    /\ IF Passes(copy, Head(plan).obj) THEN NextStep ELSE ReturnError
    /\ UNCHANGED <<cr, configSPC, clusterVars, abandoned, edits, faults>>

\* ApplyObject creates what the cache does not hold; what exists all the same is
\* an error.
ApplyStep ==
    /\ AtStep({"apply"})
    /\ UpdateConfig(Head(plan).obj)
    /\ IF Head(plan).obj \in unseen THEN ReturnError /\ UNCHANGED clusterVars
                                   ELSE Put(Head(plan).obj) /\ NextStep
    /\ UNCHANGED <<cr, abandoned, edits, faults>>

\* DeleteObject takes what the cache does not hold for deleted.
Delete(o) ==
    IF o \in unseen THEN abandoned' = abandoned \cup {o} /\ UNCHANGED clusterVars
                   ELSE Drop(o) /\ UNCHANGED abandoned

DeleteStep ==
    /\ AtStep({"delete", "warn"})
    /\ UpdateConfig(Head(plan).obj) /\ Delete(Head(plan).obj) /\ NextStep
    /\ UNCHANGED <<cr, edits, faults>>

\* "Failed to cleanup old NGINX Ingress Controller (may not exist)".
CleanupFailureLogged ==
    /\ AtStep({"warn"}) /\ Fault /\ NextStep
    /\ abandoned' = abandoned \cup {Head(plan).obj}
    /\ UNCHANGED <<cr, configSPC, clusterVars, edits>>

\* The API server knows the kinds Certificate and Issuer.
CRDs == "certCRDs" \in cluster

\* It rejects them while the webhook (failurePolicy: Fail) does not answer.
Accepts == CRDs /\ ("certManager" \in cluster => "certManager" \in up)

IssueStep ==
    /\ AtStep({"issue"})
    /\ IF Accepts /\ Head(plan).obj \notin unseen
       THEN Put(Head(plan).obj) /\ NextStep
       ELSE ReturnError /\ UNCHANGED clusterVars
    /\ UNCHANGED <<cr, configSPC, abandoned, edits, faults>>

\* A kind that is not known is an error, not NotFound.
RevokeStep ==
    /\ AtStep({"revoke"})
    /\ IF CRDs THEN Delete(Head(plan).obj) /\ NextStep
               ELSE ReturnError /\ UNCHANGED <<clusterVars, abandoned>>
    /\ UNCHANGED <<cr, configSPC, edits, faults>>

\* WaitForNginxController, WaitForGatewayController: the Deployment is ready
\* in the cache; or it is not found, or ten seconds pass.
WaitStep ==
    /\ AtStep({"wait"})
    /\ IF Head(plan).obj \in seen THEN NextStep ELSE ReturnError
    /\ UNCHANGED <<cr, configSPC, clusterVars, abandoned, edits, faults>>

ReleaseStep ==
    /\ AtStep({"release"})
    /\ IF current THEN cr' = [cr EXCEPT !.exists = FALSE] /\ NextStep
                  ELSE ReturnError /\ UNCHANGED cr
    /\ UNCHANGED <<configSPC, clusterVars, abandoned, edits, faults>>

\* A call fails; it may have taken effect.
StepFails ==
    /\ plan # << >> /\ ~AtStep({"check", "warn"}) /\ Fault /\ ReturnError
    /\ IF AtStep({"apply", "delete"}) THEN UpdateConfig(Head(plan).obj) ELSE UNCHANGED configSPC
    /\ \/ UNCHANGED clusterVars
       \/ AtStep({"apply"}) /\ Head(plan).obj \notin unseen /\ Put(Head(plan).obj)
       \/ AtStep({"delete"}) /\ Head(plan).obj \notin unseen /\ Drop(Head(plan).obj)
    /\ UNCHANGED <<cr, abandoned, edits>>

\* The operator restarts: its package variables are initialised again.
Restart ==
    /\ Fault /\ Return /\ queued' = cr.exists /\ configSPC' = FALSE
    /\ seen' = up /\ unseen' = {}
    /\ UNCHANGED <<cr, cluster, mounts, up, lingering, abandoned, edits>>

Worker ==
    \/ Reconcile \/ CheckStep \/ ApplyStep \/ DeleteStep \/ IssueStep \/ RevokeStep
    \/ WaitStep \/ ReleaseStep

Next ==
    \/ EditCR \/ ControllerUp \/ ControllerDown \/ SpawnDataPlane \/ Terminate \/ CacheSync
    \/ Worker \/ CleanupFailureLogged \/ StepFails \/ Restart

\* The worker takes up what is queued, controllers come up, the cache catches
\* up.  Failures are bounded, not fair.
Spec ==
    /\ Init /\ [][Next]_vars
    /\ WF_vars(Worker) /\ WF_vars(ControllerUp) /\ WF_vars(CacheSync)

TypeOK ==
    /\ cr \in [exists : BOOLEAN, deleting : BOOLEAN, module : Specs]
    /\ {queued, working, current, configSPC, lingering} \subseteq BOOLEAN
    /\ copy \in Specs /\ cluster \subseteq Objects
    /\ mounts \subseteq Mounting \cap cluster /\ up \subseteq Controllers \cap cluster
    /\ seen \subseteq Controllers /\ unseen \subseteq cluster /\ abandoned \subseteq Objects
    /\ edits \in 0..MaxEdits /\ faults \in 0..MaxFaults
    /\ working = (plan # << >>)

(***************************************************************************)
(* Properties.                                                             *)
(***************************************************************************)
ObjectsOf(p, ops) == {p[i].obj : i \in {j \in DOMAIN p : p[j].op \in ops}}

\* No reconcile is under way or due.
Settled == cr.exists /\ ~cr.deleting /\ ~queued /\ ~working

DeploysGateway(m) ==
    m.v25 /\ ~OpenShift /\ m.comps \cap {"nginx", "nginx-gateway-fabric"} # {}

Mounted(m) == IF m.config = "spc" THEN Mounting ELSE {}

\* When reconcileAuthorization has nothing more to do, whatever versions and
\* failures came before: everything of this version is there, no NGINX
\* ingress controller runs beside the Gateway controller it deploys unless
\* the log says so or the cache did not hold it, and a listed config component
\* decides what the proxy server it deploys mounts.
SettledAsAsked ==
    Settled =>
        /\ ObjectsOf(SyncPlan(cr.module), {"apply", "issue"}) \subseteq cluster
        /\ DeploysGateway(cr.module) /\ "nginx" \in cluster => "nginx" \in abandoned
        /\ "proxy-server" \in cr.module.comps /\ cr.module.config # "none"
               => mounts = Mounted(cr.module)

\* What the last reconcile did not delete, and the data plane of a Gateway among
\* that.
Missed == abandoned \cup (IF "gateway" \in abandoned THEN {"dataPlane"} ELSE {})

\* What the deletion of a CR has gone through stays gone: in particular the
\* data plane, which a gateway controller that is still running would make
\* again for as long as there is a Gateway.  All that is left is what was so
\* new that DeleteObject did not find it in the cache.
RemovedForGood ==
    ~cr.exists =>
        cluster \cap ObjectsOf(RemovalPlan(cr.module), {"delete", "revoke"}) \subseteq Missed

\* The CR passes the checks, and has a controller for the wait to find.
Deployable(m) ==
    /\ \A what \in {"precheck", "creds", "certificate"} : Passes(m, what)
    /\ OpenShift \/ m.comps \cap {"nginx", "nginx-gateway-fabric"} # {}

\* A CR that stays and is deployable is deployed in the end: every wait for a
\* controller or a webhook that is not ready is followed by another attempt.
Converges == <>[](cr.exists /\ ~cr.deleting /\ CRDs /\ Deployable(cr.module)) => <>[]Settled

\* A CR that passes the checks, which removeModule makes as well, goes away
\* in whatever state its deletion finds the cluster, without waiting for a
\* controller, once the kinds of cert-manager are known.
DeletionCompletes ==
    [](cr.exists /\ cr.deleting /\ CRDs =>
          <>(~cr.exists \/ ~Deployable(cr.module)))

(***************************************************************************)
(* Claims of samples and comments.                                         *)
(***************************************************************************)
\* "false: disable deployment of Gateway API Controller only if you have your
\* own gateway": a CR without the component is deployed all the same.
OwnGateway ==
    <>[](cr.exists /\ ~cr.deleting /\ cr.module.creds) => <>[]("httpRoute" \in cluster)

\* "remove all resources deployed from CR by operator".
AllRemoved == ~cr.exists /\ cr.module.force => cluster \subseteq {"authCRDs", "certCRDs"}

\* The config component is "Optional": without it the workloads use the
\* Secret karavi-config-secret.
ConfigOptional == Settled => mounts = Mounted(cr.module)
=============================================================================
