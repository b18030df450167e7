--------------------------- MODULE Observability ---------------------------
(***************************************************************************)
(* The observability module of one driver CR, component by component:      *)
(* reconcileObservability as SyncCSM, the cleanup of dropped components    *)
(* and the deletion branch call it, the wait for the cert-manager webhook, *)
(* and the certificates that depend on it.  CSMReconciler treats all of    *)
(* this as one object.                                                     *)
(*                                                                         *)
(* As in DriverResources a reconcile is a plan, a sequence of [op, obj]:   *)
(*   "apply" "ssa" "delete" "get+delete" "save" "release" as there;        *)
(*   "driver"  the part of SyncCSM between the cleanup and observability;  *)
(*   "gate"    the check that the webhook's Deployment is ready;           *)
(*   "issue" "revoke"  apply or delete a Certificate and its Issuer.       *)
(***************************************************************************)
EXTENDS Naturals, SequencesExt

CONSTANTS
    Specs,         \* the observability modules a user may submit
    CertComponents,\* the components with a certificate of their own
    CRDsInstalled, \* whether cert-manager's CRDs come from somebody else
    MaxEdits,      \* bound: edits of the CR
    MaxFaults      \* bound: failed calls, restarts, outages of the webhook

Components == {"otel-collector", "cert-manager", "metrics"}

\* A module: whether it is enabled, and its enabled components in the order
\* of the CR, defaults included.
ModuleType == [on : BOOLEAN, comps : {s \in UNION {[1..n -> Components] : n \in 0..3} :
                                          IsInjective(s)}]

ASSUME ConstantsAssumption ==
    /\ Specs \subseteq ModuleType /\ Specs # {}
    /\ CertComponents \subseteq {"otel-collector", "metrics"}
    /\ CRDsInstalled \in BOOLEAN /\ MaxEdits \in Nat /\ MaxFaults \in Nat

Step(op, obj) == [op |-> op, obj |-> obj]

When(cond, seq) == IF cond THEN seq ELSE << >>

\* A certificate has its component's name.
Objects == {"otel", "certCRDs", "certManager", "metricsObjs", "metricsDep"} \cup CertComponents

ComponentOf(o) ==
    CASE o = "otel" -> "otel-collector"
      [] o \in {"certCRDs", "certManager"} -> "cert-manager"
      [] o \in {"metricsObjs", "metricsDep"} -> "metrics"
      [] OTHER -> o

(***************************************************************************)
(* What one component's function does.                                     *)
(***************************************************************************)
OtelCollector(isDeleting) == <<Step(IF isDeleting THEN "delete" ELSE "apply", "otel")>>

CommonCertManager_mut(isDeleting) == \* bug: the CRDs go with cert-manager
    IF isDeleting THEN <<Step("delete", "certCRDs"), Step("delete", "certManager")>>
                  ELSE <<Step("apply", "certCRDs"), Step("apply", "certManager")>>

\* The CRDs stay when cert-manager goes.
CommonCertManager(isDeleting) ==
    IF isDeleting THEN <<Step("delete", "certManager")>>
                  ELSE <<Step("apply", "certCRDs"), Step("apply", "certManager")>>

Metrics_mut(isDeleting) == \* bug: the driver's Deployment is deleted
    IF isDeleting THEN <<Step("delete", "metricsObjs"), Step("get+delete", "deployment")>>
                  ELSE <<Step("apply", "metricsObjs"), Step("ssa", "metricsDep")>>

\* PowerScaleMetrics, PowerFlexMetrics, PowerMaxMetrics, PowerStoreMetrics: the
\* Deployment comes last; when it is deleted a failed Get is only logged.
Metrics(isDeleting) ==
    IF isDeleting THEN <<Step("delete", "metricsObjs"), Step("get+delete", "metricsDep")>>
                  ELSE <<Step("apply", "metricsObjs"), Step("ssa", "metricsDep")>>

ReconcileComponent(isDeleting, c) ==
    CASE c = "otel-collector" -> OtelCollector(isDeleting)
      [] c = "cert-manager"   -> CommonCertManager(isDeleting)
      [] OTHER                -> Metrics(isDeleting)

\* For every enabled component of the CR, whichever are being reconciled.
IssuerCertServiceObs(isDeleting, m) ==
    FlattenSeq([i \in DOMAIN m.comps |->
        When(m.comps[i] \in CertComponents,
             <<Step(IF isDeleting THEN "revoke" ELSE "issue", m.comps[i])>>)])

\* No components means all of them.
reconcileObservability(isDeleting, m, components) ==
    LET comps == IF components = << >> THEN m.comps ELSE components
    IN  FlattenSeq([i \in DOMAIN comps |-> ReconcileComponent(isDeleting, comps[i])])
        \o When(~isDeleting /\ Contains(m.comps, "cert-manager"), <<Step("gate", "certManager")>>)
        \o IssuerCertServiceObs(isDeleting, m)

\* The components of a module that another one does not enable.
DroppedComponents(old, m) ==
    FlattenSeq([i \in DOMAIN old.comps |->
        When(~Contains(m.comps, old.comps[i]), <<old.comps[i]>>)])

\* The observability part of oldStandAloneModuleCleanup.
CleanupSteps(prev, m) ==
    LET dropped == DroppedComponents(prev[1], m)
    IN  When(prev # << >> /\ prev[1].on /\ (~m.on \/ dropped # << >>),
             reconcileObservability(TRUE, prev[1], IF m.on THEN dropped ELSE << >>))
        \o <<Step("save", "cr")>>

SyncPlan_mut(prev, m) == \* bug: the cleanup comes after the new components
    <<Step("driver", "cr")>> \o When(m.on, reconcileObservability(FALSE, m, << >>))
    \o CleanupSteps(prev, m)

SyncPlan(prev, m) ==
    CleanupSteps(prev, m) \o <<Step("driver", "cr")>>
    \o When(m.on, reconcileObservability(FALSE, m, << >>))

RemovalPlan(m) ==
    When(m.on, reconcileObservability(TRUE, m, << >>)) \o <<Step("release", "cr")>>

VARIABLES
    cr,       \* the CR: exists, deleting, its module, the annotation (prev)
    queued,   \* the CR's key is in the work queue
    working,  \* the worker is in Reconcile
    copy,     \* the module in the copy of the CR it works on
    current,  \* that copy has the CR's latest resourceVersion
    plan,     \* the calls it still has to make
    cluster,  \* the objects that exist
    ready,    \* the webhook of this CR's cert-manager answers
    seenReady,\* the same in the manager's cache
    abandoned,\* history: objects a removal passed over
    edits, faults

vars == <<cr, queued, working, copy, current, plan, cluster, ready, seenReady, abandoned,
          edits, faults>>

Init ==
    /\ \E m \in Specs : cr = [exists |-> TRUE, deleting |-> FALSE, module |-> m, prev |-> << >>]
    /\ queued = TRUE /\ working = FALSE /\ copy = cr.module /\ current = FALSE /\ plan = << >>
    /\ cluster = {} /\ ready = FALSE /\ seenReady = FALSE /\ abandoned = {}
    /\ edits = 0 /\ faults = 0

(***************************************************************************)
(* The user and the cluster.                                               *)
(***************************************************************************)
EditCR ==
    /\ cr.exists /\ edits < MaxEdits /\ edits' = edits + 1
    /\ \/ \E m \in Specs \ {cr.module} : cr' = [cr EXCEPT !.module = m]
       \/ ~cr.deleting /\ cr' = [cr EXCEPT !.deleting = TRUE]
    /\ queued' = TRUE /\ current' = FALSE
    /\ UNCHANGED <<working, copy, plan, cluster, ready, seenReady, abandoned, faults>>

Fault == faults < MaxFaults /\ faults' = faults + 1

NoFault == faults' = faults

WebhookUp ==
    /\ "certManager" \in cluster /\ ~ready /\ ready' = TRUE
    /\ UNCHANGED <<cr, queued, working, copy, current, plan, cluster, seenReady, abandoned,
                   edits, faults>>

WebhookDown ==
    /\ ready /\ ready' = FALSE /\ Fault
    /\ UNCHANGED <<cr, queued, working, copy, current, plan, cluster, seenReady, abandoned, edits>>

CacheSync ==
    /\ seenReady # ready /\ seenReady' = ready
    /\ UNCHANGED <<cr, queued, working, copy, current, plan, cluster, ready, abandoned,
                   edits, faults>>

(***************************************************************************)
(* Reconcile.                                                              *)
(***************************************************************************)
Reconcile ==
    /\ queued /\ ~working /\ cr.exists
    /\ queued' = FALSE /\ working' = TRUE /\ current' = TRUE
    /\ copy' = cr.module
    /\ plan' = IF cr.deleting THEN RemovalPlan(cr.module) ELSE SyncPlan(cr.prev, cr.module)
    \* What a removal does not look at: the components this CR no longer names.
    /\ abandoned' = abandoned \cup {o \in cluster : cr.deleting /\
                        (~cr.module.on \/ ~Contains(cr.module.comps, ComponentOf(o)))}
    /\ UNCHANGED <<cr, cluster, ready, seenReady, edits, faults>>

Return == working' = FALSE /\ current' = FALSE /\ plan' = << >> /\ copy' = copy

ReturnError == Return /\ queued' = TRUE

AtStep(ops) == plan # << >> /\ Head(plan).op \in ops

NextStep ==
    IF Len(plan) = 1 THEN Return /\ UNCHANGED queued
                     ELSE plan' = Tail(plan) /\ UNCHANGED <<working, copy, current, queued>>

Put(o) ==
    /\ cluster' = cluster \cup {o} /\ abandoned' = abandoned \ {o}
    /\ UNCHANGED <<ready, seenReady>>

\* A new webhook is not ready, and the cache of a Deployment that is gone
\* answers NotFound.
Drop(o) ==
    /\ cluster' = cluster \ {o} /\ abandoned' = abandoned \ {o}
    /\ ready' = (ready /\ o # "certManager") /\ seenReady' = (seenReady /\ o # "certManager")

ApplyStep ==
    /\ AtStep({"apply", "ssa"})
    /\ Put(Head(plan).obj) /\ NextStep
    /\ UNCHANGED <<cr, edits, faults>>

DeleteStep ==
    /\ AtStep({"delete", "get+delete"})
    /\ Drop(Head(plan).obj) /\ NextStep
    /\ UNCHANGED <<cr, edits, faults>>

DriverStep ==
    /\ AtStep({"driver"}) /\ NextStep
    /\ UNCHANGED <<cr, cluster, ready, seenReady, abandoned, edits, faults>>

\* The failed Get of the Deployment is only logged.
GetFailureLogged ==
    /\ AtStep({"get+delete"}) /\ Fault
    /\ abandoned' = abandoned \cup ({Head(plan).obj} \cap cluster)
    /\ NextStep
    /\ UNCHANGED <<cr, cluster, ready, seenReady, edits>>

GateStep_mut == \* bug: no error when the webhook is not ready, so no retry
    /\ AtStep({"gate"})
    /\ IF seenReady THEN NextStep ELSE Return /\ UNCHANGED queued
    /\ UNCHANGED <<cr, cluster, ready, seenReady, abandoned, edits, faults>>

\* "will retry": the Deployment is not found in the cache, or not ready.
GateStep ==
    /\ AtStep({"gate"})
    /\ IF seenReady THEN NextStep ELSE ReturnError
    /\ UNCHANGED <<cr, cluster, ready, seenReady, abandoned, edits, faults>>

\* The API server knows the kinds Certificate and Issuer.
CRDs == CRDsInstalled \/ "certCRDs" \in cluster

\* It rejects them while the webhook (failurePolicy: Fail) does not answer.
Accepts == CRDs /\ ("certManager" \in cluster => ready)

IssueStep ==
    /\ AtStep({"issue"}) /\ NoFault
    /\ IF Accepts THEN Put(Head(plan).obj) /\ NextStep
                  ELSE ReturnError /\ UNCHANGED <<cluster, ready, seenReady, abandoned>>
    /\ UNCHANGED <<cr, edits>>

\* A kind that is not known is an error, not NotFound.
RevokeStep ==
    /\ AtStep({"revoke"}) /\ NoFault
    /\ IF CRDs THEN Drop(Head(plan).obj) /\ NextStep
               ELSE ReturnError /\ UNCHANGED <<cluster, ready, seenReady, abandoned>>
    /\ UNCHANGED <<cr, edits>>

\* The cleanup records the CR as applied; a copy that is out of date is refused.
SaveStep ==
    /\ AtStep({"save"})
    /\ IF current THEN cr' = [cr EXCEPT !.prev = <<copy>>] /\ NextStep
                  ELSE ReturnError /\ UNCHANGED cr
    /\ UNCHANGED <<cluster, ready, seenReady, abandoned, edits, faults>>

ReleaseStep ==
    /\ AtStep({"release"})
    /\ IF current THEN cr' = [cr EXCEPT !.exists = FALSE] /\ NextStep
                  ELSE ReturnError /\ UNCHANGED cr
    /\ UNCHANGED <<cluster, ready, seenReady, abandoned, edits, faults>>

\* A call fails; it may have taken effect.
StepFails ==
    /\ plan # << >> /\ Fault /\ ReturnError
    /\ \/ UNCHANGED <<cluster, ready, seenReady, abandoned>>
       \/ AtStep({"apply", "ssa"}) /\ Put(Head(plan).obj)
       \/ AtStep({"delete", "get+delete"}) /\ Drop(Head(plan).obj)
    /\ UNCHANGED <<cr, edits>>

\* The operator restarts.
Restart ==
    /\ Fault
    /\ Return /\ queued' = cr.exists /\ seenReady' = ready
    /\ UNCHANGED <<cr, cluster, ready, abandoned, edits>>

Worker ==
    \/ Reconcile \/ ApplyStep \/ DeleteStep \/ DriverStep \/ GateStep
    \/ IssueStep \/ RevokeStep \/ SaveStep \/ ReleaseStep

Next ==
    \/ EditCR \/ WebhookUp \/ WebhookDown \/ CacheSync
    \/ Worker \/ GetFailureLogged \/ StepFails \/ Restart

\* The worker takes up what is queued, the webhook comes up, the cache
\* catches up.  Failures are bounded, not fair.
Spec ==
    Init /\ [][Next]_vars /\ WF_vars(Worker) /\ WF_vars(WebhookUp) /\ WF_vars(CacheSync)

TypeOK ==
    /\ cr \in [exists : BOOLEAN, deleting : BOOLEAN, module : Specs,
               prev : {<< >>} \cup {<<m>> : m \in Specs}]
    /\ {queued, working, current, ready, seenReady} \subseteq BOOLEAN /\ copy \in Specs
    /\ \A i \in DOMAIN plan : plan[i].obj \in Objects \cup {"cr"}
    /\ cluster \subseteq Objects /\ abandoned \subseteq cluster
    /\ edits \in 0..MaxEdits /\ faults \in 0..MaxFaults

(***************************************************************************)
(* Properties.                                                             *)
(***************************************************************************)
\* The objects of the components a module enables.
Desired(m) ==
    IF m.on THEN {o \in Objects \ {"certCRDs"} : Contains(m.comps, ComponentOf(o))} ELSE {}

\* oldStandAloneModuleCleanup finds what to remove in the annotation alone:
\* whatever of a component or its certificate exists is named there, though
\* a reconcile may end between any two of its calls.
ComponentsRecorded ==
    cluster \ (abandoned \cup {"certCRDs"}) \subseteq
        IF cr.prev = << >> THEN {} ELSE Desired(cr.prev[1])

\* A CR that stays settles on its components: all of the enabled ones, their
\* certificates, which a cleanup of other components takes away for a while,
\* and nothing of the dropped ones.  Without cert-manager's CRDs it cannot:
\* a cleanup before they were applied fails on the unknown kind every time.
Converges ==
    <>[](cr.exists /\ ~cr.deleting /\ CRDs)
        => <>[](cluster \ (abandoned \cup {"certCRDs"}) = Desired(cr.module))

\* A CR goes away once cert-manager's CRDs have been there: cert-manager is
\* removed before the certificates, and these can be deleted only because
\* CommonCertManager keeps the CRDs.
DeletionCompletes == [](cr.exists /\ cr.deleting /\ CRDs => <>~cr.exists)

=============================================================================
