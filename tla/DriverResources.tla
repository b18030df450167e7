-------------------------- MODULE DriverResources --------------------------
(***************************************************************************)
(* The objects SyncCSM creates for a driver and the order in which they    *)
(* are created and removed.  Everything here is a constant-level           *)
(* definition: a plan is a sequence of steps, one step per call that       *)
(* SyncCSM, removeDriver or the deletion branch of Reconcile makes.        *)
(*                                                                         *)
(* A step is a record [op, obj]:                                           *)
(*   "apply"   create or update obj through the cached client              *)
(*   "create"  create obj unless it exists; a failed Get is ignored        *)
(*   "ssa"     server-side apply of obj through the uncached clientset     *)
(*   "delete"  delete obj; an error aborts the reconcile                   *)
(*   "get+delete"  as "delete", but a failed Get is only logged            *)
(*   "warn"    delete obj; an error is only logged                         *)
(*   "check"   a call that creates nothing and may return an error         *)
(*   "save"    write the applied configuration to the CR's annotation      *)
(*   "disown"  remove the ownerReference of the controller Deployment      *)
(*   "release" remove the finalizer                                        *)
(* A module that consists of several objects (replication controller,      *)
(* observability) is one obj: it is present when some of its objects are.  *)
(***************************************************************************)
EXTENDS Sequences, Naturals

DriverTypes == {"powerscale", "powerflex", "powerstore", "powermax", "unity", "cosi"}

\* The module types whose objects are removed by oldStandAloneModuleCleanup.
StandaloneModules == {"replication", "observability"}

Step(op, obj) == [op |-> op, obj |-> obj]

Steps(op, objs) == [i \in DOMAIN objs |-> Step(op, objs[i])]

When(cond, seq) == IF cond THEN seq ELSE << >>

NodeRbac == <<"nodeSA", "nodeCR", "nodeCRB", "nodeRole", "nodeRB">>

ControllerRbac == <<"ctrlSA", "ctrlCR", "ctrlCRB", "ctrlRole", "ctrlRB">>

\* Objects that belong to one driver and are created whatever the modules.
DriverObjects ==
    {"nodeSA", "nodeCR", "nodeCRB", "nodeRole", "nodeRB",
     "ctrlSA", "ctrlCR", "ctrlCRB", "ctrlRole", "ctrlRB",
     "configMap", "csiDriver", "daemonSet", "deployment"}

\* Those a COSI driver does not have: it has no node part and no CSIDriver.
NodeObjects ==
    {"nodeSA", "nodeCR", "nodeCRB", "nodeRole", "nodeRB", "csiDriver", "daemonSet"}

ModuleObjects == {"replCRDs", "replCtrl", "replCM", "obs"}

\* Objects that go away with another: the replication controller's objects
\* include the namespace its ConfigMap lives in.
Cascade(o) == IF o = "replCtrl" THEN {"replCtrl", "replCM"} ELSE {o}

\* What removeDriver leaves alone: it looks only at the modules of the
\* spec it has read, not at those applied before.
NotCovered(s) ==
    (IF "replication" \in s.modules THEN {} ELSE {"replCRDs", "replCtrl", "replCM"})
    \cup (IF "observability" \in s.modules THEN {} ELSE {"obs"})

\* The objects that carry an ownerReference to the CR.
OwnedObjects == {"deployment", "metricsSvc", "serviceMonitor"}

Objects == DriverObjects \cup ModuleObjects \cup OwnedObjects \cup {"drCRD"}

\* What a step can name.
StepObjects == Objects \cup {"cr", "version", "driverConfig", "injection"}

(***************************************************************************)
(* The part of a CR's spec that decides what is created or removed.        *)
(***************************************************************************)
SpecType == [ver : Nat, force : {"unset", "true", "false"},
             modules : SUBSET StandaloneModules,
             dr : {"off", "apply", "remove"}, metrics : SUBSET {"service", "monitor"}]

\* Reconcile defaults forceRemoveDriver to true in the object it has read.
Defaulted(s) == [s EXCEPT !.force = IF s.force = "unset" THEN "true" ELSE s.force]

\* applyCSMDRCRD, and the X_CSM_DR_ENABLED test around it (PowerStore only).
DRSteps(t, s) ==
    When(t = "powerstore",
         CASE s.dr = "apply"  -> <<Step("apply", "drCRD")>>
           [] s.dr = "remove" -> <<Step("delete", "drCRD")>>
           [] OTHER           -> << >>)

\* syncMetricsResources (PowerFlex only).
MetricsSteps(t, metrics) ==
    When(t = "powerflex",
         << IF "service" \in metrics THEN Step("apply", "metricsSvc")
                                     ELSE Step("warn", "metricsSvc"),
            IF {"service", "monitor"} \subseteq metrics
              THEN Step("apply", "serviceMonitor")
              ELSE Step("warn", "serviceMonitor") >>)

\* The driver part of SyncCSM, in the order of its calls.
DriverSyncSteps(t, s) ==
    IF t = "cosi"
      THEN Steps("apply", <<"ctrlSA", "ctrlCR", "ctrlCRB", "configMap">>)
           \o <<Step("ssa", "deployment")>>
      ELSE Steps("apply", <<"nodeSA", "ctrlSA", "nodeCR", "ctrlCR", "nodeCRB", "ctrlCRB",
                            "nodeRole", "ctrlRole", "nodeRB", "ctrlRB",
                            "csiDriver", "configMap">>)
           \o <<Step("ssa", "deployment")>>
           \o DRSteps(t, s)
           \o <<Step("ssa", "daemonSet")>>

(***************************************************************************)
(* oldStandAloneModuleCleanup: remove what the previously applied spec     *)
(* enabled and this one does not, then record this one.  prev = << >> when *)
(* the annotation is absent, <<spec>> otherwise.                           *)
(***************************************************************************)
Dropped(prev, s, m) == prev # << >> /\ m \in prev[1].modules /\ m \notin s.modules

CleanupSteps(prev, s) ==
    When(Dropped(prev, s, "replication"),
         <<Step("delete", "replCtrl"), Step("warn", "replCRDs")>>)
    \o When(Dropped(prev, s, "observability"), <<Step("delete", "obs")>>)
    \o <<Step("save", "cr")>>

SyncPlan_mut(t, prev, s) == \* bug: the applied configuration is saved last
    <<Step("check", "version")>>
    \o When("replication" \in s.modules, <<Step("apply", "replCRDs")>>)
    \o <<Step("check", "driverConfig"), Step("check", "injection")>>
    \o DriverSyncSteps(t, s)
    \o When(t # "cosi" /\ "replication" \in s.modules,
            <<Step("apply", "replCtrl"), Step("create", "replCM")>>)
    \o When(t # "cosi" /\ "observability" \in s.modules, <<Step("apply", "obs")>>)
    \o MetricsSteps(t, s.metrics)
    \o CleanupSteps(prev, s)

\* SyncCSM for a driver CR.
SyncPlan(t, prev, s) ==
    <<Step("check", "version")>>
    \o When("replication" \in s.modules, <<Step("apply", "replCRDs")>>)
    \o <<Step("check", "driverConfig")>>
    \o CleanupSteps(prev, s)
    \o <<Step("check", "injection")>>
    \o DriverSyncSteps(t, s)
    \o When(t # "cosi" /\ "replication" \in s.modules,
            <<Step("apply", "replCtrl"), Step("create", "replCM")>>)
    \o When(t # "cosi" /\ "observability" \in s.modules, <<Step("apply", "obs")>>)
    \o MetricsSteps(t, s.metrics)

DriverRemoveSteps_mut(t) == \* bug: the ConfigMap is forgotten
    When(t # "cosi", Steps("delete", NodeRbac))
    \o Steps("delete", ControllerRbac)
    \o When(t # "cosi", <<Step("delete", "csiDriver"), Step("get+delete", "daemonSet")>>)
    \o <<Step("get+delete", "deployment")>>

\* removeDriverFromCluster; Node and Driver are nil for COSI.
DriverRemoveSteps(t) ==
    When(t # "cosi", Steps("delete", NodeRbac))
    \o Steps("delete", ControllerRbac)
    \o <<Step("delete", "configMap")>>
    \o When(t # "cosi", <<Step("delete", "csiDriver"), Step("get+delete", "daemonSet")>>)
    \o <<Step("get+delete", "deployment")>>

\* removeDriver.
RemoveDriverSteps(t, s) ==
    <<Step("check", "driverConfig")>>
    \o DriverRemoveSteps(t)
    \o When("replication" \in s.modules,
            <<Step("delete", "replCtrl"), Step("delete", "replCM"), Step("warn", "replCRDs")>>)
    \o When("observability" \in s.modules, <<Step("delete", "obs")>>)
    \o When(t = "powerstore", <<Step("delete", "drCRD")>>)
    \o MetricsSteps(t, {})

\* The deletion branch of Reconcile.
RemovalPlan(t, s) ==
    IF s.force = "true"
      THEN RemoveDriverSteps(t, s) \o <<Step("release", "cr")>>
      ELSE <<Step("disown", "deployment"), Step("release", "cr")>>

\* What a completed SyncCSM has applied for spec s.
Desired(t, s) ==
    LET p == SyncPlan(t, << >>, s)
    IN  {p[i].obj : i \in {j \in DOMAIN p : p[j].op \in {"apply", "create", "ssa"}}}
=============================================================================
