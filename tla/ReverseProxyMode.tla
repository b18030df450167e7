-------------------------- MODULE ReverseProxyMode --------------------------
(***************************************************************************)
(* How the CSI PowerMax reverse proxy is deployed for the PowerMax CSMs of *)
(* a cluster: as a sidecar of the controller, or as a Deployment of its    *)
(* own.  The decision is read from each CR by ReverseProxyPrecheck, kept   *)
(* in the package variable deployAsSidecar, and used by SyncCSM and by the *)
(* deletion branch through IsReverseProxySidecar.                          *)
(***************************************************************************)
EXTENDS Naturals

CONSTANTS
    CSMs,      \* the PowerMax CSMs, each in a namespace of its own
    Modules,   \* what a CR may say of the proxy and of its removal: members of ModuleType
    MaxEdits   \* bound: changes of a spec

\* The CR: whether it lists the module, the DeployAsSidecar value ("unset" when
\* the module or the variable is left out, "bad" when it does not parse as a
\* Boolean), and forceRemoveDriver, which is true when it is left out.
ModuleType == [listed : BOOLEAN, sidecar : {"unset", "true", "false", "bad"},
               forceRemoveDriver : BOOLEAN]

ASSUME ModulesAssumption == Modules \subseteq ModuleType /\ MaxEdits \in Nat

VARIABLES
    deployAsSidecar, \* the package variable
    spec,      \* what each CR says, <<m>>, or << >> for no CR
    finalizer, \* the CSMs whose CR has the finalizer
    deleting,  \* those of them whose deletion was asked for
    worker,    \* << >>, or <<c, m, s>>: reconciling c, having read m, at step s
    controller,\* how each controller Deployment reaches the proxy
    synced,    \* history: what the CR said it was synced from, << >> from the
               \* moment the deletion of that CR starts to remove things
    server,    \* the CSMs with a reverse proxy Deployment (and its Service)
    service,   \* the CSMs with the Service that reaches the sidecar
    edits

crVars == <<spec, finalizer, deleting, edits>>
vars == <<deployAsSidecar, worker, controller, synced, server, service, crVars>>

Init ==
    /\ deployAsSidecar = TRUE
    /\ spec = [c \in CSMs |-> << >>] /\ finalizer = {} /\ deleting = {}
    /\ worker = << >>
    /\ controller = [c \in CSMs |-> "none"] /\ synced = [c \in CSMs |-> << >>]
    /\ server = {} /\ service = {}
    /\ edits = 0

\* The user creates a CR or changes what it says, even while it is deleted.
Edit(c) ==
    /\ edits < MaxEdits /\ edits' = edits + 1
    /\ \E m \in Modules : spec[c] # <<m>> /\ spec' = [spec EXCEPT ![c] = <<m>>]
    /\ UNCHANGED <<deployAsSidecar, finalizer, deleting, worker, controller, synced, server, service>>

\* The user deletes a CR: it is gone at once unless it has the finalizer.
AskDeletion(c) ==
    /\ spec[c] # << >> /\ c \notin deleting
    /\ IF c \in finalizer
       THEN deleting' = deleting \cup {c} /\ UNCHANGED spec
       ELSE spec' = [spec EXCEPT ![c] = << >>] /\ UNCHANGED deleting
    /\ UNCHANGED <<deployAsSidecar, finalizer, worker, controller, synced, server, service, edits>>

\* PrecheckPowerMax, which comes first, enables a listed module whatever its
\* enabled field says, and sets its forceRemoveModule.
Enabled(m) == m.listed

Precheck_mut(m) == \* bug: only a value of false is remembered
    deployAsSidecar' = IF Enabled(m) /\ m.sidecar = "false" THEN FALSE ELSE deployAsSidecar

\* ReverseProxyPrecheck, which PreChecks calls for an enabled module.
Precheck(m) ==
    deployAsSidecar' = IF Enabled(m) /\ m.sidecar # "unset" THEN m.sidecar # "false"
                       ELSE deployAsSidecar

\* Read the CR and run the prechecks, which may fail before or after they set
\* the variable; then go on with the deletion, or add the finalizer and go on
\* with SyncCSM, unless the annotation cannot be written.
Reconcile(c) ==
    /\ worker = << >> /\ spec[c] # << >>
    /\ LET m == spec[c][1]
       IN  \/ /\ Precheck(m) \/ UNCHANGED deployAsSidecar
              /\ worker' = << >> /\ UNCHANGED finalizer
           \/ /\ c \in deleting /\ Precheck(m)
              /\ worker' = <<c, m, "remove driver">> /\ UNCHANGED finalizer
           \/ /\ c \notin deleting /\ Precheck(m)
              /\ worker' = <<c, m, "server">> \/ worker' = << >>
              /\ finalizer' = finalizer \cup {c}
    /\ UNCHANGED <<spec, deleting, controller, synced, server, service, edits>>

\* The worker is at the step, and goes on with another or returns an error.
At(step) == worker # << >> /\ worker[3] = step

GoOn(step) == worker' = [worker EXCEPT ![3] = step]

Fail == worker' = << >>

SyncServer_mut == \* bug: the proxy is deployed in sidecar mode only
    /\ At("server")
    /\ IF Enabled(worker[2]) /\ deployAsSidecar
       THEN \/ server' = server \cup {worker[1]} /\ (GoOn("driver") \/ Fail)
            \/ UNCHANGED server /\ Fail
       ELSE UNCHANGED server /\ (GoOn("driver") \/ Fail)
    /\ UNCHANGED <<deployAsSidecar, controller, synced, service, crVars>>

\* The first use in SyncCSM: reconcileReverseProxyServer, which may fail before
\* or after the Deployment is applied; SyncCSM may fail after it, too.
SyncServer ==
    /\ At("server")
    /\ IF Enabled(worker[2]) /\ ~deployAsSidecar
       THEN \/ server' = server \cup {worker[1]} /\ (GoOn("driver") \/ Fail)
            \/ UNCHANGED server /\ Fail
       ELSE UNCHANGED server /\ (GoOn("driver") \/ Fail)
    /\ UNCHANGED <<deployAsSidecar, controller, synced, service, crVars>>

\* The second use in SyncCSM: AddReverseProxyServiceName, or the Service and
\* ReverseProxyInjectDeployment; then the controller Deployment is applied,
\* unless a step before that fails.
SyncDriver ==
    /\ At("driver") /\ worker' = << >>
    /\ LET c == worker[1]
           reached == IF deployAsSidecar THEN service \cup {c} ELSE service
       IN  \/ /\ service' = reached
              /\ controller' = [controller EXCEPT
                                   ![c] = IF deployAsSidecar THEN "sidecar" ELSE "service"]
              /\ synced' = [synced EXCEPT ![c] = <<worker[2]>>]
           \/ service' \in {service, reached} /\ UNCHANGED <<controller, synced>>
    /\ UNCHANGED <<deployAsSidecar, server, crVars>>

\* The deletion branch.  With forceRemoveDriver, removeDriver deletes the
\* controller and, in sidecar mode, the Service; it may fail half way, and it
\* passes over what the cache does not hold yet.  Without it the controller
\* only loses its owner, and a failure of that is only logged.
RemoveDriver ==
    /\ At("remove driver")
    /\ LET c == worker[1]
       IN  /\ synced' = [synced EXCEPT ![c] = << >>]
           /\ IF worker[2].forceRemoveDriver
              THEN /\ controller' \in {controller, [controller EXCEPT ![c] = "none"]}
                   /\ service' \in {service, IF deployAsSidecar THEN service \ {c} ELSE service}
                   /\ GoOn("remove module") \/ Fail
              ELSE GoOn("remove module") /\ UNCHANGED <<controller, service>>
    /\ UNCHANGED <<deployAsSidecar, server, crVars>>

\* Then removeModule, since PrecheckPowerMax has set forceRemoveModule: it
\* deletes the proxy Deployment whatever forceRemoveDriver says.
RemoveModule ==
    /\ At("remove module")
    /\ IF Enabled(worker[2]) /\ ~deployAsSidecar
       THEN server' \in {server, server \ {worker[1]}} /\ (GoOn("finalizer") \/ Fail)
       ELSE GoOn("finalizer") /\ UNCHANGED server
    /\ UNCHANGED <<deployAsSidecar, controller, synced, service, crVars>>

\* Then removeFinalizer: the CR is gone, and the garbage collector deletes the
\* controller if the CR still owns it.
RemoveFinalizer ==
    /\ At("finalizer") /\ worker' = << >>
    /\ LET c == worker[1]
       IN  \/ /\ spec' = [spec EXCEPT ![c] = << >>]
              /\ finalizer' = finalizer \ {c} /\ deleting' = deleting \ {c}
              /\ \/ controller' = [controller EXCEPT ![c] = "none"]
                 \/ ~worker[2].forceRemoveDriver /\ UNCHANGED controller
           \/ UNCHANGED <<spec, finalizer, deleting, controller>>
    /\ UNCHANGED <<deployAsSidecar, synced, server, service, edits>>

\* The operator restarts: the variable has its initial value again.
Restart ==
    /\ deployAsSidecar' = TRUE /\ worker' = << >>
    /\ UNCHANGED <<controller, synced, server, service, crVars>>

Next ==
    \/ \E c \in CSMs : Edit(c) \/ AskDeletion(c) \/ Reconcile(c)
    \/ SyncServer \/ SyncDriver \/ RemoveDriver \/ RemoveModule \/ RemoveFinalizer
    \/ Restart

Spec == Init /\ [][Next]_vars

Steps == {"server", "driver", "remove driver", "remove module", "finalizer"}

TypeOK ==
    /\ deployAsSidecar \in BOOLEAN /\ edits \in 0..MaxEdits
    /\ spec \in [CSMs -> {<< >>} \cup {<<m>> : m \in Modules}]
    /\ synced \in [CSMs -> {<< >>} \cup {<<m>> : m \in Modules}]
    /\ finalizer \subseteq {c \in CSMs : spec[c] # << >>} /\ deleting \subseteq finalizer
    /\ worker \in {<< >>} \cup (CSMs \X Modules \X Steps)
    /\ controller \in [CSMs -> {"none", "sidecar", "service"}]
    /\ server \subseteq CSMs /\ service \subseteq CSMs

(***************************************************************************)
(* Properties.                                                             *)
(***************************************************************************)
\* Every controller is deployed in the mode its own CR asks for, whatever
\* the other CRs say: "deployAsSidecar defines the way reversproxy is
\* installed with the driver ... set it false, if you want it as a
\* deployment".  Sidecar is the default.
DeployedAsAsked ==
    \A c \in CSMs : synced[c] # << >> =>
        controller[c] = IF synced[c][1].sidecar = "false" THEN "service" ELSE "sidecar"

\* "CSI Powermax Reverseproxy is a mandatory module for Powermax": a controller
\* deployed for a CR has the proxy beside it or a proxy Deployment to connect
\* to, until the deletion of the CR starts to remove them.  (A controller that
\* forceRemoveDriver = false leaves behind keeps no proxy Deployment.)
ProxyPresent ==
    \A c \in CSMs : synced[c] # << >> /\ controller[c] = "service" => c \in server
=============================================================================
