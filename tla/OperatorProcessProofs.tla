------------------------ MODULE OperatorProcessProofs ------------------------
(***************************************************************************)
(* The invariants of ReverseProxyMode, for any set of PowerMax CSMs and    *)
(* any number of edits; and OperatorProcess implements both of its         *)
(* components, for any number of CSMs, watches and faults, so that what is *)
(* proved of each holds of the whole.                                      *)
(***************************************************************************)
EXTENDS OperatorProcess, TLAPS

(***************************************************************************)
(* ReverseProxyMode.                                                       *)
(***************************************************************************)
\* Every CR lists the module and gives DeployAsSidecar a value.
ModeStated == \A m \in Modules : m.listed /\ m.sidecar # "unset"

\* The mode a module asks for.
Asked(m) == m.sidecar # "false"

\* The worker works for a CSM with the finalizer; it removes things of one that
\* is deleted, and no longer counts as synced once its driver is removed.
WorkerInv ==
    worker # << >> =>
        /\ worker[1] \in finalizer
        /\ worker[3] \in {"remove driver", "remove module", "finalizer"} => worker[1] \in deleting
        /\ worker[3] \in {"remove module", "finalizer"} => synced[worker[1]] = << >>

\* Between the prechecks of a CSM and the last use of the variable no other
\* CSM has set it, and the proxy Deployment is there before the controller
\* that connects to it.
ModeInv ==
    worker # << >> =>
        /\ deployAsSidecar = Asked(worker[2])
        /\ worker[3] = "driver" /\ ~deployAsSidecar => worker[1] \in server

\* The inductive invariant.
ProxyInv == TypeOK /\ WorkerInv /\ ModeInv /\ DeployedAsAsked /\ ProxyPresent

\* The precheck of a stated mode sets the variable to it.
LEMMA PrecheckSets ==
    ASSUME ModeStated, NEW m \in Modules, Precheck(m)
    PROVE  deployAsSidecar' = Asked(m)
  BY DEF ModeStated, Precheck, Enabled, Asked

\* The precheck leaves the variable a Boolean.
LEMMA PrecheckType ==
    ASSUME TypeOK, NEW m \in Modules, Precheck(m)
    PROVE  deployAsSidecar' \in BOOLEAN
  BY DEF Precheck, TypeOK

\* The spec of a CSM that has a CR is a module.
LEMMA SpecModule ==
    ASSUME TypeOK, NEW c \in CSMs, spec[c] # << >>
    PROVE  spec[c][1] \in Modules /\ spec[c] = <<spec[c][1]>>
  BY DEF TypeOK

\* The initial state has its types.
LEMMA TypeInit == Init => TypeOK
  BY ModulesAssumption DEF Init, TypeOK

\* What a step of a reconcile does to the worker.
LEMMA StepTaken ==
    ASSUME TypeOK, worker # << >>
    PROVE  /\ worker[1] \in CSMs /\ worker[2] \in Modules /\ worker[3] \in Steps
           /\ \A t \in Steps :
                  GoOn(t) => /\ worker'[1] = worker[1] /\ worker'[2] = worker[2] /\ worker'[3] = t
                             /\ worker' \in CSMs \X Modules \X Steps
  BY DEF TypeOK, GoOn

\* The types are preserved.
LEMMA TypeStep == TypeOK /\ [Next]_vars => TypeOK'
  <1> SUFFICES ASSUME TypeOK, [Next]_vars PROVE TypeOK'
    OBVIOUS
  <1> USE ModulesAssumption
  <1>1. ASSUME NEW c \in CSMs, Edit(c) PROVE TypeOK'
    BY <1>1 DEF Edit, TypeOK
  <1>2. ASSUME NEW c \in CSMs, AskDeletion(c) PROVE TypeOK'
    BY <1>2 DEF AskDeletion, TypeOK
  <1>3. ASSUME NEW c \in CSMs, Reconcile(c) PROVE TypeOK'
    <2>1. spec[c][1] \in Modules /\ spec[c] # << >>
      BY <1>3, SpecModule DEF Reconcile
    <2>2. deployAsSidecar' \in BOOLEAN
      BY <1>3, <2>1, PrecheckType DEF Reconcile, TypeOK
    <2>3. worker' \in {<< >>} \cup (CSMs \X Modules \X Steps)
      <3>1. \/ worker' = << >>
            \/ worker' = <<c, spec[c][1], "server">> \/ worker' = <<c, spec[c][1], "remove driver">>
        BY <1>3 DEF Reconcile
      <3>2. \A t \in Steps : <<c, spec[c][1], t>> \in CSMs \X Modules \X Steps
        BY <2>1
      <3>3. "server" \in Steps /\ "remove driver" \in Steps
        BY DEF Steps
      <3> QED
        BY <3>1, <3>2, <3>3
    <2>4. finalizer' \in {finalizer, finalizer \cup {c}}
      BY <1>3 DEF Reconcile
    <2> QED
      BY <1>3, <2>1, <2>2, <2>3, <2>4 DEF Reconcile, TypeOK
  <1>4. CASE SyncServer
    <2>1. worker # << >> /\ worker[1] \in CSMs
      BY <1>4, StepTaken DEF SyncServer, At
    <2>2. worker' \in {<< >>} \cup (CSMs \X Modules \X Steps)
      BY <1>4, <2>1, StepTaken DEF SyncServer, Fail, Steps
    <2> QED
      BY <1>4, <2>1, <2>2 DEF SyncServer, crVars, TypeOK
  <1>5. CASE SyncDriver
    <2>1. worker # << >> /\ worker[1] \in CSMs /\ worker[2] \in Modules
      BY <1>5, StepTaken DEF SyncDriver, At
    <2>2. synced' \in [CSMs -> {<< >>} \cup {<<m>> : m \in Modules}]
      <3>1. CASE synced' = [synced EXCEPT ![worker[1]] = <<worker[2]>>]
        BY <2>1, <3>1 DEF TypeOK
      <3>2. CASE synced' = synced
        BY <3>2 DEF TypeOK
      <3> QED
        BY <1>5, <3>1, <3>2 DEF SyncDriver
    <2>3. controller' \in [CSMs -> {"none", "sidecar", "service"}]
      BY <1>5, <2>1 DEF SyncDriver, TypeOK
    <2>4. service' \subseteq CSMs /\ worker' = << >>
      BY <1>5, <2>1 DEF SyncDriver, TypeOK
    <2>5. UNCHANGED <<deployAsSidecar, server, spec, finalizer, deleting, edits>>
      BY <1>5 DEF SyncDriver, crVars
    <2> QED
      BY <2>2, <2>3, <2>4, <2>5 DEF TypeOK
  <1>6. CASE RemoveDriver
    <2>1. worker # << >> /\ worker[1] \in CSMs
      BY <1>6, StepTaken DEF RemoveDriver, At
    <2>2. worker' \in {<< >>} \cup (CSMs \X Modules \X Steps)
      BY <1>6, <2>1, StepTaken DEF RemoveDriver, Fail, Steps
    <2> QED
      BY <1>6, <2>1, <2>2 DEF RemoveDriver, crVars, TypeOK
  <1>7. CASE RemoveModule
    <2>1. worker # << >>
      BY <1>7 DEF RemoveModule, At
    <2>2. worker' \in {<< >>} \cup (CSMs \X Modules \X Steps)
      BY <1>7, <2>1, StepTaken DEF RemoveModule, Fail, Steps
    <2> QED
      BY <1>7, <2>2 DEF RemoveModule, crVars, TypeOK
  <1>8. CASE RemoveFinalizer
    <2>1. worker # << >> /\ worker[1] \in CSMs
      BY <1>8, StepTaken DEF RemoveFinalizer, At
    <2> QED
      BY <1>8, <2>1 DEF RemoveFinalizer, TypeOK
  <1>9. CASE Restart
    BY <1>9 DEF Restart, crVars, TypeOK
  <1>10. CASE UNCHANGED vars
    BY <1>10 DEF vars, crVars, TypeOK
  <1> QED
    BY <1>1, <1>2, <1>3, <1>4, <1>5, <1>6, <1>7, <1>8, <1>9, <1>10 DEF Next

\* What is known of the worker is preserved.
LEMMA WorkerStays == TypeOK /\ WorkerInv /\ [Next]_vars => WorkerInv'
  <1> SUFFICES ASSUME TypeOK, WorkerInv, [Next]_vars PROVE WorkerInv'
    OBVIOUS
  <1>1. ASSUME NEW c \in CSMs, Edit(c) \/ AskDeletion(c) PROVE WorkerInv'
    <2>1. UNCHANGED <<worker, finalizer, synced>> /\ deleting \subseteq deleting'
      BY <1>1 DEF Edit, AskDeletion
    <2> QED
      BY <2>1 DEF WorkerInv
  <1>2. ASSUME NEW c \in CSMs, Reconcile(c) PROVE WorkerInv'
    <2>1. CASE worker' = << >>
      BY <2>1 DEF WorkerInv
    <2>2. CASE /\ c \in deleting /\ finalizer' = finalizer
               /\ worker' = <<c, spec[c][1], "remove driver">>
      BY <1>2, <2>2 DEF Reconcile, WorkerInv, TypeOK
    <2>3. CASE worker' = <<c, spec[c][1], "server">> /\ finalizer' = finalizer \cup {c}
      BY <1>2, <2>3 DEF Reconcile, WorkerInv
    <2> QED
      BY <1>2, <2>1, <2>2, <2>3 DEF Reconcile
  <1>3. CASE SyncServer
    <2>1. worker # << >> /\ UNCHANGED <<finalizer, deleting, synced>>
      BY <1>3 DEF SyncServer, At, crVars
    <2>2. \/ worker' = << >>
          \/ worker'[1] = worker[1] /\ worker'[2] = worker[2] /\ worker'[3] = "driver"
      BY <1>3, <2>1, StepTaken DEF SyncServer, Fail, Steps
    <2> QED
      BY <2>1, <2>2 DEF WorkerInv, TypeOK
  <1>4. CASE RemoveDriver
    <2>1. /\ worker # << >> /\ worker[3] = "remove driver" /\ worker[1] \in CSMs
          /\ UNCHANGED <<finalizer, deleting>>
      BY <1>4, StepTaken DEF RemoveDriver, At, crVars
    <2>2. \/ worker' = << >>
          \/ worker'[1] = worker[1] /\ worker'[2] = worker[2] /\ worker'[3] = "remove module"
      BY <1>4, <2>1, StepTaken DEF RemoveDriver, Fail, Steps
    <2>3. synced'[worker[1]] = << >>
      BY <1>4, <2>1 DEF RemoveDriver, TypeOK
    <2> QED
      BY <2>1, <2>2, <2>3 DEF WorkerInv, TypeOK
  <1>5. CASE RemoveModule
    <2>1. /\ worker # << >> /\ worker[3] = "remove module"
          /\ UNCHANGED <<finalizer, deleting, synced>>
      BY <1>5 DEF RemoveModule, At, crVars
    <2>2. \/ worker' = << >>
          \/ worker'[1] = worker[1] /\ worker'[2] = worker[2] /\ worker'[3] = "finalizer"
      BY <1>5, <2>1, StepTaken DEF RemoveModule, Fail, Steps
    <2> QED
      BY <2>1, <2>2 DEF WorkerInv, TypeOK
  <1>6. CASE SyncDriver \/ RemoveFinalizer \/ Restart
    BY <1>6 DEF SyncDriver, RemoveFinalizer, Restart, WorkerInv
  <1>7. CASE UNCHANGED vars
    BY <1>7 DEF vars, crVars, WorkerInv
  <1> QED
    BY <1>1, <1>2, <1>3, <1>4, <1>5, <1>6, <1>7 DEF Next

\* Every action preserves the invariant.
LEMMA ProxyStep == ASSUME ModeStated PROVE ProxyInv /\ [Next]_vars => ProxyInv'
  <1> SUFFICES ASSUME ProxyInv, [Next]_vars PROVE ModeInv' /\ DeployedAsAsked' /\ ProxyPresent'
    BY TypeStep, WorkerStays DEF ProxyInv
  <1>0. TypeOK /\ WorkerInv /\ ModeInv /\ DeployedAsAsked /\ ProxyPresent
    BY DEF ProxyInv
  <1>1. ASSUME NEW c \in CSMs, Edit(c) \/ AskDeletion(c)
        PROVE  ModeInv' /\ DeployedAsAsked' /\ ProxyPresent'
    BY <1>0, <1>1 DEF Edit, AskDeletion, ModeInv, DeployedAsAsked, ProxyPresent
  <1>2. ASSUME NEW c \in CSMs, Reconcile(c) PROVE ModeInv' /\ DeployedAsAsked' /\ ProxyPresent'
    <2>1. DeployedAsAsked' /\ ProxyPresent'
      BY <1>0, <1>2 DEF Reconcile, DeployedAsAsked, ProxyPresent
    <2>2. CASE worker' = << >>
      BY <2>1, <2>2 DEF ModeInv
    <2>3. CASE /\ Precheck(spec[c][1])
               /\ \/ worker' = <<c, spec[c][1], "remove driver">>
                  \/ worker' = <<c, spec[c][1], "server">>
      <3>1. deployAsSidecar' = Asked(spec[c][1])
        BY <1>0, <1>2, <2>3, SpecModule, PrecheckSets DEF Reconcile
      <3>2. worker'[2] = spec[c][1] /\ worker'[3] # "driver"
        <4>1. CASE worker' = <<c, spec[c][1], "remove driver">>
          BY <4>1
        <4>2. CASE worker' = <<c, spec[c][1], "server">>
          BY <4>2
        <4> QED
          BY <2>3, <4>1, <4>2
      <3> QED
        BY <2>1, <3>1, <3>2 DEF ModeInv
    <2> QED
      BY <1>2, <2>2, <2>3 DEF Reconcile
  <1>3. CASE SyncServer
    <2>1. /\ worker # << >> /\ worker[1] \in CSMs /\ Enabled(worker[2])
          /\ UNCHANGED <<deployAsSidecar, controller, synced>>
      BY <1>0, <1>3, StepTaken DEF SyncServer, At, ModeStated, Enabled
    <2>2. server \subseteq server'
      BY <1>3 DEF SyncServer
    <2>3. \/ worker' = << >>
          \/ /\ worker'[1] = worker[1] /\ worker'[2] = worker[2] /\ worker'[3] = "driver"
             /\ ~deployAsSidecar => worker[1] \in server'
      BY <1>0, <1>3, <2>1, StepTaken DEF SyncServer, Fail, Steps
    <2>4. ModeInv'
      BY <1>0, <2>1, <2>3 DEF ModeInv
    <2> QED
      BY <1>0, <2>1, <2>2, <2>4 DEF DeployedAsAsked, ProxyPresent
  <1>4. CASE SyncDriver
    <2>1. /\ worker # << >> /\ worker[1] \in CSMs /\ worker' = << >> /\ server' = server
          /\ deployAsSidecar = Asked(worker[2]) /\ (~deployAsSidecar => worker[1] \in server)
      BY <1>0, <1>4, StepTaken DEF SyncDriver, At, ModeInv
    <2>2. CASE UNCHANGED <<controller, synced>>
      BY <1>0, <2>1, <2>2 DEF ModeInv, DeployedAsAsked, ProxyPresent
    <2>3. CASE /\ controller' = [controller EXCEPT
                                    ![worker[1]] = IF deployAsSidecar THEN "sidecar" ELSE "service"]
               /\ synced' = [synced EXCEPT ![worker[1]] = <<worker[2]>>]
      <3>1. /\ synced'[worker[1]] = <<worker[2]>> /\ synced'[worker[1]][1] = worker[2]
            /\ controller'[worker[1]] = IF deployAsSidecar THEN "sidecar" ELSE "service"
        BY <1>0, <2>1, <2>3 DEF TypeOK
      <3>2. \A c \in CSMs \ {worker[1]} : synced'[c] = synced[c] /\ controller'[c] = controller[c]
        BY <1>0, <2>1, <2>3 DEF TypeOK
      <3> QED
        BY <1>0, <2>1, <3>1, <3>2 DEF ModeInv, DeployedAsAsked, ProxyPresent, Asked
    <2> QED
      BY <1>4, <2>2, <2>3 DEF SyncDriver
  <1>5. CASE RemoveDriver
    <2>1. /\ worker # << >> /\ worker[1] \in CSMs /\ UNCHANGED <<deployAsSidecar, server>>
      BY <1>0, <1>5, StepTaken DEF RemoveDriver, At
    <2>2. \/ worker' = << >>
          \/ worker'[1] = worker[1] /\ worker'[2] = worker[2] /\ worker'[3] = "remove module"
      BY <1>0, <1>5, <2>1, StepTaken DEF RemoveDriver, Fail, Steps
    <2>3. /\ synced'[worker[1]] = << >>
          /\ \A c \in CSMs \ {worker[1]} : synced'[c] = synced[c] /\ controller'[c] = controller[c]
      BY <1>0, <1>5, <2>1 DEF RemoveDriver, TypeOK
    <2>4. ModeInv'
      BY <1>0, <2>1, <2>2 DEF ModeInv
    <2> QED
      BY <1>0, <2>1, <2>3, <2>4 DEF DeployedAsAsked, ProxyPresent
  <1>6. CASE RemoveModule
    <2>1. /\ worker # << >> /\ worker[3] = "remove module" /\ synced[worker[1]] = << >>
          /\ UNCHANGED <<deployAsSidecar, controller, synced>>
      BY <1>0, <1>6 DEF RemoveModule, At, WorkerInv
    <2>2. \/ worker' = << >>
          \/ worker'[1] = worker[1] /\ worker'[2] = worker[2] /\ worker'[3] = "finalizer"
      BY <1>0, <1>6, <2>1, StepTaken DEF RemoveModule, Fail, Steps
    <2>3. server \ {worker[1]} \subseteq server'
      BY <1>6 DEF RemoveModule
    <2>4. ModeInv'
      BY <1>0, <2>1, <2>2 DEF ModeInv
    <2> QED
      BY <1>0, <2>1, <2>3, <2>4 DEF DeployedAsAsked, ProxyPresent
  <1>7. CASE RemoveFinalizer
    <2>1. /\ worker # << >> /\ worker[1] \in CSMs /\ synced[worker[1]] = << >> /\ worker' = << >>
          /\ UNCHANGED <<synced, server>>
      BY <1>0, <1>7, StepTaken DEF RemoveFinalizer, At, WorkerInv
    <2>2. \A c \in CSMs \ {worker[1]} : controller'[c] = controller[c]
      BY <1>0, <1>7, <2>1 DEF RemoveFinalizer, TypeOK
    <2> QED
      BY <1>0, <2>1, <2>2 DEF ModeInv, DeployedAsAsked, ProxyPresent
  <1>8. CASE Restart
    BY <1>0, <1>8 DEF Restart, ModeInv, DeployedAsAsked, ProxyPresent
  <1>9. CASE UNCHANGED vars
    BY <1>0, <1>9 DEF vars, ModeInv, DeployedAsAsked, ProxyPresent
  <1> QED
    BY <1>1, <1>2, <1>3, <1>4, <1>5, <1>6, <1>7, <1>8, <1>9 DEF Next

\* The invariant holds throughout.
LEMMA ProxyInvariant == ASSUME ModeStated PROVE Spec => []ProxyInv
  <1>1. Init => ProxyInv
    BY TypeInit DEF Init, ProxyInv, WorkerInv, ModeInv, DeployedAsAsked, ProxyPresent
  <1> QED
    BY <1>1, ProxyStep, PTL DEF Spec

\* When every CR states its mode, every controller is deployed in the mode of
\* its own CR, although the mode is one package variable that all CSMs set and
\* a restart resets (IsReverseProxySidecar).
THEOREM ModesAsAsked == ASSUME ModeStated PROVE Spec => []DeployedAsAsked
  <1>1. ProxyInv => DeployedAsAsked
    BY DEF ProxyInv
  <1> QED
    BY <1>1, ProxyInvariant, PTL

\* When every CR states its mode, a controller that is to connect to a proxy
\* Deployment has one until the deletion of its CR starts to remove things,
\* whatever fails half way: SyncCSM reads the variable once to deploy the proxy
\* and once more for the controller, and no other CSM sets it in between.
THEOREM ProxyThere == ASSUME ModeStated PROVE Spec => []ProxyPresent
  <1>1. ProxyInv => ProxyPresent
    BY DEF ProxyInv
  <1> QED
    BY <1>1, ProxyInvariant, PTL

(***************************************************************************)
(* OperatorProcess.                                                        *)
(***************************************************************************)
WatchProofs == INSTANCE ContentWatchProofs WITH
    CSMs <- {CSM(c) : c \in CSMs}, exists <- {CSM(c) : c \in finalizer}, worker <- watcher

\* A step of the process is a step of ReverseProxyMode or leaves it alone.
LEMMA ModeSteps == [ProcessNext]_processVars => [Next]_vars
  <1> SUFFICES ASSUME [ProcessNext]_processVars PROVE [Next]_vars
    OBVIOUS
  <1>1. ASSUME NEW c \in CSMs, Change(c) \/ Take(c) \/ Delete(c) PROVE Next
    BY <1>1 DEF Change, Take, Delete, Next
  <1>2. CASE Serve \/ Deploy \/ Finish
    BY <1>2 DEF Serve, Deploy, Finish, Next
  <1>3. CASE Register \/ Stop
    BY <1>3 DEF Register, Stop
  <1>4. CASE RestartProcess
    BY <1>4 DEF RestartProcess, Next
  <1>5. CASE UNCHANGED processVars
    BY <1>5 DEF processVars
  <1> QED
    BY <1>1, <1>2, <1>3, <1>4, <1>5 DEF ProcessNext, WorkerStep

\* The types of ReverseProxyMode, and what is known of its worker, hold
\* throughout.
LEMMA ModeTypes == ProcessSpec => [](TypeOK /\ WorkerInv)
  <1>1. ProcessInit => TypeOK /\ WorkerInv
    BY TypeInit DEF ProcessInit, Init, WorkerInv
  <1> QED
    BY <1>1, ModeSteps, TypeStep, WorkerStays, PTL DEF ProcessSpec

\* Records of different CSMs differ.
LEMMA CSMInjective == \A c, d : CSM(c) = CSM(d) => c = d
  BY DEF CSM

\* A step of the process is a step of ContentWatch or leaves it alone.
LEMMA WatchSteps ==
    TypeOK /\ [ProcessNext]_processVars => [WatchProofs!Next]_(WatchProofs!vars)
  <1> SUFFICES ASSUME TypeOK, [ProcessNext]_processVars
               PROVE  [WatchProofs!Next]_(WatchProofs!vars)
    OBVIOUS
  <1>1. ASSUME NEW c \in CSMs, Change(c) \/ Delete(c) PROVE UNCHANGED WatchProofs!vars
    BY <1>1 DEF Change, Edit, Delete, AskDeletion, watchVars, WatchProofs!vars
  <1>2. ASSUME NEW c \in CSMs, Take(c) PROVE [WatchProofs!Next]_(WatchProofs!vars)
    <2>1. finalizer' \in {finalizer, finalizer \cup {c}} /\ UNCHANGED watchVars
      BY <1>2 DEF Take, Reconcile
    <2>2. CASE finalizer' = finalizer
      BY <2>1, <2>2 DEF watchVars, WatchProofs!vars
    <2>3. CASE c \notin finalizer /\ finalizer' = finalizer \cup {c}
      <3>1. WatchProofs!Create(CSM(c))
        BY <2>1, <2>3, CSMInjective DEF watchVars, WatchProofs!Create
      <3> QED
        BY <3>1 DEF WatchProofs!Next
    <2> QED
      BY <2>1, <2>2, <2>3
  <1>3. CASE Serve
    BY <1>3 DEF Serve, SyncServer, RemoveDriver, RemoveModule, crVars, watchVars, WatchProofs!vars
  <1>4. CASE Deploy
    <2>1. worker[1] \in CSMs
      BY <1>4, StepTaken DEF Deploy, SyncDriver, At
    <2>2. UNCHANGED finalizer
      BY <1>4 DEF Deploy, SyncDriver, crVars
    <2>3. CASE Watch!StartWatch(CSM(worker[1]))
      <3>1. WatchProofs!StartWatch(CSM(worker[1]))
        BY <2>3 DEF Watch!StartWatch, Watch!NextChannel, Watch!Channels,
                    WatchProofs!StartWatch, WatchProofs!NextChannel, WatchProofs!Channels
      <3> QED
        BY <3>1, <2>1 DEF WatchProofs!Next
    <2>4. CASE UNCHANGED watchVars
      BY <2>2, <2>4 DEF watchVars, WatchProofs!vars
    <2> QED
      BY <1>4, <2>3, <2>4 DEF Deploy
  <1>5. CASE Register
    BY <1>5 DEF Register, Watch!Register, Watch!Idle, WatchProofs!Register, WatchProofs!Idle,
                WatchProofs!Next
  <1>6. CASE Stop
    BY <1>6 DEF Stop, Watch!StopWatch, Watch!Idle, WatchProofs!StopWatch, WatchProofs!Idle,
                WatchProofs!Next
  <1>7. CASE Finish
    <2>1. worker[1] \in CSMs
      BY <1>7, StepTaken DEF Finish, RemoveFinalizer, At
    <2>2. CASE Watch!Finalized(CSM(worker[1]))
      <3>1. WatchProofs!Finalized(CSM(worker[1]))
        BY <2>2 DEF Watch!Finalized, WatchProofs!Finalized
      <3> QED
        BY <2>1, <3>1 DEF WatchProofs!Next
    <2>3. CASE UNCHANGED finalizer /\ UNCHANGED watchVars
      BY <2>3 DEF watchVars, WatchProofs!vars
    <2> QED
      BY <1>7, <2>2, <2>3 DEF Finish
  <1>8. CASE RestartProcess
    BY <1>8 DEF RestartProcess, Watch!Restart, Watch!Idle, Watch!Names, WatchProofs!Restart,
                WatchProofs!Idle, WatchProofs!Names, WatchProofs!Next
  <1>9. CASE UNCHANGED processVars
    BY <1>9 DEF processVars, vars, crVars, watchVars, WatchProofs!vars
  <1> QED
    BY <1>1, <1>2, <1>3, <1>4, <1>5, <1>6, <1>7, <1>8, <1>9 DEF ProcessNext, WorkerStep

\* The process implements both components: the reconciles of all CSMs, their
\* failures and restarts are steps of ReverseProxyMode and of ContentWatch.
THEOREM ComponentsImplemented == ProcessSpec => Spec /\ WatchProofs!Spec
  <1>1. ProcessInit => Init /\ WatchProofs!Init
    BY DEF ProcessInit, Init, Watch!Init, Watch!Idle, Watch!Names,
           WatchProofs!Init, WatchProofs!Idle, WatchProofs!Names
  <1> QED
    BY <1>1, ModeTypes, ModeSteps, WatchSteps, PTL DEF ProcessSpec, Spec, WatchProofs!Spec

\* What is deployed, or about to be registered, was synced from a CR, unless
\* that CR is deleted.
SyncedInv ==
    /\ \A c \in CSMs \ deleting : CSM(c) \in deployed => synced[c] # << >>
    /\ watcher.at = "register" =>
           \E c \in CSMs : watcher.csm = CSM(c) /\ (c \in deleting \/ synced[c] # << >>)

\* Every step of the process preserves this.
LEMMA SyncedStep == TypeOK /\ WorkerInv /\ SyncedInv /\ [ProcessNext]_processVars => SyncedInv'
  <1> SUFFICES ASSUME TypeOK, WorkerInv, SyncedInv, [ProcessNext]_processVars PROVE SyncedInv'
    OBVIOUS
  <1> USE DEF SyncedInv, watchVars
  <1>1. ASSUME NEW c \in CSMs, Change(c) \/ Take(c) PROVE SyncedInv'
    BY <1>1 DEF Change, Edit, Take, Reconcile
  <1>2. CASE Serve
    <2>1. UNCHANGED <<deleting, watchVars>>
      BY <1>2 DEF Serve, SyncServer, RemoveDriver, RemoveModule, crVars
    <2>2. CASE synced' = synced
      BY <2>1, <2>2
    <2>3. CASE RemoveDriver
      <3>1. worker[1] \in CSMs /\ worker[1] \in deleting
        BY <2>3, StepTaken DEF RemoveDriver, At, WorkerInv
      <3>2. \A c \in CSMs \ deleting : synced'[c] = synced[c]
        BY <2>3, <3>1 DEF RemoveDriver, TypeOK
      <3> QED
        BY <2>1, <3>2
    <2> QED
      BY <1>2, <2>2, <2>3 DEF Serve, SyncServer, RemoveModule
  <1>3. CASE Deploy
    <2>1. /\ worker[1] \in CSMs /\ deleting' = deleting
          /\ synced' \in {synced, [synced EXCEPT ![worker[1]] = <<worker[2]>>]}
      BY <1>3, StepTaken DEF Deploy, SyncDriver, At, crVars
    <2>2. \A c \in CSMs : synced[c] # << >> => synced'[c] # << >>
      BY <2>1 DEF TypeOK
    <2>3. CASE synced'[worker[1]] = <<worker[2]>> /\ Watch!StartWatch(CSM(worker[1]))
      <3>1. synced'[worker[1]] # << >>
        BY <2>3
      <3>2. deployed' = deployed /\ watcher'.csm = CSM(worker[1])
        BY <2>3 DEF Watch!StartWatch
      <3> QED
        BY <2>1, <2>2, <3>1, <3>2
    <2>4. CASE UNCHANGED watchVars
      BY <2>1, <2>2, <2>4
    <2> QED
      BY <1>3, <2>3, <2>4 DEF Deploy
  <1>4. CASE Register
    BY <1>4, CSMInjective DEF Register, Watch!Register, Watch!Idle, vars, crVars
  <1>5. CASE Stop
    BY <1>5 DEF Stop, Watch!StopWatch, Watch!Idle, vars, crVars
  <1>6. ASSUME NEW c \in CSMs, Delete(c) PROVE SyncedInv'
    <2>1. deleting \subseteq deleting' /\ UNCHANGED <<synced, watchVars>>
      BY <1>6 DEF Delete, AskDeletion
    <2> QED
      BY <2>1
  <1>7. CASE Finish
    <2>1. synced' = synced /\ deleting' \in {deleting, deleting \ {worker[1]}}
      BY <1>7 DEF Finish, RemoveFinalizer
    <2>2. CASE Watch!Finalized(CSM(worker[1]))
      BY <2>1, <2>2 DEF Watch!Finalized
    <2>3. CASE UNCHANGED finalizer /\ UNCHANGED watchVars
      <3>1. worker[1] \in finalizer
        BY <1>7 DEF Finish, RemoveFinalizer, At, WorkerInv
      <3>2. deleting' = deleting
        BY <1>7, <2>3, <3>1 DEF Finish, RemoveFinalizer
      <3> QED
        BY <2>1, <2>3, <3>2
    <2> QED
      BY <1>7, <2>2, <2>3 DEF Finish
  <1>8. CASE RestartProcess
    BY <1>8 DEF RestartProcess, Restart, Watch!Restart, Watch!Idle
  <1>9. CASE UNCHANGED processVars
    BY <1>9 DEF processVars, vars, crVars
  <1> QED
    BY <1>1, <1>2, <1>3, <1>4, <1>5, <1>6, <1>7, <1>8, <1>9 DEF ProcessNext, WorkerStep

\* Only CSMs that have a CR are in the queue.
QueueInv == queue \subseteq HasCR /\ faults \in 0..MaxFaults

\* Every step of the process preserves this.
LEMMA QueueStep == TypeOK /\ WorkerInv /\ QueueInv /\ [ProcessNext]_processVars => QueueInv'
  <1> SUFFICES ASSUME TypeOK, WorkerInv, QueueInv, [ProcessNext]_processVars PROVE QueueInv'
    OBVIOUS
  <1>0. \A c : Requeue(c) => faults' \in 0..MaxFaults /\ queue' = queue \cup {c}
    BY ProcessAssumption DEF Requeue, QueueInv
  <1>1. worker # << >> => worker[1] \in HasCR
    BY DEF WorkerInv, TypeOK, HasCR
  <1>2. ASSUME NEW c \in CSMs, Change(c) PROVE QueueInv'
    <2>1. HasCR' = HasCR \cup {c}
      BY <1>2 DEF Change, Edit, HasCR, TypeOK
    <2> QED
      BY <1>2, <2>1 DEF Change, QueueInv
  <1>3. ASSUME NEW c \in CSMs, Take(c) PROVE QueueInv'
    <2>1. HasCR' = HasCR /\ c \in HasCR
      BY <1>3 DEF Take, Reconcile, HasCR
    <2> QED
      BY <1>0, <1>3, <2>1 DEF Take, QueueInv
  <1>4. CASE Serve \/ Deploy
    <2>1. HasCR' = HasCR /\ worker # << >>
      BY <1>4 DEF Serve, Deploy, SyncServer, RemoveDriver, RemoveModule, SyncDriver, At, crVars,
                  HasCR
    <2>2. UNCHANGED queueVars \/ Requeue(worker[1])
      BY <1>4 DEF Serve, Deploy
    <2> QED
      BY <1>0, <1>1, <2>1, <2>2 DEF QueueInv, queueVars
  <1>5. CASE Register \/ Stop
    BY <1>5 DEF Register, Stop, QueueInv, HasCR, vars, crVars, queueVars
  <1>6. ASSUME NEW c \in CSMs, Delete(c) PROVE QueueInv'
    <2>1. HasCR' = IF c \in finalizer THEN HasCR ELSE HasCR \ {c}
      BY <1>6 DEF Delete, AskDeletion, HasCR, TypeOK
    <2>2. c \in HasCR
      BY <1>6 DEF Delete, AskDeletion, HasCR
    <2> QED
      BY <1>6, <2>1, <2>2 DEF Delete, QueueInv
  <1>7. CASE Finish
    <2>1. worker # << >> /\ worker[1] \in CSMs /\ worker[1] \in finalizer
      BY <1>7, StepTaken DEF Finish, RemoveFinalizer, At, WorkerInv
    <2>2. CASE queue' = queue \ {worker[1]} /\ faults' = faults
      <3>1. HasCR \ {worker[1]} \subseteq HasCR'
        BY <1>7, <2>1 DEF Finish, RemoveFinalizer, HasCR, TypeOK
      <3> QED
        BY <2>2, <3>1 DEF QueueInv
    <2>3. CASE UNCHANGED finalizer /\ Requeue(worker[1])
      <3>1. HasCR' = HasCR
        BY <1>7, <2>1, <2>3 DEF Finish, RemoveFinalizer, HasCR
      <3> QED
        BY <1>0, <1>1, <2>1, <2>3, <3>1 DEF QueueInv
    <2> QED
      BY <1>7, <2>2, <2>3 DEF Finish
  <1>8. CASE RestartProcess
    <2>1. HasCR' = HasCR
      BY <1>8 DEF RestartProcess, Restart, crVars, HasCR
    <2> QED
      BY <1>8, <2>1, ProcessAssumption DEF RestartProcess, QueueInv
  <1>9. CASE UNCHANGED processVars
    BY <1>9 DEF processVars, vars, crVars, queueVars, QueueInv, HasCR
  <1> QED
    BY <1>2, <1>3, <1>4, <1>5, <1>6, <1>7, <1>8, <1>9 DEF ProcessNext, WorkerStep

\* What is proved of ContentWatch, of the process.
LEMMA WatchFacts ==
    ASSUME CSMs # {}, NoChannel \notin Nat
    PROVE  ProcessSpec => [](/\ WatchProofs!TypeOK /\ WatchProofs!NoLeakedWatch
                             /\ WatchProofs!NoClosedChannelKept /\ WatchProofs!DeployedAreServed)
  <1>1. WatchProofs!Constants
    BY ProcessAssumption DEF WatchProofs!Constants
  <1>2. WatchProofs!DistinctNames
    BY DEF WatchProofs!DistinctNames, CSM
  <1> QED
    BY <1>1, <1>2, WatchProofs!WatchesBounded, WatchProofs!DeployedServed,
       ComponentsImplemented, PTL

\* The variables of both components, of the queue and of the worker have their
\* types in every state of the process, and only CSMs with a CR are queued: a
\* key never outlives the deletion of its CR.
THEOREM ProcessTypes ==
    ASSUME CSMs # {}, NoChannel \notin Nat
    PROVE  ProcessSpec => []ProcessTypeOK
  <1>1. ProcessInit => QueueInv
    BY ProcessAssumption DEF ProcessInit, Init, QueueInv
  <1>2. WatchProofs!TypeOK => Watch!TypeOK
    BY DEF Watch!TypeOK, WatchProofs!TypeOK, Watch!Names, WatchProofs!Names,
           Watch!Channels, WatchProofs!Channels
  <1>3. TypeOK /\ WatchProofs!TypeOK /\ QueueInv => ProcessTypeOK
    BY <1>2 DEF QueueInv, ProcessTypeOK
  <1> QED
    BY <1>1, <1>3, WatchFacts, ModeTypes, QueueStep, PTL DEF ProcessSpec

\* Informers do not pile up in the process: over all reconciles, failures,
\* deletions and restarts, the open channels are those of the map and the one
\* about to be stored in it.
THEOREM WatchesDoNotLeak ==
    ASSUME CSMs # {}, NoChannel \notin Nat
    PROVE  ProcessSpec => []NoLeakedWatch
  <1>1. WatchProofs!NoLeakedWatch => NoLeakedWatch
    BY DEF NoLeakedWatch, Watch!NoLeakedWatch, WatchProofs!NoLeakedWatch, Watch!Names,
           WatchProofs!Names
  <1> QED
    BY <1>1, WatchFacts, PTL

\* No channel in the map is closed, so that no reconcile of the process closes
\* one a second time, which would panic.
THEOREM ChannelsStayOpen ==
    ASSUME CSMs # {}, NoChannel \notin Nat
    PROVE  ProcessSpec => []NoClosedChannelKept
  <1>1. WatchProofs!NoClosedChannelKept => NoClosedChannelKept
    BY DEF NoClosedChannelKept, Watch!NoClosedChannelKept, WatchProofs!NoClosedChannelKept,
           Watch!Names, WatchProofs!Names
  <1> QED
    BY <1>1, WatchFacts, PTL

\* The events of every deployed CSM of the process are handled, and what is
\* deployed was synced from a CR, until that CR is deleted.
THEOREM ProcessServes ==
    ASSUME CSMs # {}, NoChannel \notin Nat
    PROVE  ProcessSpec => []DeployedAreServed
  <1>1. ProcessInit => SyncedInv
    <2>1. ProcessInit => deployed = {} /\ watcher = Watch!Idle
      BY DEF ProcessInit, Watch!Init
    <2>2. Watch!Idle.at = "idle"
      BY DEF Watch!Idle
    <2> QED
      BY <2>1, <2>2 DEF SyncedInv
  <1>2. WatchProofs!DeployedAreServed /\ SyncedInv => DeployedAreServed
    BY DEF DeployedAreServed, Watch!DeployedAreServed, WatchProofs!DeployedAreServed,
           Watch!Served, WatchProofs!Served, SyncedInv
  <1> QED
    BY <1>1, <1>2, WatchFacts, ModeTypes, SyncedStep, PTL DEF ProcessSpec

\* Every CSM of the process whose CR states its mode is deployed as its CR
\* asks, with a proxy to talk to until its deletion starts to remove things; no
\* informers leak, no channel is closed twice, and the events of every deployed
\* CSM are handled.
THEOREM ProcessCorrect ==
    ASSUME ModeStated, CSMs # {}, NoChannel \notin Nat
    PROVE  ProcessSpec => [](/\ DeployedAsAsked /\ ProxyPresent
                             /\ NoLeakedWatch /\ NoClosedChannelKept /\ DeployedAreServed)
  BY ModesAsAsked, ProxyThere, ComponentsImplemented, WatchesDoNotLeak, ChannelsStayOpen,
     ProcessServes, PTL
=============================================================================
