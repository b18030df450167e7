--------------------------- MODULE CSMStatusProofs ---------------------------
(***************************************************************************)
(* Proofs about CSMStatus, for every kind of CR, any number of replicas,   *)
(* configurations, status changes, events and failed updates.              *)
(***************************************************************************)
EXTENDS CSMStatus, TLAPS

(***************************************************************************)
(* Types.                                                                  *)
(***************************************************************************)
\* TypeOK says what the functions return; for the step that updates them it
\* also takes that they are functions.
FunctionsOK ==
    /\ live = [w \in Workloads |-> live[w]] /\ seen = [w \in Workloads |-> seen[w]]
    /\ events = [k \in Handlers |-> events[k]]

TypeInv == TypeOK /\ FunctionsOK

\* The counts a controller status may show.
Controllers == UNION {Counts(w) : w \in Watched("deployments")}

\* The counts at the start, and those of the controller Deployment, are some
\* of these.
LEMMA ControllerCounts ==
    PodCounts(0, 0) \in Controllers /\ Counts("controller") \subseteq Controllers
<1>1. "controller" \in Watched("deployments")
  BY DEF Watched
<1>2. PodCounts(0, 0) \in Counts("controller")
  BY DEF Counts
<1> QED BY <1>1, <1>2 DEF Controllers

\* A new CR is a CR.
LEMMA NewCRType == ASSUME NEW kind \in Kinds PROVE NewCR(kind) \in CRs
  BY ControllerCounts, ConstantsAssumption DEF NewCR, CRs, Controllers

\* So is a copy from the cache.
LEMMA CachedCopyType == ASSUME TypeOK PROVE CachedCopy \in CRs
  BY ControllerCounts DEF CachedCopy, CRs, Controllers, TypeOK

\* calculateState and lastSuccessful give a CR for a CR.
LEMMA CalculateStateType ==
    ASSUME NEW i \in CRs, NEW c \in Controllers
    PROVE  CalculateState(i, c) \in CRs
<1> DEFINE State == IF Running(c, seen) THEN "Succeeded" ELSE "Failed"
           Lsc   == IF Running(c, seen) /\ i.kind # "driver" THEN i.spec ELSE i.lsc
<1>1. CalculateState(i, c) = [i EXCEPT !.state = State, !.controller = c, !.lsc = Lsc]
  BY DEF CalculateState
<1>2. State \in {"", "Failed", "Succeeded"}
  OBVIOUS
<1>3. Lsc \in 0..MaxSpecs
  <2>1. i.spec \in 1..MaxSpecs /\ i.lsc \in 0..MaxSpecs
    BY DEF CRs
  <2>2. i.spec \in 0..MaxSpecs
    BY <2>1, ConstantsAssumption
  <2> QED BY <2>1, <2>2
<1> HIDE DEF State, Lsc
<1> QED BY <1>1, <1>2, <1>3 DEF CRs, Controllers

LEMMA LastSuccessfulType == ASSUME NEW i \in CRs PROVE LastSuccessful(i) \in 0..MaxSpecs
  BY DEF LastSuccessful, CRs

\* The initial state has its types.
LEMMA TypeInit == Init => TypeInv
<1> SUFFICES ASSUME Init PROVE TypeInv
  OBVIOUS
<1>1. PICK kind \in Kinds : cr = NewCR(kind)
  BY DEF Init
<1>2. cr \in CRs /\ cr.kind \in Kinds
  BY <1>1, NewCRType DEF CRs
<1>3. \A w \in Workloads : live[w] \in Counts(w)
  BY DEF Init, Workloads, Counts
<1>4. /\ cr \in CRs /\ crSeen \in CRs /\ inst \in [Processes -> CRs]
      /\ {fresh, current, watching, wake, requeue} \subseteq BOOLEAN
  BY <1>2, NewCRType DEF Init, NoCopy
<1>5. \A k \in Handlers : events[k] \in Seq(UNION {Counts(w) : w \in Watched(k)})
  BY DEF Init
<1>6. override \in UNION {Counts(w) : w \in Watched("deployments")}
  BY ControllerCounts DEF Init, Controllers
<1>7. /\ pc \in [Processes -> {"idle", "handleSuccess", "sync", "updateStatus", "write"}]
      /\ handlerLock \in Handlers \cup {Free} /\ statusLock \in Processes \cup {Free}
      /\ changes \in 0..MaxChanges /\ giveUps \in 0..MaxGiveUps
  BY ConstantsAssumption DEF Init
<1>8. FunctionsOK
  BY DEF Init, FunctionsOK
<1> QED BY <1>3, <1>4, <1>5, <1>6, <1>7, <1>8 DEF Init, TypeInv, TypeOK

\* What UpdateStatus does when it returns keeps the types it touches.
LEMMA ReturnsType ==
    ASSUME TypeOK, NEW p \in Processes, NEW ok \in BOOLEAN, UpdateStatusReturns(p, ok)
    PROVE  /\ inst' \in [Processes -> CRs]
           /\ pc' \in [Processes -> {"idle", "handleSuccess", "sync", "updateStatus", "write"}]
           /\ override' \in Controllers
           /\ statusLock' \in Processes \cup {Free} /\ handlerLock' \in Handlers \cup {Free}
           /\ wake' \in BOOLEAN /\ watching' \in BOOLEAN
<1>1. NoCopy \in CRs
  BY NewCRType DEF NoCopy, TypeOK, CRs
<1>2. override' \in Controllers
  BY ControllerCounts DEF UpdateStatusReturns, TypeOK, Controllers
<1> QED BY <1>1, <1>2 DEF UpdateStatusReturns, TypeOK

\* The status CalculateState computes for a process is a CR's.
LEMMA StartType ==
    ASSUME TypeOK, NEW p \in Processes, StartUpdateStatus(p)
    PROVE  inst' \in [Processes -> CRs]
<1> DEFINE C == IF p = "deployments" THEN override ELSE seen["controller"]
           I == CalculateState(inst[p], C)
           J == [I EXCEPT !.lsc = LastSuccessful(I)]
<1>1. C \in Controllers
  BY ControllerCounts DEF TypeOK, Controllers, Workloads
<1>2. inst[p] \in CRs
  BY DEF TypeOK
<1> HIDE DEF C
<1>3. I \in CRs
  BY <1>1, <1>2, CalculateStateType
<1> HIDE DEF I
<1>4. J \in CRs
  <2>1. LastSuccessful(I) \in 0..MaxSpecs
    BY <1>3, LastSuccessfulType
  <2> QED BY <1>3, <2>1 DEF CRs
<1>5. inst' = [inst EXCEPT ![p] = J]
  BY DEF StartUpdateStatus, I, C
<1> HIDE DEF J
<1> QED BY <1>4, <1>5 DEF TypeOK

\* An event that is told is one of its handler's.
LEMMA NotifyType ==
    ASSUME TypeInv, NEW w \in Workloads, NEW status \in Counts(w), Notify(w, status)
    PROVE  /\ events' = [k \in Handlers |-> events'[k]]
           /\ \A k \in Handlers : events'[k] \in Seq(UNION {Counts(v) : v \in Watched(k)})
<1>1. ASSUME NEW k \in Handlers
      PROVE  events'[k] \in Seq(UNION {Counts(v) : v \in Watched(k)})
  <2>1. CASE w \in Watched(k)
    <3> DEFINE S == UNION {Counts(v) : v \in Watched(k)}
    <3>1. status \in S
      BY <2>1
    <3>2. events'[k] \in {events[k], Append(events[k], status)}
      BY DEF Notify
    <3>3. events[k] \in Seq(S)
      BY DEF TypeInv, TypeOK
    <3> HIDE DEF S
    <3>4. events'[k] \in Seq(S)
      BY <3>1, <3>2, <3>3
    <3> QED BY <3>4 DEF S
  <2>2. CASE w \notin Watched(k)
    BY <2>2 DEF Notify, TypeInv, TypeOK
  <2> QED BY <2>1, <2>2
<1>2. events' = [k \in Handlers |-> events'[k]]
  BY DEF Notify
<1> QED BY <1>1, <1>2

\* Every workload of a CR is a workload.
LEMMA WorkloadsOfType == \A kind : WorkloadsOf(kind) \subseteq Workloads
  BY DEF WorkloadsOf, Workloads

\* The types are preserved.
LEMMA TypeStep == TypeInv /\ [Next]_vars => TypeInv'
<1> SUFFICES ASSUME TypeInv, [Next]_vars PROVE TypeInv'
  OBVIOUS
<1>0. TypeOK /\ FunctionsOK
  BY DEF TypeInv
<1>n. NoCopy \in CRs
  BY <1>0, NewCRType DEF NoCopy, TypeOK, CRs
<1> USE <1>0 DEF TypeInv
<1>1. CASE EditSpec
  <2>1. cr.spec \in 1..MaxSpecs /\ cr.spec < MaxSpecs
    BY <1>1 DEF EditSpec, TypeOK, CRs
  <2>2. cr.spec + 1 \in 1..MaxSpecs
    BY <2>1, ConstantsAssumption
  <2>3. cr' \in CRs
    BY <1>1, <2>2 DEF EditSpec, TypeOK, CRs
  <2> QED BY <1>1, <2>3 DEF EditSpec, TypeOK, FunctionsOK
<1>2. CASE WorkloadChanges
  <2>0. PICK w \in WorkloadsOf(cr.kind) : \E status \in Counts(w) :
           live' = [live EXCEPT ![w] = status] /\ Notify(w, status)
    BY <1>2 DEF WorkloadChanges
  <2>1. PICK status \in Counts(w) : live' = [live EXCEPT ![w] = status] /\ Notify(w, status)
    BY <2>0
  <2>2. w \in Workloads
    BY WorkloadsOfType
  <2>3. /\ live' = [v \in Workloads |-> live'[v]]
        /\ \A v \in Workloads : live'[v] \in Counts(v)
    BY <2>1, <2>2 DEF TypeOK, FunctionsOK
  <2>4. changes' \in 0..MaxChanges
    BY <1>2, ConstantsAssumption DEF WorkloadChanges, TypeOK
  <2> QED BY <1>2, <2>1, <2>2, <2>3, <2>4, NotifyType DEF WorkloadChanges, TypeOK, FunctionsOK
<1>3. CASE CRCacheSync
  BY <1>3 DEF CRCacheSync, TypeOK, FunctionsOK
<1>4. ASSUME NEW w \in Workloads, CacheSync(w) PROVE TypeInv'
  BY <1>4 DEF CacheSync, TypeOK, FunctionsOK
<1>5. ASSUME NEW k \in Handlers, Resync(k) PROVE TypeInv'
  <2>1. PICK w \in Watched(k) \cap WorkloadsOf(cr.kind) :
           events' = [events EXCEPT ![k] = <<live[w]>>]
    BY <1>5 DEF Resync
  <2>2. <<live[w]>> \in Seq(UNION {Counts(v) : v \in Watched(k)})
    BY <2>1, WorkloadsOfType DEF TypeOK
  <2>3. /\ events' = [j \in Handlers |-> events'[j]]
        /\ \A j \in Handlers : events'[j] \in Seq(UNION {Counts(v) : v \in Watched(j)})
    BY <2>1, <2>2 DEF TypeOK, FunctionsOK
  <2> QED BY <1>5, <2>3 DEF Resync, TypeOK, FunctionsOK
<1>6. ASSUME NEW k \in Handlers, Handle(k) PROVE TypeInv'
  <2>1. k \in Processes
    BY DEF Processes
  <2>2. inst' \in [Processes -> CRs]
    BY <1>6, <2>1, CachedCopyType DEF Handle, TypeOK
  <2>3. /\ Head(events[k]) \in UNION {Counts(v) : v \in Watched(k)}
        /\ Tail(events[k]) \in Seq(UNION {Counts(v) : v \in Watched(k)})
    <3> DEFINE S == UNION {Counts(v) : v \in Watched(k)}
    <3>1. events[k] \in Seq(S) /\ events[k] # << >>
      BY <1>6 DEF Handle, TypeOK
    <3> HIDE DEF S
    <3>2. Head(events[k]) \in S /\ Tail(events[k]) \in Seq(S)
      BY <3>1
    <3> QED BY <3>2 DEF S
  <2>4. /\ events' = [j \in Handlers |-> events'[j]]
        /\ \A j \in Handlers : events'[j] \in Seq(UNION {Counts(v) : v \in Watched(j)})
    BY <1>6, <2>3 DEF Handle, TypeOK, FunctionsOK
  <2>5. override' \in UNION {Counts(v) : v \in Watched("deployments")}
    BY <1>6, <2>3 DEF Handle, TypeOK
  <2>6. pc' \in [Processes -> {"idle", "handleSuccess", "sync", "updateStatus", "write"}]
    BY <1>6, <2>1 DEF Handle, TypeOK
  <2> QED BY <1>6, <2>2, <2>4, <2>5, <2>6 DEF Handle, TypeOK, FunctionsOK
<1>7. CASE Reconcile
  BY <1>7, CachedCopyType DEF Reconcile, TypeOK, FunctionsOK, Processes
<1>8. CASE HandleSuccess
  <2> DEFINE I == CalculateState(inst["worker"], seen["controller"])
  <2>1. inst["worker"] \in CRs /\ seen["controller"] \in Controllers
    BY ControllerCounts DEF TypeOK, Processes, Workloads
  <2>2. I.lsc \in 0..MaxSpecs
    BY <2>1, CalculateStateType DEF CRs
  <2>3. inst' = [inst EXCEPT !["worker"].lsc = I.lsc]
    BY <1>8 DEF HandleSuccess
  <2> HIDE DEF I
  <2>4. [inst["worker"] EXCEPT !.lsc = I.lsc] \in CRs
    BY <2>1, <2>2 DEF CRs
  <2>5. inst' \in [Processes -> CRs]
    BY <2>3, <2>4 DEF TypeOK
  <2>6. requeue' \in BOOLEAN
    BY <1>8 DEF HandleSuccess
  <2> QED BY <1>8, <2>5, <2>6 DEF HandleSuccess, TypeOK, FunctionsOK, Processes
<1>9. CASE Sync
  <2>1. inst["worker"] \in CRs /\ inst["worker"].spec \in 0..MaxSpecs
    <3>1. inst["worker"] \in CRs
      BY DEF TypeOK, Processes
    <3>2. inst["worker"].spec \in 1..MaxSpecs
      BY <3>1 DEF CRs
    <3> QED BY <3>1, <3>2, ConstantsAssumption
  <2>2. cr' \in CRs
    BY <1>9, <2>1 DEF Sync, TypeOK, CRs
  <2>3. [inst["worker"] EXCEPT !.applied = inst["worker"].spec] \in CRs
    BY <2>1 DEF CRs
  <2>4. inst' \in [Processes -> CRs]
    BY <1>9, <1>n, <2>3 DEF Sync, TypeOK
  <2>5. fresh' \in BOOLEAN /\ wake' \in BOOLEAN
    BY <1>9 DEF Sync
  <2> QED BY <1>9, <2>2, <2>4, <2>5 DEF Sync, TypeOK, FunctionsOK
<1>10. CASE SyncConflict
  BY <1>10, <1>n DEF SyncConflict, TypeOK, FunctionsOK
<1>11. CASE SyncAuthorization
  <2>1. /\ live' = [w \in Workloads |-> live'[w]]
        /\ \A w \in Workloads : live'[w] \in Counts(w)
    <3>1. \A w \in WorkloadsOf(cr.kind) : PodCounts(1, 0) \in Counts(w)
      BY <1>11 DEF SyncAuthorization, WorkloadsOf, Counts
    <3> QED BY <1>11, <3>1 DEF SyncAuthorization, TypeOK
  <2>2. wake' \in BOOLEAN
    BY <1>11 DEF SyncAuthorization
  <2>3. inst' \in [Processes -> CRs]
    BY <1>11, <1>n DEF SyncAuthorization, TypeOK
  <2> QED BY <1>11, <2>1, <2>2, <2>3 DEF SyncAuthorization, TypeOK, FunctionsOK
<1>12. ASSUME NEW p \in Processes, StartUpdateStatus(p) PROVE TypeInv'
  BY <1>12, StartType DEF StartUpdateStatus, TypeOK, FunctionsOK
<1>13. ASSUME NEW p \in Processes, WriteStatus(p) PROVE TypeInv'
  <2>1. cr' \in CRs
    BY <1>13 DEF WriteStatus, Written, TypeOK, CRs
  <2>2. fresh' \in BOOLEAN /\ current' \in BOOLEAN /\ (inst[p].state = "Succeeded") \in BOOLEAN
    BY <1>13 DEF WriteStatus
  <2>3. UpdateStatusReturns(p, inst[p].state = "Succeeded")
    BY <1>13 DEF WriteStatus
  <2> QED BY <1>13, <2>1, <2>2, <2>3, ReturnsType DEF WriteStatus, TypeOK, FunctionsOK, Controllers
<1>14. ASSUME NEW p \in Processes, GiveUp(p) PROVE TypeInv'
  <2>1. giveUps' \in 0..MaxGiveUps
    BY <1>14, ConstantsAssumption DEF GiveUp, TypeOK
  <2>2. UpdateStatusReturns(p, FALSE)
    BY <1>14 DEF GiveUp
  <2> QED BY <1>14, <2>1, <2>2, ReturnsType DEF GiveUp, TypeOK, FunctionsOK, Controllers
<1>15. CASE UNCHANGED vars
  BY <1>15 DEF vars, TypeOK, FunctionsOK
<1> QED
  BY <1>1, <1>2, <1>3, <1>4, <1>5, <1>6, <1>7, <1>8, <1>9, <1>10, <1>11, <1>12, <1>13, <1>14, <1>15
     DEF Next, Worker, Process, Processes

\* Every step keeps the CR, its copies, the locks, the events and the status
\* of the workloads what they are declared to be.
THEOREM TypeCorrect == Spec => []TypeOK
<1>1. TypeInv => TypeOK
  BY DEF TypeInv
<1> QED BY <1>1, TypeInit, TypeStep, PTL DEF Spec

(***************************************************************************)
(* The last successful configuration.                                      *)
(***************************************************************************)
\* The cache and the copies are of this CR.
SameKind == crSeen.kind = cr.kind /\ \A p \in Processes : inst[p].kind = cr.kind

\* An up-to-date copy has what the CR has; the worker's is one until it has
\* written the annotation.
UpToDate ==
    /\ fresh => crSeen = cr
    /\ current => /\ pc["worker"] \in {"handleSuccess", "sync"}
                  /\ inst["worker"].spec = cr.spec

\* The annotation of a driver is never ahead of its spec, and no copy, however
\* old, has a later configuration as applied or successful than the CR has as
\* applied.
NoneAhead ==
    cr.kind = "driver" =>
        /\ 1 <= cr.applied /\ cr.applied <= cr.spec /\ cr.lsc <= cr.applied
        /\ crSeen.applied <= cr.applied /\ crSeen.lsc <= cr.applied
        /\ \A p \in Processes : inst[p].applied <= cr.applied /\ inst[p].lsc <= cr.applied

\* The inductive invariant.
StatusInv == TypeInv /\ SameKind /\ UpToDate /\ NoneAhead

\* The configurations of a CR are numbers.
LEMMA Configurations ==
    ASSUME NEW i \in CRs PROVE i.spec \in Nat /\ i.applied \in Nat /\ i.lsc \in Nat
<1>1. i.spec \in 1..MaxSpecs /\ i.applied \in 0..MaxSpecs /\ i.lsc \in 0..MaxSpecs
  BY DEF CRs
<1> QED BY <1>1, ConstantsAssumption

\* calculateState leaves the configurations of a driver alone.
LEMMA CalculateStateOfDriver ==
    ASSUME NEW i \in CRs, NEW c
    PROVE  LET j == CalculateState(i, c)
           IN  /\ j.kind = i.kind /\ j.spec = i.spec /\ j.applied = i.applied
               /\ i.kind = "driver" => j.lsc = i.lsc
  BY DEF CalculateState, CRs

\* UpdateStatus makes the applied or the last successful configuration of the
\* process's copy the last successful one.
LEMMA StartUpdates ==
    ASSUME TypeOK, NEW p \in Processes, StartUpdateStatus(p)
    PROVE  /\ \A q \in Processes : /\ inst'[q].kind = inst[q].kind /\ inst'[q].spec = inst[q].spec
                                   /\ inst'[q].applied = inst[q].applied
           /\ \A q \in Processes : q # p => inst'[q].lsc = inst[q].lsc
           /\ inst[p].kind = "driver" => inst'[p].lsc \in {inst[p].lsc, inst[p].applied}
<1> DEFINE C == IF p = "deployments" THEN override ELSE seen["controller"]
           I == CalculateState(inst[p], C)
           J == [I EXCEPT !.lsc = LastSuccessful(I)]
<1>1. C \in Controllers
  BY ControllerCounts DEF TypeOK, Controllers, Workloads
<1>2. inst[p] \in CRs
  BY DEF TypeOK
<1>3. inst' = [inst EXCEPT ![p] = J] /\ inst \in [Processes -> CRs]
  BY DEF StartUpdateStatus, TypeOK
<1> HIDE DEF C
<1>4. /\ I \in CRs /\ I.kind = inst[p].kind /\ I.spec = inst[p].spec
      /\ I.applied = inst[p].applied
      /\ inst[p].kind = "driver" => I.lsc = inst[p].lsc
  BY <1>1, <1>2, CalculateStateType, CalculateStateOfDriver
<1> HIDE DEF I
<1>5. /\ J.kind = I.kind /\ J.spec = I.spec /\ J.applied = I.applied
      /\ J.lsc = LastSuccessful(I)
  BY <1>4 DEF CRs
<1>6. LastSuccessful(I) \in {I.lsc, I.applied}
  BY DEF LastSuccessful
<1> HIDE DEF J
<1>7. \A q \in Processes : inst'[q] = IF q = p THEN J ELSE inst[q]
  BY <1>3
<1> QED BY <1>4, <1>5, <1>6, <1>7

\* What a process leaves behind when UpdateStatus returns.
LEMMA ReturnsCopies ==
    ASSUME TypeOK, NEW p \in Processes, NEW ok, UpdateStatusReturns(p, ok)
    PROVE  /\ \A q \in Processes : inst'[q] = IF q = p THEN NoCopy ELSE inst[q]
           /\ \A q \in Processes : pc'[q] = IF q = p THEN "idle" ELSE pc[q]
  BY DEF UpdateStatusReturns, TypeOK

\* The copy of an idle process.
LEMMA NoCopyIs ==
    /\ NoCopy.kind = cr.kind /\ NoCopy.spec = 1 /\ NoCopy.lsc = 0
    /\ NoCopy.applied = IF cr.kind = "driver" THEN 1 ELSE 0
  BY DEF NoCopy, NewCR

\* The cached copy has the configurations of the cached CR.
LEMMA CachedCopyIs ==
    ASSUME TypeOK
    PROVE  /\ CachedCopy.kind = crSeen.kind /\ CachedCopy.spec = crSeen.spec
           /\ CachedCopy.lsc = crSeen.lsc /\ CachedCopy.applied = crSeen.applied
  BY DEF CachedCopy, TypeOK, CRs

\* The copies are compared in numbers.
LEMMA CopiesAreNumbers ==
    ASSUME TypeOK
    PROVE  /\ cr.spec \in Nat /\ cr.applied \in Nat /\ cr.lsc \in Nat
           /\ crSeen.spec \in Nat /\ crSeen.applied \in Nat /\ crSeen.lsc \in Nat
           /\ \A p \in Processes :
                 inst[p].spec \in Nat /\ inst[p].applied \in Nat /\ inst[p].lsc \in Nat
<1>1. cr \in CRs /\ crSeen \in CRs /\ \A p \in Processes : inst[p] \in CRs
  BY DEF TypeOK
<1> QED BY <1>1, Configurations

\* Every action preserves the invariant.
LEMMA StatusStep == StatusInv /\ [Next]_vars => StatusInv'
<1> SUFFICES ASSUME StatusInv, [Next]_vars PROVE SameKind' /\ UpToDate' /\ NoneAhead'
  BY TypeStep DEF StatusInv
<1>0. TypeOK /\ SameKind /\ UpToDate /\ NoneAhead
  BY DEF StatusInv, TypeInv
<1>n. /\ cr.spec \in Nat /\ cr.applied \in Nat /\ cr.lsc \in Nat
      /\ crSeen.spec \in Nat /\ crSeen.applied \in Nat /\ crSeen.lsc \in Nat
      /\ \A p \in Processes :
            inst[p].spec \in Nat /\ inst[p].applied \in Nat /\ inst[p].lsc \in Nat
  BY <1>0, CopiesAreNumbers
<1>w. "worker" \in Processes
  BY DEF Processes
<1>1. CASE EditSpec
  <2>1. /\ cr'.kind = cr.kind /\ cr'.applied = cr.applied /\ cr'.lsc = cr.lsc
        /\ cr'.spec = cr.spec + 1
    BY <1>0, <1>1 DEF EditSpec, TypeOK, CRs
  <2> QED BY <1>0, <1>1, <1>n, <2>1 DEF EditSpec, SameKind, UpToDate, NoneAhead
<1>2. ASSUME UNCHANGED <<cr, crSeen, fresh, current, inst, pc>>
      PROVE  SameKind' /\ UpToDate' /\ NoneAhead'
  BY <1>0, <1>2 DEF SameKind, UpToDate, NoneAhead
<1>3. CASE CRCacheSync
  BY <1>0, <1>3, <1>n DEF CRCacheSync, SameKind, UpToDate, NoneAhead
<1>4. ASSUME NEW k \in Handlers, Handle(k) PROVE SameKind' /\ UpToDate' /\ NoneAhead'
  <2>1. k \in Processes /\ k # "worker"
    BY DEF Processes, Handlers
  <2>2. /\ \A q \in Processes : inst'[q] = IF q = k THEN CachedCopy ELSE inst[q]
        /\ pc'["worker"] = pc["worker"]
    BY <1>0, <1>4, <1>w, <2>1 DEF Handle, TypeOK
  <2> QED
    BY <1>0, <1>4, <1>w, <2>1, <2>2, CachedCopyIs DEF Handle, SameKind, UpToDate, NoneAhead
<1>5. CASE Reconcile
  <2>1. /\ \A q \in Processes : inst'[q] = IF q = "worker" THEN CachedCopy ELSE inst[q]
        /\ pc'["worker"] = "handleSuccess"
    BY <1>0, <1>5, <1>w DEF Reconcile, TypeOK
  <2> QED
    BY <1>0, <1>5, <1>w, <2>1, CachedCopyIs DEF Reconcile, SameKind, UpToDate, NoneAhead
<1>6. CASE HandleSuccess
  <2> DEFINE I == CalculateState(inst["worker"], seen["controller"])
  <2>1. inst["worker"] \in CRs /\ inst' = [inst EXCEPT !["worker"].lsc = I.lsc]
    BY <1>0, <1>6, <1>w DEF HandleSuccess, TypeOK
  <2>2. inst["worker"].kind = "driver" => I.lsc = inst["worker"].lsc
    BY <2>1, CalculateStateOfDriver
  <2> HIDE DEF I
  <2>3. /\ \A q \in Processes : /\ inst'[q].kind = inst[q].kind /\ inst'[q].spec = inst[q].spec
                                /\ inst'[q].applied = inst[q].applied
        /\ \A q \in Processes : inst[q].kind = "driver" => inst'[q].lsc = inst[q].lsc
    BY <1>0, <1>w, <2>1, <2>2 DEF TypeOK, CRs
  <2>4. pc'["worker"] = "sync"
    BY <1>0, <1>6, <1>w DEF HandleSuccess, TypeOK
  <2> QED
    BY <1>0, <1>6, <1>w, <2>3, <2>4 DEF HandleSuccess, SameKind, UpToDate, NoneAhead
<1>7. CASE Sync
  <2>1. inst["worker"].spec = cr.spec /\ cr.kind = "driver"
    BY <1>0, <1>7 DEF Sync, UpToDate
  <2>2. /\ cr'.kind = cr.kind /\ cr'.spec = cr.spec /\ cr'.lsc = cr.lsc
        /\ cr'.applied = cr.spec
    BY <1>0, <1>7, <2>1 DEF Sync, TypeOK, CRs
  <2>3. inst["worker"] \in CRs
    BY <1>0, <1>w DEF TypeOK
  <2>4. /\ \A q \in Processes : q # "worker" => inst'[q] = inst[q]
        /\ \/ inst'["worker"] = NoCopy
           \/ inst'["worker"] = [inst["worker"] EXCEPT !.applied = inst["worker"].spec]
    BY <1>0, <1>7, <1>w DEF Sync, TypeOK
  <2>5. /\ inst'["worker"].kind = cr.kind
        /\ inst'["worker"].applied \in {1, cr.spec}
        /\ inst'["worker"].lsc \in {0, inst["worker"].lsc}
    BY <1>0, <1>w, <2>1, <2>3, <2>4, NoCopyIs DEF SameKind, CRs
  <2>6. SameKind'
    BY <1>0, <1>7, <2>2, <2>4, <2>5 DEF Sync, SameKind
  <2>7. UpToDate'
    BY <1>0, <1>7 DEF Sync, UpToDate
  <2>8. 1 <= cr.applied /\ cr.applied <= cr.spec
    BY <1>0, <2>1 DEF NoneAhead
  <2>9. \A q \in Processes : inst'[q].applied <= cr'.applied /\ inst'[q].lsc <= cr'.applied
    <3>1. ASSUME NEW q \in Processes, q # "worker"
          PROVE  inst'[q].applied <= cr'.applied /\ inst'[q].lsc <= cr'.applied
      BY <1>0, <1>n, <2>1, <2>2, <2>4, <2>8, <3>1 DEF NoneAhead
    <3>2. inst'["worker"].applied <= cr'.applied /\ inst'["worker"].lsc <= cr'.applied
      BY <1>0, <1>n, <1>w, <2>1, <2>2, <2>5, <2>8 DEF NoneAhead
    <3> QED BY <3>1, <3>2
  <2> QED BY <1>0, <1>7, <1>n, <2>1, <2>2, <2>6, <2>7, <2>8, <2>9 DEF Sync, NoneAhead
<1>8. CASE SyncConflict
  <2>1. \A q \in Processes : inst'[q] = IF q = "worker" THEN NoCopy ELSE inst[q]
    BY <1>0, <1>8 DEF SyncConflict, TypeOK
  <2> QED
    BY <1>0, <1>8, <1>n, <2>1, NoCopyIs DEF SyncConflict, SameKind, UpToDate, NoneAhead
<1>9. CASE SyncAuthorization
  <2>1. \A q \in Processes : inst'[q] \in {NoCopy, inst[q]}
    BY <1>0, <1>9 DEF SyncAuthorization, TypeOK
  <2> QED
    BY <1>0, <1>9, <2>1, NoCopyIs DEF SyncAuthorization, SameKind, UpToDate, NoneAhead
<1>10. ASSUME NEW p \in Processes, StartUpdateStatus(p)
       PROVE  SameKind' /\ UpToDate' /\ NoneAhead'
  <2>1. UNCHANGED <<cr, crSeen, fresh, current>>
    BY <1>10 DEF StartUpdateStatus
  <2>2. SameKind'
    BY <1>0, <1>10, <2>1, StartUpdates DEF SameKind
  <2>3. UpToDate'
    <3>1. current => p # "worker"
      BY <1>0, <1>10 DEF UpToDate, StartUpdateStatus
    <3>2. current => pc'["worker"] = pc["worker"]
      BY <1>0, <1>10, <1>w, <3>1 DEF StartUpdateStatus, TypeOK
    <3> QED BY <1>0, <1>10, <1>w, <2>1, <3>2, StartUpdates DEF UpToDate
  <2>4. NoneAhead'
    BY <1>0, <1>10, <2>1, StartUpdates DEF NoneAhead, SameKind
  <2> QED BY <2>2, <2>3, <2>4
<1>11. ASSUME NEW p \in Processes, WriteStatus(p)
       PROVE  SameKind' /\ UpToDate' /\ NoneAhead'
  <2>1. /\ cr'.kind = cr.kind /\ cr'.spec = cr.spec /\ cr'.applied = cr.applied
        /\ cr'.lsc = inst[p].lsc
    BY <1>0, <1>11 DEF WriteStatus, Written, TypeOK, CRs
  <2>2. /\ \A q \in Processes : inst'[q] = IF q = p THEN NoCopy ELSE inst[q]
        /\ \A q \in Processes : pc'[q] = IF q = p THEN "idle" ELSE pc[q]
    BY <1>0, <1>11, ReturnsCopies DEF WriteStatus
  <2>3. SameKind'
    BY <1>0, <1>11, <2>1, <2>2, NoCopyIs DEF WriteStatus, SameKind
  <2>4. UpToDate'
    <3>1. current => p # "worker"
      BY <1>0, <1>11 DEF UpToDate, WriteStatus
    <3> QED BY <1>0, <1>11, <1>w, <2>1, <2>2, <3>1 DEF WriteStatus, UpToDate
  <2>5. NoneAhead'
    BY <1>0, <1>11, <1>n, <2>1, <2>2, NoCopyIs DEF WriteStatus, NoneAhead
  <2> QED BY <2>3, <2>4, <2>5
<1>12. ASSUME NEW p \in Processes, GiveUp(p)
       PROVE  SameKind' /\ UpToDate' /\ NoneAhead'
  <2>1. /\ \A q \in Processes : inst'[q] = IF q = p THEN NoCopy ELSE inst[q]
        /\ \A q \in Processes : pc'[q] = IF q = p THEN "idle" ELSE pc[q]
    BY <1>0, <1>12, ReturnsCopies DEF GiveUp
  <2>2. current => p # "worker"
    BY <1>0, <1>12 DEF UpToDate, GiveUp
  <2>3. UNCHANGED <<cr, crSeen, fresh, current>>
    BY <1>12 DEF GiveUp
  <2>4. SameKind' /\ NoneAhead'
    BY <1>0, <1>n, <2>1, <2>3, NoCopyIs DEF SameKind, NoneAhead
  <2>5. UpToDate'
    BY <1>0, <1>w, <2>1, <2>2, <2>3 DEF UpToDate
  <2> QED BY <2>4, <2>5
<1>13. CASE WorkloadChanges \/ \E w \in Workloads : CacheSync(w)
  BY <1>2, <1>13 DEF WorkloadChanges, CacheSync
<1>14. CASE \E k \in Handlers : Resync(k)
  BY <1>2, <1>14 DEF Resync
<1>15. CASE UNCHANGED vars
  BY <1>2, <1>15 DEF vars
<1> QED
  BY <1>1, <1>3, <1>4, <1>5, <1>6, <1>7, <1>8, <1>9, <1>10, <1>11, <1>12, <1>13, <1>14, <1>15
     DEF Next, Worker, Process, Processes

\* The invariant holds initially.
LEMMA StatusInit == Init => StatusInv
<1> SUFFICES ASSUME Init PROVE SameKind /\ UpToDate /\ NoneAhead
  BY TypeInit DEF StatusInv
<1>1. PICK kind \in Kinds : cr = NewCR(kind)
  BY DEF Init
<1>2. /\ cr.kind = kind /\ cr.spec = 1 /\ cr.lsc = 0
      /\ cr.applied = IF kind = "driver" THEN 1 ELSE 0
  BY <1>1 DEF NewCR
<1>3. \A p \in Processes : inst[p] = NoCopy
  BY DEF Init
<1> QED BY <1>2, <1>3, NoCopyIs DEF Init, SameKind, UpToDate, NoneAhead

\* The configuration a driver's status shows as the last successful one was
\* recorded as applied by SyncCSM before, whatever the interleaving of the
\* worker and the handlers and however old the cache they copy the CR from.
THEOREM SuccessfulApplied == Spec => []SuccessfulWasApplied
<1>1. StatusInv => SuccessfulWasApplied
  BY DEF StatusInv, NoneAhead, SuccessfulWasApplied
<1> QED BY <1>1, StatusInit, StatusStep, PTL DEF Spec

(***************************************************************************)
(* The mutexes.                                                            *)
(***************************************************************************)
\* The mutex of operatorutils is held by a process exactly while it writes a
\* status, that of controllers by a handler exactly while it handles an event:
\* neither is left locked, taken twice or released by another process.
LocksHeld ==
    /\ \A p \in Processes : pc[p] = "write" <=> statusLock = p
    /\ \A k \in Handlers : pc[k] # "idle" <=> handlerLock = k

\* Every action preserves this.
LEMMA LocksStep == TypeOK /\ LocksHeld /\ [Next]_vars => LocksHeld'
<1> SUFFICES ASSUME TypeOK, LocksHeld, [Next]_vars PROVE LocksHeld'
  OBVIOUS
<1>1. "worker" \in Processes /\ "worker" \notin Handlers /\ Handlers \subseteq Processes
  BY DEF Processes, Handlers
<1>2. Free \notin Processes
  BY DEF Free, Processes, Handlers
<1>3. ASSUME UNCHANGED <<pc, statusLock, handlerLock>> PROVE LocksHeld'
  BY <1>3 DEF LocksHeld
<1>4. ASSUME NEW k \in Handlers, Handle(k) PROVE LocksHeld'
  <2>1. \A q \in Processes : pc'[q] = IF q = k THEN "updateStatus" ELSE pc[q]
    BY <1>1, <1>4 DEF Handle, TypeOK
  <2> QED BY <1>1, <1>2, <1>4, <2>1 DEF Handle, LocksHeld
<1>5. CASE Reconcile \/ HandleSuccess \/ Sync \/ SyncConflict \/ SyncAuthorization
  <2>1. /\ \A q \in Processes : q # "worker" => pc'[q] = pc[q]
        /\ pc["worker"] # "write" /\ pc'["worker"] # "write"
        /\ UNCHANGED <<statusLock, handlerLock>>
    BY <1>1, <1>5 DEF Reconcile, HandleSuccess, Sync, SyncConflict, SyncAuthorization, TypeOK
  <2> QED BY <1>1, <2>1 DEF LocksHeld
<1>6. ASSUME NEW p \in Processes, StartUpdateStatus(p) PROVE LocksHeld'
  <2>1. \A q \in Processes : pc'[q] = IF q = p THEN "write" ELSE pc[q]
    BY <1>6 DEF StartUpdateStatus, TypeOK
  <2> QED BY <1>1, <1>2, <1>6, <2>1 DEF StartUpdateStatus, LocksHeld
<1>7. ASSUME NEW p \in Processes, pc[p] = "write", NEW ok, UpdateStatusReturns(p, ok)
      PROVE  LocksHeld'
  <2>1. \A q \in Processes : pc'[q] = IF q = p THEN "idle" ELSE pc[q]
    BY <1>7, ReturnsCopies
  <2> QED BY <1>1, <1>2, <1>7, <2>1 DEF UpdateStatusReturns, LocksHeld
<1>8. ASSUME NEW p \in Processes, WriteStatus(p) \/ GiveUp(p) PROVE LocksHeld'
  BY <1>7, <1>8 DEF WriteStatus, GiveUp
<1>9. CASE EditSpec \/ WorkloadChanges \/ CRCacheSync \/ \E w \in Workloads : CacheSync(w)
  BY <1>3, <1>9 DEF EditSpec, WorkloadChanges, CRCacheSync, CacheSync
<1>10. CASE \E k \in Handlers : Resync(k)
  BY <1>3, <1>10 DEF Resync
<1>11. CASE UNCHANGED vars
  BY <1>3, <1>11 DEF vars
<1> QED
  BY <1>1, <1>4, <1>5, <1>6, <1>8, <1>9, <1>10, <1>11 DEF Next, Worker, Process

\* UpdateStatus and the handlers hold their mutexes exactly while they need
\* them, on the error path as well (GiveUp).
THEOREM MutexesHeld == Spec => []LocksHeld
<1>1. Init => LocksHeld
  BY DEF Init, LocksHeld, Free, Processes, Handlers
<1> QED BY <1>1, LocksStep, TypeCorrect, PTL DEF Spec
=============================================================================
