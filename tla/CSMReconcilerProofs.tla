------------------------ MODULE CSMReconcilerProofs ------------------------
(***************************************************************************)
(* CSMReconciler, for every driver type, every set of specs and every      *)
(* bound:                                                                  *)
(*   - it is type correct, and the plans of SyncCSM and of the deletion    *)
(*     branch are what the invariants take them for;                       *)
(*   - no object is applied, or left behind by a removal, without the      *)
(*     finalizer on the CR: IInv is an inductive invariant;                *)
(*   - the applied-configuration annotation is a write-ahead record of the *)
(*     modules: RecordInv is inductive, relative to IInv;                  *)
(*   - it implements CSMLifecycle.                                         *)
(***************************************************************************)
EXTENDS CSMReconciler, SequenceTheorems, TLAPS

(***************************************************************************)
(* Sequences of steps.                                                     *)
(***************************************************************************)
\* When(c, s) is s or empty, so it has the type of s.
LEMMA WhenType ==
    ASSUME NEW S, NEW c, NEW s \in Seq(S)
    PROVE  When(c, s) \in Seq(S)
BY DEF When

\* A sequence of objects becomes a sequence of steps with one operation.
LEMMA StepsType ==
    ASSUME NEW S, NEW T, NEW op, NEW objs \in Seq(T),
           \A i \in DOMAIN objs : Step(op, objs[i]) \in S
    PROVE  Steps(op, objs) \in Seq(S) /\ Len(Steps(op, objs)) = Len(objs)
<1>1. DOMAIN objs = 1..Len(objs) /\ Len(objs) \in Nat
  OBVIOUS
<1>2. Steps(op, objs) \in [1..Len(objs) -> S]
  BY <1>1 DEF Steps
<1> QED
  BY <1>1, <1>2

\* A sequence over one set is one over a larger set.
LEMMA SeqUnion ==
    ASSUME NEW S, NEW T
    PROVE  \A s \in Seq(S) : s \in Seq(S \cup T) /\ s \in Seq(T \cup S)
<1> TAKE s \in Seq(S)
<1>1. s \in [1..Len(s) -> S \cup T] /\ s \in [1..Len(s) -> T \cup S] /\ Len(s) \in Nat
  OBVIOUS
<1> QED
  BY <1>1

\* The elements of a concatenation are those of its parts.
LEMMA ConcatElements ==
    ASSUME NEW S, NEW s \in Seq(S), NEW t \in Seq(S), NEW i \in DOMAIN (s \o t)
    PROVE  \/ i \in DOMAIN s /\ (s \o t)[i] = s[i]
           \/ i - Len(s) \in DOMAIN t /\ (s \o t)[i] = t[i - Len(s)]
  OBVIOUS

\* Whatever a part of a removal plan still deletes, the whole deletes.
LEMMA ToDeleteConcat ==
    ASSUME NEW S, NEW s \in Seq(S), NEW t \in Seq(S)
    PROVE  ToDelete(s) \cup ToDelete(t) \subseteq ToDelete(s \o t)
<1>1. ASSUME NEW o \in ToDelete(s) PROVE o \in ToDelete(s \o t)
  <2>1. PICK i \in DOMAIN s : s[i].obj = o /\ s[i].op \in {"delete", "get+delete"}
    BY <1>1 DEF ToDelete
  <2>2. i \in DOMAIN (s \o t) /\ (s \o t)[i] = s[i]
    BY <2>1
  <2> QED
    BY <1>1, <2>1, <2>2 DEF ToDelete
<1>2. ASSUME NEW o \in ToDelete(t) PROVE o \in ToDelete(s \o t)
  <2>1. PICK i \in DOMAIN t : t[i].obj = o /\ t[i].op \in {"delete", "get+delete"}
    BY <1>2 DEF ToDelete
  <2>2. i + Len(s) \in DOMAIN (s \o t) /\ (s \o t)[i + Len(s)] = t[i]
    BY <2>1
  <2> QED
    BY <1>2, <2>1, <2>2 DEF ToDelete
<1> QED
  BY <1>1, <1>2

\* Doing the first step of a plan takes at most that step's object off the
\* list of objects to delete.
LEMMA ToDeleteTail ==
    ASSUME NEW p \in Seq(RemovalStepType), p # << >>,
           NEW o \in ToDelete(p), o \notin ToDelete(Tail(p))
    PROVE  Head(p).obj = o /\ Head(p).op \in {"delete", "get+delete"}
<1>1. PICK i \in DOMAIN p : p[i].obj = o /\ p[i].op \in {"delete", "get+delete"}
  BY DEF ToDelete
<1>2. CASE i = 1
  BY <1>1, <1>2
<1>3. CASE i # 1
  <2>1. i - 1 \in DOMAIN Tail(p) /\ Tail(p)[i - 1] = p[i]
    BY <1>3
  <2> QED
    BY <1>1, <2>1 DEF ToDelete
<1> QED
  BY <1>2, <1>3

(***************************************************************************)
(* The plans.                                                              *)
(***************************************************************************)
\* SyncCSM's plan contains neither a release nor a disown step, and for COSI
\* it touches no node object.
LEMMA SyncPlanType ==
    ASSUME NEW s \in SpecType, NEW prev \in Seq(SpecType)
    PROVE  SyncPlan(DriverType, prev, s) \in Seq(SyncStepType)
<1> DEFINE t == DriverType
           Q == Seq(SyncStepType)
<1> USE DEF SyncStepType, SyncObjects, NodeObjects, StepObjects, Objects, DriverObjects, ModuleObjects, OwnedObjects
<1>0. /\ \A a, b \in Q : a \o b \in Q
      /\ << >> \in Q
      /\ \A o \in SyncObjects : Step("apply", o) \in SyncStepType
  <2> HIDE DEF SyncObjects
  <2>1. \A o \in SyncObjects : Step("apply", o) \in SyncStepType
    BY DEF Step
  <2> HIDE DEF SyncStepType
  <2> QED
    BY <2>1
<1>1. CleanupSteps(prev, s) \in Q
  <2>1. <<Step("delete", "replCtrl"), Step("warn", "replCRDs")>> \in Q
    BY DEF Step
  <2>2. <<Step("delete", "obs")>> \in Q
    BY DEF Step
  <2>3. <<Step("save", "cr")>> \in Q
    BY DEF Step
  <2> HIDE DEF SyncStepType
  <2> QED
    BY <1>0, <2>1, <2>2, <2>3, WhenType DEF CleanupSteps
<1>2. DRSteps(t, s) \in Q
  <2>1. <<Step("apply", "drCRD")>> \in Q /\ <<Step("delete", "drCRD")>> \in Q
    BY DEF Step
  <2> HIDE DEF SyncStepType
  <2> QED
    BY <1>0, <2>1, WhenType DEF DRSteps
<1>3. MetricsSteps(t, s.metrics) \in Q
  <2>1. /\ Step("apply", "metricsSvc") \in SyncStepType /\ Step("warn", "metricsSvc") \in SyncStepType
        /\ Step("apply", "serviceMonitor") \in SyncStepType
        /\ Step("warn", "serviceMonitor") \in SyncStepType
    BY DEF Step
  <2> HIDE DEF SyncStepType
  <2>2. << IF "service" \in s.metrics THEN Step("apply", "metricsSvc")
                                      ELSE Step("warn", "metricsSvc"),
           IF {"service", "monitor"} \subseteq s.metrics
             THEN Step("apply", "serviceMonitor")
             ELSE Step("warn", "serviceMonitor") >> \in Q
    BY <2>1
  <2> QED
    BY <2>2, WhenType DEF MetricsSteps
<1>4. DriverSyncSteps(t, s) \in Q
  <2>1. <<"ctrlSA", "ctrlCR", "ctrlCRB", "configMap">> \in Seq(SyncObjects)
    <3>1. {"ctrlSA", "ctrlCR", "ctrlCRB", "configMap"} \subseteq SyncObjects
      OBVIOUS
    <3> HIDE DEF SyncObjects
    <3> QED
      BY <3>1
  <2>2. <<Step("ssa", "deployment")>> \in Q
    BY DEF Step
  <2>3. ASSUME t # "cosi"
        PROVE  /\ <<"nodeSA", "ctrlSA", "nodeCR", "ctrlCR", "nodeCRB", "ctrlCRB",
                    "nodeRole", "ctrlRole", "nodeRB", "ctrlRB",
                    "csiDriver", "configMap">> \in Seq(SyncObjects)
               /\ <<Step("ssa", "daemonSet")>> \in Q
    BY <2>3 DEF Step
  <2> HIDE DEF SyncStepType, SyncObjects
  <2>4. \A objs \in Seq(SyncObjects) : Steps("apply", objs) \in Q
    BY <1>0, StepsType
  <2> QED
    BY <1>0, <1>2, <2>1, <2>2, <2>3, <2>4 DEF DriverSyncSteps
<1>5. <<Step("check", "version")>> \in Q
  BY DEF Step
<1>6. <<Step("check", "driverConfig")>> \in Q
  BY DEF Step
<1>7. <<Step("check", "injection")>> \in Q
  BY DEF Step
<1>8. /\ <<Step("apply", "replCRDs")>> \in Q
      /\ <<Step("apply", "replCtrl"), Step("create", "replCM")>> \in Q
      /\ <<Step("apply", "obs")>> \in Q
  BY DEF Step
<1> HIDE DEF SyncStepType
<1>9. /\ When("replication" \in s.modules, <<Step("apply", "replCRDs")>>) \in Q
      /\ When(t # "cosi" /\ "replication" \in s.modules,
              <<Step("apply", "replCtrl"), Step("create", "replCM")>>) \in Q
      /\ When(t # "cosi" /\ "observability" \in s.modules, <<Step("apply", "obs")>>) \in Q
  BY <1>8, WhenType
<1> HIDE DEF Q
<1> QED
  BY <1>0, <1>1, <1>3, <1>4, <1>5, <1>6, <1>7, <1>9 DEF SyncPlan, Q

\* What removeDriver does before the finalizer is removed.
RemoveStepType ==
    [op : {"check", "delete", "get+delete", "warn", "disown"}, obj : StepObjects]

\* removeDriver is a sequence of such steps, and it deletes every object of
\* the driver.
LEMMA RemoveDriverCovers ==
    ASSUME NEW s \in SpecType
    PROVE  /\ RemoveDriverSteps(DriverType, s) \in Seq(RemoveStepType)
           /\ DriverObjects \ (IF DriverType = "cosi" THEN NodeObjects ELSE {})
                \subseteq ToDelete(RemoveDriverSteps(DriverType, s))
<1> DEFINE t == DriverType
           Q == Seq(RemoveStepType)
           a == When(t # "cosi", Steps("delete", NodeRbac))
           b == Steps("delete", ControllerRbac)
           c == <<Step("delete", "configMap")>>
           d == When(t # "cosi", <<Step("delete", "csiDriver"), Step("get+delete", "daemonSet")>>)
           e == <<Step("get+delete", "deployment")>>
<1> USE DEF StepObjects, Objects, DriverObjects, ModuleObjects, OwnedObjects
<1>1. \A op \in {"check", "delete", "get+delete", "warn"}, o \in StepObjects :
         Step(op, o) \in RemoveStepType
  BY DEF RemoveStepType, Step
<1>2. /\ NodeRbac \in Seq(StepObjects) /\ ControllerRbac \in Seq(StepObjects)
  BY DEF NodeRbac, ControllerRbac
<1>3. Steps("delete", NodeRbac) \in Q /\ Steps("delete", ControllerRbac) \in Q
  BY <1>1, <1>2, StepsType
<1>4. c \in Q /\ e \in Q
  BY <1>1
<1>5. <<Step("delete", "csiDriver"), Step("get+delete", "daemonSet")>> \in Q
  BY <1>1
<1>6. a \in Q /\ b \in Q /\ d \in Q
  BY <1>3, <1>5, WhenType
<1>7. /\ <<Step("check", "driverConfig")>> \in Q
      /\ <<Step("delete", "replCtrl"), Step("delete", "replCM"), Step("warn", "replCRDs")>> \in Q
      /\ <<Step("delete", "obs")>> \in Q /\ <<Step("delete", "drCRD")>> \in Q
      /\ <<Step("warn", "metricsSvc"), Step("warn", "serviceMonitor")>> \in Q
  BY <1>1
<1>8. MetricsSteps(t, {}) \in Q
  <2>1. MetricsSteps(t, {}) = When(t = "powerflex", <<Step("warn", "metricsSvc"), Step("warn", "serviceMonitor")>>)
    BY DEF MetricsSteps
  <2> QED
    BY <2>1, <1>7, WhenType
<1> DEFINE r == When("replication" \in s.modules,
                   <<Step("delete", "replCtrl"), Step("delete", "replCM"), Step("warn", "replCRDs")>>)
           o == When("observability" \in s.modules, <<Step("delete", "obs")>>)
           w == When(t = "powerstore", <<Step("delete", "drCRD")>>)
<1>9. r \in Q /\ o \in Q /\ w \in Q
  BY <1>7, WhenType
<1>10. \A x, y \in Q : x \o y \in Q
  OBVIOUS
<1>11. DriverRemoveSteps(t) \in Q
  <2> HIDE DEF a, b, c, d, e, Q
  <2>1. DriverRemoveSteps(t) = a \o b \o c \o d \o e
    BY DEF DriverRemoveSteps, a, b, c, d, e
  <2> QED
    BY <1>4, <1>6, <1>10, <2>1
<1>12. RemoveDriverSteps(t, s) \in Q
  <2> HIDE DEF Q, r, o, w
  <2> QED
    BY <1>7, <1>8, <1>9, <1>10, <1>11 DEF RemoveDriverSteps, r, o, w
<1>13. \A x, y \in Q : ToDelete(x) \subseteq ToDelete(x \o y) /\ ToDelete(y) \subseteq ToDelete(x \o y)
  BY ToDeleteConcat
<1>14. ASSUME NEW objs \in Seq(DriverObjects), NEW i \in DOMAIN objs
       PROVE  objs[i] \in ToDelete(Steps("delete", objs))
  <2>1. DOMAIN Steps("delete", objs) = DOMAIN objs /\ Steps("delete", objs)[i] = Step("delete", objs[i])
    BY DEF Steps
  <2>2. objs[i] \in DriverObjects
    BY <1>14
  <2> QED
    BY <2>1, <2>2 DEF ToDelete, Step
<1>15. {"ctrlSA", "ctrlCR", "ctrlCRB", "ctrlRole", "ctrlRB"} \subseteq ToDelete(b)
  <2>1. ControllerRbac \in Seq(DriverObjects) /\ DOMAIN ControllerRbac = 1..5
    BY DEF ControllerRbac
  <2>2. \A i \in 1..5 : ControllerRbac[i] \in ToDelete(b)
    BY <1>14, <2>1
  <2> QED
    BY <2>2 DEF ControllerRbac
<1>16. ASSUME t # "cosi"
       PROVE  {"nodeSA", "nodeCR", "nodeCRB", "nodeRole", "nodeRB"} \subseteq ToDelete(a)
  <2>1. NodeRbac \in Seq(DriverObjects) /\ DOMAIN NodeRbac = 1..5
    BY DEF NodeRbac
  <2>2. \A i \in 1..5 : NodeRbac[i] \in ToDelete(Steps("delete", NodeRbac))
    BY <1>14, <2>1
  <2>3. a = Steps("delete", NodeRbac)
    BY <1>16 DEF When
  <2> QED
    BY <2>2, <2>3 DEF NodeRbac
<1>17. "configMap" \in ToDelete(c)
  <2>1. 1 \in DOMAIN c /\ c[1].obj = "configMap" /\ c[1].op = "delete"
    BY DEF Step
  <2> QED
    BY <2>1 DEF ToDelete
<1>18. "deployment" \in ToDelete(e)
  <2>1. 1 \in DOMAIN e /\ e[1].obj = "deployment" /\ e[1].op = "get+delete"
    BY DEF Step
  <2> QED
    BY <2>1 DEF ToDelete
<1>19. ASSUME t # "cosi"
       PROVE  {"csiDriver", "daemonSet"} \subseteq ToDelete(d)
  <2>0. d = <<Step("delete", "csiDriver"), Step("get+delete", "daemonSet")>>
    BY <1>19 DEF When
  <2>1. 1 \in DOMAIN d /\ d[1].obj = "csiDriver" /\ d[1].op = "delete"
    BY <2>0 DEF Step
  <2>2. 2 \in DOMAIN d /\ d[2].obj = "daemonSet" /\ d[2].op = "get+delete"
    BY <2>0 DEF Step
  <2> QED
    BY <2>1, <2>2 DEF ToDelete
<1> HIDE DEF a, b, c, d, e, Q, r, o, w
<1>20. /\ ToDelete(a) \subseteq ToDelete(DriverRemoveSteps(t))
       /\ ToDelete(b) \subseteq ToDelete(DriverRemoveSteps(t))
       /\ ToDelete(c) \subseteq ToDelete(DriverRemoveSteps(t))
       /\ ToDelete(d) \subseteq ToDelete(DriverRemoveSteps(t))
       /\ ToDelete(e) \subseteq ToDelete(DriverRemoveSteps(t))
  <2>1. DriverRemoveSteps(t) = (((a \o b) \o c) \o d) \o e
    BY DEF DriverRemoveSteps, a, b, c, d, e
  <2>2. /\ (a \o b) \in Q /\ ((a \o b) \o c) \in Q /\ (((a \o b) \o c) \o d) \in Q
    BY <1>4, <1>6, <1>10
  <2> QED
    BY <1>4, <1>6, <1>13, <2>1, <2>2
<1>21. ToDelete(DriverRemoveSteps(t)) \subseteq ToDelete(RemoveDriverSteps(t, s))
  <2> DEFINE k == <<Step("check", "driverConfig")>>
             n == DriverRemoveSteps(t)
             m == MetricsSteps(t, {})
  <2> HIDE DEF k, n, m
  <2>1. RemoveDriverSteps(t, s) = ((((k \o n) \o r) \o o) \o w) \o m
    BY DEF RemoveDriverSteps, k, n, m, r, o, w
  <2>2. k \in Q /\ n \in Q /\ m \in Q
    BY <1>7, <1>8, <1>11 DEF k, n, m
  <2>3. /\ (k \o n) \in Q /\ ((k \o n) \o r) \in Q /\ (((k \o n) \o r) \o o) \in Q
        /\ ((((k \o n) \o r) \o o) \o w) \in Q
    BY <1>9, <1>10, <2>2
  <2> QED
    BY <1>9, <1>13, <2>1, <2>2, <2>3 DEF n
<1> QED
  BY <1>12, <1>15, <1>16, <1>17, <1>18, <1>19, <1>20, <1>21 DEF Q, NodeObjects

\* A removal releases the finalizer last and only then, and unless it keeps
\* the driver it plans to delete every object of the driver.
LEMMA RemovalPlanCovers ==
    ASSUME NEW s \in SpecType
    PROVE  LET p == RemovalPlan(DriverType, s)
           IN  /\ p \in Seq(RemovalStepType) /\ p # << >>
               /\ \A i \in DOMAIN p : p[i].op = "release" <=> i = Len(p)
               /\ \/ p[1].op = "disown"
                  \/ DriverObjects \ (IF DriverType = "cosi" THEN NodeObjects ELSE {})
                        \subseteq ToDelete(p)
<1> DEFINE rel == <<Step("release", "cr")>>
<1>1. rel \in Seq(RemovalStepType) /\ rel[1].op = "release" /\ Len(rel) = 1
  BY DEF RemovalStepType, Step, StepObjects
<1>2. RemoveStepType \subseteq RemovalStepType
  BY DEF RemoveStepType, RemovalStepType
<1>3. ASSUME NEW q \in Seq(RemoveStepType)
      PROVE  /\ q \o rel \in Seq(RemovalStepType) /\ q \o rel # << >>
             /\ \A i \in DOMAIN (q \o rel) : (q \o rel)[i].op = "release" <=> i = Len(q \o rel)
             /\ ToDelete(q) \subseteq ToDelete(q \o rel)
  <2> HIDE DEF rel
  <2>1. q \in Seq(RemovalStepType)
    <3>1. q \in [1..Len(q) -> RemovalStepType] /\ Len(q) \in Nat
      BY <1>2
    <3> QED
      BY <3>1
  <2>2. q \o rel \in Seq(RemovalStepType) /\ Len(q \o rel) = Len(q) + 1 /\ q \o rel # << >>
    <3>1. q \o rel \in Seq(RemovalStepType) /\ Len(q \o rel) = Len(q) + 1 /\ Len(q) \in Nat
      BY <1>1, <2>1, ConcatProperties
    <3> DEFINE z == q \o rel
    <3>2. Len(z) # 0
      BY <3>1
    <3> HIDE DEF z
    <3>3. z # << >>
      BY <3>2
    <3> QED
      BY <3>1, <3>3 DEF z
  <2>3. ASSUME NEW i \in DOMAIN (q \o rel) PROVE (q \o rel)[i].op = "release" <=> i = Len(q \o rel)
    <3>1. CASE i \in DOMAIN q
      <4>1. (q \o rel)[i] = q[i] /\ q[i] \in RemoveStepType /\ i <= Len(q)
        BY <1>1, <2>1, <3>1
      <4> QED
        BY <2>2, <3>1, <4>1 DEF RemoveStepType
    <3>2. CASE i \notin DOMAIN q
      <4>1. i = Len(q) + 1 /\ (q \o rel)[i] = rel[1]
        BY <1>1, <2>1, <2>2, <3>2
      <4> QED
        BY <1>1, <2>2, <4>1
    <3> QED
      BY <3>1, <3>2
  <2>4. ToDelete(q) \subseteq ToDelete(q \o rel)
    BY <1>1, <2>1, ToDeleteConcat
  <2> QED
    BY <2>2, <2>3, <2>4
<1>4. CASE s.force = "true"
  <2>1. RemovalPlan(DriverType, s) = RemoveDriverSteps(DriverType, s) \o rel
    BY <1>4 DEF RemovalPlan
  <2> HIDE DEF rel
  <2> QED
    BY <1>3, <2>1, RemoveDriverCovers
<1>5. CASE s.force # "true"
  <2>1. <<Step("disown", "deployment")>> \in Seq(RemoveStepType)
    BY DEF RemoveStepType, Step, StepObjects, Objects, DriverObjects
  <2>2. RemovalPlan(DriverType, s) = <<Step("disown", "deployment")>> \o rel
    BY <1>5 DEF RemovalPlan, Step
  <2>3. (<<Step("disown", "deployment")>> \o rel)[1].op = "disown"
    BY DEF Step
  <2> HIDE DEF rel
  <2> QED
    BY <1>3, <2>1, <2>2, <2>3
<1> QED
  BY <1>4, <1>5

(***************************************************************************)
(* The CR and its copies.                                                  *)
(***************************************************************************)
\* Defaulting forceRemoveDriver keeps a spec a spec.
LEMMA DefaultedType ==
    ASSUME NEW s \in SpecType
    PROVE  Defaulted(s) \in SpecType
BY DEF Defaulted, SpecType

\* A CR the user creates, and the absent CR, have the type of a CR.
LEMMA NewCRType ==
    /\ NoCR \in CRType
    /\ \A u \in Nat, s \in SpecType : NewCR(u, s) \in CRType
<1>1. NilSpec \in SpecType
  BY DEF NilSpec, SpecType, StandaloneModules
<1>2. \A u \in Nat, s \in SpecType : NewCR(u, s) \in CRType
  BY DEF NewCR, CRType, States
<1>3. NewCR(0, NilSpec) \in CRType
  BY <1>1, <1>2
<1>4. \A c \in CRType : [c EXCEPT !.exists = FALSE, !.gen = 0] \in CRType
  BY DEF CRType
<1> QED
  BY <1>2, <1>3, <1>4 DEF NoCR

\* What the worker writes back is a CR: the pending change is one of four
\* fields, and the API server keeps status and generation.
LEMMA UpdateType ==
    ASSUME csm \in CRType, api \in CRType
    PROVE  /\ PendingUpdate \in CRType
           /\ \A obj \in CRType : Stored(obj) \in CRType
           /\ \A obj \in CRType : [obj EXCEPT !.gen = Stored(obj).gen] \in CRType
           /\ [csm EXCEPT !.fin = TRUE] \in CRType
           /\ [csm EXCEPT !.cfgv = csm.spec.ver] \in CRType
<1>0. csm.spec \in SpecType /\ csm.spec.ver \in Nat
  BY DEF CRType, SpecType
<1>1. [csm EXCEPT !.fin = TRUE] \in CRType /\ [csm EXCEPT !.fin = FALSE] \in CRType
  BY DEF CRType
<1>2. [csm EXCEPT !.cfgv = csm.spec.ver] \in CRType
  BY <1>0 DEF CRType
<1>3. [csm EXCEPT !.prev = <<csm.spec>>] \in CRType
  <2>1. <<csm.spec>> \in Seq(SpecType)
    BY <1>0
  <2>2. \A q \in Seq(SpecType) : [csm EXCEPT !.prev = q] \in CRType
    BY DEF CRType
  <2> QED
    BY <2>1, <2>2
<1>4. /\ \A o \in CRType, st \in States : [o EXCEPT !.state = st] \in CRType
      /\ \A o \in CRType, g \in Nat : [o EXCEPT !.gen = g] \in CRType
      /\ \A o \in CRType, x \in BOOLEAN : [o EXCEPT !.exists = x] \in CRType
  BY DEF CRType
<1>5. ASSUME NEW obj \in CRType
      PROVE  Stored(obj) \in CRType /\ [obj EXCEPT !.gen = Stored(obj).gen] \in CRType
  <2> DEFINE g == IF obj.spec = api.spec THEN api.gen ELSE api.gen + 1
             x == ~obj.deleting \/ obj.fin
             o1 == [obj EXCEPT !.state = api.state]
             o2 == [o1 EXCEPT !.gen = g]
  <2>1. api.state \in States /\ g \in Nat /\ x \in BOOLEAN
    BY DEF CRType
  <2>2. Stored(obj) = [o2 EXCEPT !.exists = x]
    BY DEF Stored
  <2> HIDE DEF g, x
  <2>3. Stored(obj) \in CRType
    BY <1>4, <2>1, <2>2
  <2>4. Stored(obj).gen \in Nat
    BY <2>3 DEF CRType
  <2> QED
    BY <1>4, <2>3, <2>4
<1> QED
  BY <1>1, <1>2, <1>3, <1>5 DEF PendingUpdate

(***************************************************************************)
(* Type correctness.                                                       *)
(***************************************************************************)
\* The variables an operation on the cluster's objects changes keep their
\* types, whatever the object.
LEMMA ObjectType ==
    ASSUME TypeOK, NEW o \in StepObjects, Put(o) \/ Drop(o) \/ Pass(o)
    PROVE  /\ cluster' \subseteq StepObjects /\ unseen' \subseteq cluster'
           /\ abandoned' \subseteq cluster'
           /\ owner' \in [OwnedObjects -> Nat] /\ installed' \in Nat
<1>1. csm.uid \in Nat /\ csm.spec.ver \in Nat
  BY DEF TypeOK, CRType, SpecType
<1>2. CASE Put(o)
  BY <1>1, <1>2 DEF TypeOK, Put
<1>3. CASE Drop(o)
  BY <1>3 DEF TypeOK, Drop
<1>4. CASE Pass(o)
  BY <1>4 DEF TypeOK, Pass
<1> QED
  BY <1>2, <1>3, <1>4

\* The next step of a plan is one of its steps, and so are the ones after it.
LEMMA HeadOfPlan ==
    ASSUME TypeOK, plan # << >>
    PROVE  /\ Head(plan) \in SyncStepType \cup RemovalStepType
           /\ Head(plan).obj \in StepObjects
           /\ Tail(plan) \in Seq(SyncStepType \cup RemovalStepType)
<1>1. Head(plan) \in SyncStepType \cup RemovalStepType
      /\ Tail(plan) \in Seq(SyncStepType \cup RemovalStepType)
  BY HeadTailProperties DEF TypeOK
<1>2. SyncObjects \subseteq StepObjects
  BY DEF SyncObjects
<1> QED
  BY <1>1, <1>2 DEF SyncStepType, RemovalStepType

\* Returning from Reconcile forgets the worker's copy of the CR.
LEMMA ReturnType ==
    ASSUME TypeOK, Return
    PROVE  /\ csm' \in CRType /\ csmCurrent' \in BOOLEAN /\ requeue' \in BOOLEAN
           /\ pc' \in {"idle", "precheck", "remove", "finalizer", "annotate", "sync", "report"}
           /\ plan' \in Seq(SyncStepType \cup RemovalStepType)
<1>1. << >> \in Seq(SyncStepType \cup RemovalStepType) /\ NoCR \in CRType
  BY NewCRType, EmptySeq
<1> QED
  BY <1>1 DEF Return

\* Going on to the next step of a plan.
LEMMA NextStepType ==
    ASSUME TypeOK, plan # << >>, NextStep
    PROVE  /\ csm' \in CRType /\ csmCurrent' \in BOOLEAN /\ requeue' \in BOOLEAN
           /\ pc' \in {"idle", "precheck", "remove", "finalizer", "annotate", "sync", "report"}
           /\ plan' \in Seq(SyncStepType \cup RemovalStepType)
BY HeadOfPlan DEF NextStep, TypeOK

\* TypeOK is inductive: every step, of whoever, keeps the types.
LEMMA TypeStep ==
    ASSUME TypeOK, [Next]_vars
    PROVE  TypeOK'
<1> USE ConstantsAssumption
<1>a. api \in CRType /\ cache \in CRType /\ csm \in CRType
  BY DEF TypeOK
<1>b. /\ \A c \in CRType, s \in SpecType, g \in Nat : [c EXCEPT !.spec = s, !.gen = g] \in CRType
      /\ \A c \in CRType, s \in SpecType : [c EXCEPT !.spec = s] \in CRType
      /\ \A c \in CRType, b \in BOOLEAN, g \in Nat : [c EXCEPT !.deleting = b, !.gen = g] \in CRType
      /\ \A c \in CRType, b \in BOOLEAN : [c EXCEPT !.exists = b] \in CRType
      /\ \A c \in CRType, st \in States : [c EXCEPT !.state = st] \in CRType
  BY DEF CRType
<1>c. api.uid + 1 \in Nat /\ api.gen + 1 \in Nat
  BY <1>a DEF CRType
<1>d. edits + 1 \in Nat /\ (Fault \/ NoFault => faults' \in Nat)
  BY DEF TypeOK, Fault, NoFault
<1>1. CASE UNCHANGED vars
  BY <1>1 DEF TypeOK, vars, apiVars, workVars, objVars, envVars
<1> USE DEF apiVars, workVars, objVars, envVars
<1>2. CASE Create
  <2>1. api' \in CRType
    <3>1. PICK s \in Specs : api' = NewCR(api.uid + 1, s)
      BY <1>2 DEF Create, WriteByOther
    <3>2. s \in SpecType
      BY <3>1
    <3> QED
      BY <1>c, <3>1, <3>2, NewCRType
  <2> QED
    BY <1>2, <2>1 DEF TypeOK, Create, WriteByOther
<1>3. CASE EditSpec
  <2>1. api' \in CRType
    <3>1. PICK s \in Specs : api' = [api EXCEPT !.spec = s, !.gen = @ + 1]
      BY <1>3 DEF EditSpec, WriteByOther
    <3>2. s \in SpecType
      BY <3>1
    <3> QED
      BY <1>a, <1>b, <1>c, <3>1, <3>2
  <2> QED
    BY <1>3, <1>d, <2>1 DEF TypeOK, EditSpec, WriteByOther
<1>4. CASE Delete
  <2>1. api' \in CRType
    BY <1>4, <1>a, <1>b, <1>c DEF Delete, WriteByOther
  <2> QED
    BY <1>4, <2>1 DEF TypeOK, Delete, WriteByOther
<1>5. CASE ChangePrerequisites
  BY <1>5, <1>d DEF TypeOK, ChangePrerequisites
<1>6. CASE CacheSync
  BY <1>6 DEF TypeOK, CacheSync
<1>7. CASE ObjectCacheSync
  BY <1>7 DEF TypeOK, ObjectCacheSync
<1>8. CASE GetCR
  <2>1. csm' \in CRType
    <3>1. cache.spec \in SpecType
      BY <1>a DEF CRType
    <3> QED
      BY <1>8, <1>a, <1>b, <3>1, DefaultedType DEF GetCR
  <2> QED
    BY <1>8, <2>1 DEF TypeOK, GetCR
<1>9. CASE GetNotFound
  BY <1>9 DEF TypeOK, GetNotFound
<1>10. CASE GetError
  BY <1>10, <1>d DEF TypeOK, GetError
<1>11. CASE LoadFails
  BY <1>11, <1>d, ReturnType DEF TypeOK, LoadFails, ReturnError
<1>12. CASE PreChecksFail
  <2>1. api' \in CRType /\ cacheCurrent' \in BOOLEAN
    BY <1>12, <1>a, <1>b DEF PreChecksFail, States, TypeOK
  <2> QED
    BY <1>12, <1>d, <2>1, ReturnType DEF TypeOK, PreChecksFail, ReturnError
<1>13. CASE PreChecksPass
  <2>1. csm.spec \in SpecType
    BY <1>a DEF CRType
  <2>2. RemovalPlan(DriverType, csm.spec) \in Seq(SyncStepType \cup RemovalStepType)
    BY <2>1, RemovalPlanCovers, SeqUnion
  <2>3. plan' \in Seq(SyncStepType \cup RemovalStepType)
    BY <1>13, <2>2 DEF PreChecksPass, TypeOK
  <2> QED
    BY <1>13, <1>d, <2>3 DEF TypeOK, PreChecksPass
<1>14. CASE AddFinalizer
  <2>1. api' \in CRType /\ csm' \in CRType
    BY <1>14, <1>a, UpdateType DEF AddFinalizer, UpdateCR
  <2> QED
    BY <1>14, <2>1 DEF TypeOK, AddFinalizer, UpdateCR
<1>15. CASE AnnotateAndStartSync
  <2>1. api' \in CRType /\ csm' \in CRType
    BY <1>15, <1>a, UpdateType DEF AnnotateAndStartSync, UpdateCR
  <2>2. csm.spec \in SpecType /\ csm.prev \in Seq(SpecType)
    BY <1>a DEF CRType
  <2>3. plan' \in Seq(SyncStepType \cup RemovalStepType)
    BY <1>15, <2>2, SyncPlanType, SeqUnion DEF AnnotateAndStartSync
  <2>4. requeue' \in BOOLEAN /\ csmCurrent' \in BOOLEAN /\ cacheCurrent' \in BOOLEAN
    BY <1>15 DEF AnnotateAndStartSync, UpdateCR, TypeOK
  <2> QED
    BY <1>15, <2>1, <2>3, <2>4 DEF TypeOK, AnnotateAndStartSync
<1>16. CASE UpdateFails
  <2>1. api' \in CRType /\ cacheCurrent' \in BOOLEAN /\ faults' \in Nat
    BY <1>16, <1>a, <1>d, UpdateType DEF UpdateFails, TypeOK
  <2> QED
    BY <1>16, <2>1, ReturnType DEF TypeOK, UpdateFails, ReturnError
<1>17. CASE CheckStep
  BY <1>17, NextStepType DEF TypeOK, CheckStep, AtStep
<1>18. CASE ApplyStep
  <2>1. plan # << >> /\ NextStep /\ Put(Head(plan).obj) /\ Rollout(Head(plan).obj)
    BY <1>18 DEF ApplyStep, AtStep
  <2>2. ready' \in BOOLEAN
    BY <2>1 DEF Rollout
  <2> QED
    BY <1>18, <2>1, <2>2, HeadOfPlan, ObjectType, NextStepType DEF TypeOK, ApplyStep
<1>19. CASE ApplyStale
  BY <1>19, ReturnType DEF TypeOK, ApplyStale, ReturnError
<1>20. CASE DeleteStep
  <2>1. plan # << >> /\ NextStep /\ (Drop(Head(plan).obj) \/ Pass(Head(plan).obj))
    BY <1>20 DEF DeleteStep, AtStep
  <2> QED
    BY <1>20, <2>1, HeadOfPlan, ObjectType, NextStepType DEF TypeOK, DeleteStep
<1>21. CASE FailureIgnored
  <2>1. plan # << >> /\ NextStep /\ (UNCHANGED objVars \/ Pass(Head(plan).obj)) /\ faults' \in Nat
    BY <1>21, <1>d DEF FailureIgnored, AtStep
  <2> QED
    BY <1>21, <2>1, HeadOfPlan, ObjectType, NextStepType DEF TypeOK, FailureIgnored
<1>22. CASE StepFails
  <2>1. /\ plan # << >> /\ Return /\ queued' = TRUE /\ faults' \in Nat
        /\ \/ UNCHANGED <<objVars, ready>>
           \/ Put(Head(plan).obj) /\ Rollout(Head(plan).obj)
           \/ Drop(Head(plan).obj) /\ UNCHANGED ready
    BY <1>22, <1>d DEF StepFails, AtStep, ReturnError
  <2>2. ready' \in BOOLEAN
    BY <2>1 DEF Rollout, TypeOK
  <2> QED
    BY <1>22, <2>1, <2>2, HeadOfPlan, ObjectType, ReturnType DEF TypeOK, StepFails
<1>23. CASE SaveStep
  <2>1. api' \in CRType /\ csm' \in CRType
    BY <1>23, <1>a, UpdateType DEF SaveStep, UpdateCR
  <2> QED
    BY <1>23, <2>1, HeadOfPlan DEF TypeOK, SaveStep, UpdateCR, AtStep
<1>24. CASE DisownStep
  <2>1. owner' \in [OwnedObjects -> Nat]
    BY <1>24 DEF DisownStep, TypeOK
  <2>2. faults' \in Nat
    BY <1>24, <1>d DEF DisownStep
  <2> QED
    BY <1>24, <2>1, <2>2, NextStepType DEF TypeOK, DisownStep, AtStep
<1>25. CASE ReleaseStep
  <2>1. api' \in CRType
    BY <1>25, <1>a, UpdateType DEF ReleaseStep
  <2> QED
    BY <1>25, <2>1, ReturnType DEF TypeOK, ReleaseStep
<1>26. CASE ReportNotRunning
  BY <1>26, ReturnType DEF TypeOK, ReportNotRunning, ReturnError
<1>27. CASE ReportStatus
  <2>1. api' \in CRType
    BY <1>27, <1>a, <1>b DEF ReportStatus, States
  <2>2. queued' \in BOOLEAN
    BY <1>27 DEF ReportStatus, TypeOK
  <2> QED
    BY <1>27, <2>1, <2>2, ReturnType DEF TypeOK, ReportStatus
<1>28. CASE ReportFails
  BY <1>28, <1>d, ReturnType DEF TypeOK, ReportFails, ReturnError
<1>29. CASE GarbageCollect
  <2>1. PICK o \in OwnedObjects \cap cluster :
          Drop(o) /\ ready' = (ready /\ o # "deployment")
          /\ UNCHANGED <<apiVars, workVars, valid, edits, faults>>
    BY <1>29 DEF GarbageCollect
  <2> QED
    BY <2>1, ObjectType DEF TypeOK
<1>30. CASE PodsReady
  BY <1>30 DEF TypeOK, PodsReady
<1>31. CASE Restart
  <2>1. queued' \in BOOLEAN
    BY <1>31, <1>a DEF Restart, CRType
  <2> QED
    BY <1>31, <1>d, <2>1, ReturnType DEF TypeOK, Restart
<1> QED
  BY <1>1, <1>2, <1>3, <1>4, <1>5, <1>6, <1>7, <1>8, <1>9, <1>10, <1>11, <1>12, <1>13, <1>14,
     <1>15, <1>16, <1>17, <1>18, <1>19, <1>20, <1>21, <1>22, <1>23, <1>24, <1>25, <1>26, <1>27,
     <1>28, <1>29, <1>30, <1>31 DEF Next, User, Worker, WorkerFailure

(***************************************************************************)
(* Where the worker is when it does which step.                            *)
(***************************************************************************)
\* Objects are applied, and the annotation is saved, only by a sync; the
\* finalizer is released, at the end of the plan, only by a removal.
LEMMA StepPlace ==
    ASSUME IInv, plan # << >>
    PROVE  /\ pc \in {"sync", "remove"}
           /\ pc = "sync" => /\ Head(plan) \in SyncStepType
                             /\ Tail(plan) \in Seq(SyncStepType)
                             /\ (Len(plan) = 1 => Tail(plan) = << >>)
           /\ AtStep({"apply", "create", "ssa", "save"}) => pc = "sync"
           /\ AtStep({"disown", "release"}) => pc = "remove"
           /\ pc = "remove" => (Head(plan).op = "release" <=> Len(plan) = 1)
<1>1. pc \in {"sync", "remove"}
  BY DEF IInv, ControlInv
<1>2. ASSUME pc = "sync"
      PROVE  /\ Head(plan) \in SyncStepType /\ Tail(plan) \in Seq(SyncStepType)
             /\ (Len(plan) = 1 => Tail(plan) = << >>)
  <2>1. plan \in Seq(SyncStepType)
    BY <1>2 DEF IInv, ControlInv
  <2>2. Tail(plan) \in Seq(SyncStepType) /\ Len(Tail(plan)) = Len(plan) - 1
        /\ Head(plan) \in SyncStepType
    BY <2>1, HeadTailProperties
  <2> QED
    BY <2>2, EmptySeq
<1>3. ASSUME pc = "remove"
      PROVE  /\ Head(plan) \in RemovalStepType
             /\ (Head(plan).op = "release" <=> Len(plan) = 1)
  <2>1. plan \in Seq(RemovalStepType) /\ \A i \in DOMAIN plan : plan[i].op = "release" <=> i = Len(plan)
    BY <1>3 DEF IInv, RemovalInv
  <2>2. 1 \in DOMAIN plan /\ Head(plan) = plan[1]
    BY <2>1
  <2> QED
    BY <2>1, <2>2, HeadTailProperties
<1> QED
  BY <1>1, <1>2, <1>3 DEF AtStep, SyncStepType, RemovalStepType

\* The rest of a removal plan is a removal plan, and it still deletes all
\* but at most the first step's object.
LEMMA RemovalTail ==
    ASSUME IInv, pc = "remove", Head(plan).op # "release"
    PROVE  /\ plan # << >> /\ plan[1] = Head(plan)
           /\ Tail(plan) \in Seq(RemovalStepType) /\ Tail(plan) # << >>
           /\ \A i \in DOMAIN Tail(plan) : Tail(plan)[i].op = "release" <=> i = Len(Tail(plan))
           /\ \A o \in ToDelete(plan) : \/ o \in ToDelete(Tail(plan))
                                        \/ o = Head(plan).obj /\ Head(plan).op \in {"delete", "get+delete"}
<1>1. /\ plan \in Seq(RemovalStepType) /\ plan # << >>
      /\ \A i \in DOMAIN plan : plan[i].op = "release" <=> i = Len(plan)
  BY DEF IInv, RemovalInv
<1>2. plan[1] = Head(plan) /\ Len(plan) # 1 /\ Len(plan) \in Nat \ {0}
  <2>1. 1 \in DOMAIN plan /\ Head(plan) = plan[1] /\ Len(plan) \in Nat \ {0}
    BY <1>1
  <2> QED
    BY <1>1, <2>1
<1>3. /\ Tail(plan) \in Seq(RemovalStepType) /\ Len(Tail(plan)) = Len(plan) - 1
      /\ \A i \in 1..Len(Tail(plan)) : Tail(plan)[i] = plan[i + 1]
  BY <1>1, HeadTailProperties
<1>4. Tail(plan) # << >>
  <2>1. Len(Tail(plan)) # 0
    BY <1>2, <1>3
  <2> QED
    BY <2>1, EmptySeq
<1>5. ASSUME NEW i \in DOMAIN Tail(plan)
      PROVE  Tail(plan)[i].op = "release" <=> i = Len(Tail(plan))
  <2>1. i \in 1..Len(Tail(plan)) /\ i + 1 \in DOMAIN plan
    BY <1>1, <1>2, <1>3, <1>5
  <2> QED
    BY <1>1, <1>2, <1>3, <2>1
<1> QED
  BY <1>1, <1>2, <1>3, <1>4, <1>5, ToDeleteTail

(***************************************************************************)
(* The worker's position and its copy of the CR.                           *)
(***************************************************************************)
\* ControlInv is preserved by every step.
LEMMA ControlStep ==
    ASSUME IInv, [Next]_vars
    PROVE  ControlInv'
<1> USE DEF apiVars, workVars, objVars, envVars
<1>a. TypeOK /\ ControlInv /\ csm \in CRType
  BY DEF IInv, TypeOK
<1>b. ASSUME Return PROVE ControlInv'
  BY <1>b DEF Return, ControlInv
<1>c. ASSUME UNCHANGED <<pc, csm, plan>>, csmCurrent' = csmCurrent \/ csmCurrent' = FALSE PROVE ControlInv'
  BY <1>a, <1>c DEF ControlInv
<1>d. ASSUME plan # << >>, NextStep PROVE ControlInv'
  <2>1. CASE pc = "sync"
    BY <1>a, <1>d, <2>1, StepPlace DEF NextStep, ControlInv
  <2>2. CASE pc = "remove"
    BY <1>a, <1>d, <2>2, StepPlace DEF NextStep, ControlInv
  <2> QED
    BY <1>d, <2>1, <2>2, StepPlace
<1>1. CASE UNCHANGED vars
  BY <1>1, <1>c DEF vars
<1>2. CASE User \/ CacheSync \/ ObjectCacheSync \/ GarbageCollect \/ PodsReady
  <2>1. CASE User
    BY <1>c, <2>1 DEF User, Create, EditSpec, Delete, ChangePrerequisites, WriteByOther
  <2>2. CASE CacheSync \/ ObjectCacheSync \/ GarbageCollect \/ PodsReady
    BY <1>c, <2>2 DEF CacheSync, ObjectCacheSync, GarbageCollect, PodsReady
  <2> QED
    BY <1>2, <2>1, <2>2
<1>3. CASE Restart
  BY <1>3, <1>b DEF Restart
<1>4. CASE GetCR
  BY <1>4, <1>a DEF GetCR, ControlInv
<1>5. CASE GetNotFound \/ GetError
  BY <1>5, <1>c DEF GetNotFound, GetError
<1>6. CASE LoadFails \/ PreChecksFail \/ UpdateFails \/ StepFails \/ ReportFails \/ ApplyStale
  BY <1>6, <1>b DEF LoadFails, PreChecksFail, UpdateFails, StepFails, ReportFails, ApplyStale,
     ReturnError
<1>7. CASE ReleaseStep \/ ReportNotRunning \/ ReportStatus
  BY <1>7, <1>b DEF ReleaseStep, ReportNotRunning, ReportStatus, ReturnError
<1>8. CASE PreChecksPass
  BY <1>8, <1>a DEF PreChecksPass, ControlInv
<1>9. CASE AddFinalizer
  <2>1. csm'.deleting = csm.deleting /\ csm'.fin = TRUE
    BY <1>9, <1>a DEF AddFinalizer, UpdateCR, CRType
  <2> QED
    BY <1>9, <1>a, <2>1 DEF AddFinalizer, ControlInv
<1>10. CASE AnnotateAndStartSync
  <2>1. csm'.deleting = csm.deleting /\ csm'.fin = csm.fin
    BY <1>10, <1>a DEF AnnotateAndStartSync, UpdateCR, CRType
  <2>2. plan' \in Seq(SyncStepType)
    <3>1. csm.spec \in SpecType /\ csm.prev \in Seq(SpecType)
      BY <1>a DEF CRType
    <3> QED
      BY <1>10, <3>1, SyncPlanType DEF AnnotateAndStartSync
  <2> QED
    BY <1>10, <1>a, <2>1, <2>2 DEF AnnotateAndStartSync, ControlInv
<1>11. CASE CheckStep \/ ApplyStep \/ DeleteStep \/ FailureIgnored \/ DisownStep
  BY <1>11, <1>d DEF CheckStep, ApplyStep, DeleteStep, FailureIgnored, DisownStep, AtStep
<1>12. CASE SaveStep
  <2>1. pc = "sync" /\ Tail(plan) \in Seq(SyncStepType)
    BY <1>12, StepPlace DEF SaveStep, AtStep
  <2>2. csm'.deleting = csm.deleting /\ csm'.fin = csm.fin
    BY <1>12, <1>a, <2>1 DEF SaveStep, UpdateCR, PendingUpdate, CRType
  <2> QED
    BY <1>12, <1>a, <2>1, <2>2 DEF SaveStep, ControlInv
<1> QED
  BY <1>1, <1>2, <1>3, <1>4, <1>5, <1>6, <1>7, <1>8, <1>9, <1>10, <1>11, <1>12
     DEF Next, Worker, WorkerFailure

(***************************************************************************)
(* The copies of the CR.                                                   *)
(***************************************************************************)
\* What an Update stores: uid, deletion mark and finalizer as written, and
\* the object stays unless it is marked and has no finalizer.
LEMMA StoredFields ==
    ASSUME NEW obj \in CRType
    PROVE  /\ Stored(obj).uid = obj.uid /\ Stored(obj).deleting = obj.deleting
           /\ Stored(obj).fin = obj.fin
           /\ Stored(obj).exists = (~obj.deleting \/ obj.fin)
BY DEF Stored, CRType

\* The worker's pending change leaves uid and deletion mark alone, and clears
\* the finalizer only in a removal.
LEMMA PendingFields ==
    ASSUME IInv, Updating
    PROVE  /\ PendingUpdate \in CRType /\ PendingUpdate.uid = csm.uid
           /\ PendingUpdate.deleting = csm.deleting
           /\ pc # "remove" => PendingUpdate.fin = TRUE /\ csm.deleting = FALSE
           /\ pc = "remove" => PendingUpdate.fin = FALSE /\ csm.deleting = TRUE
           /\ pc \in {"finalizer", "annotate", "sync", "remove"}
<1>1. csm \in CRType /\ api \in CRType
  BY DEF IInv, TypeOK
<1>2. pc \in {"finalizer", "annotate", "sync", "remove"}
  BY StepPlace DEF Updating
<1>3. PendingUpdate \in CRType
  BY <1>1, UpdateType
<1>4. csm.deleting \in BOOLEAN /\ csm.fin \in BOOLEAN
  BY <1>1 DEF CRType
<1>5. /\ pc # "remove" => csm.deleting = FALSE /\ (csm.fin = TRUE \/ pc = "finalizer")
      /\ pc = "remove" => csm.deleting = TRUE
  BY <1>2, <1>4 DEF IInv, ControlInv
<1>6. PendingUpdate.uid = csm.uid /\ PendingUpdate.deleting = csm.deleting
  BY <1>1, <1>2 DEF PendingUpdate, CRType
<1>7. PendingUpdate.fin = IF pc = "finalizer" THEN TRUE ELSE IF pc = "remove" THEN FALSE ELSE csm.fin
  BY <1>1, <1>2 DEF PendingUpdate, CRType
<1> QED
  BY <1>2, <1>3, <1>5, <1>6, <1>7

CopiesInv == StaleCopiesInv /\ FinalizerInv

\* An Update by the worker, with or without the answer, preserves the
\* relation between the API object, the cache and the worker's copy.
LEMMA UpdatePreservesCopies ==
    ASSUME IInv, Updating, CanUpdate, api' = Stored(PendingUpdate), cacheCurrent' = FALSE,
           cache' = cache,
           \/ pc' = "idle" /\ csmCurrent' = FALSE
           \/ /\ pc # "remove" /\ pc' # "idle" /\ csmCurrent' = TRUE
              /\ csm'.uid = csm.uid /\ csm'.deleting = csm.deleting /\ csm'.fin = TRUE
    PROVE  CopiesInv'
<1> DEFINE P == PendingUpdate
<1>0. csm \in CRType /\ api \in CRType /\ cache \in CRType
  BY DEF IInv, TypeOK
<1>1. /\ P \in CRType /\ P.uid = csm.uid /\ P.deleting = csm.deleting
      /\ pc # "remove" => P.fin = TRUE /\ csm.deleting = FALSE
      /\ pc = "remove" => P.fin = FALSE /\ csm.deleting = TRUE
      /\ pc # "idle"
  BY PendingFields
<1>2. /\ csm.uid = api.uid /\ csm.deleting = api.deleting /\ api.exists
  BY DEF IInv, StaleCopiesInv, CanUpdate
<1>3. /\ api'.uid = api.uid /\ api'.deleting = csm.deleting /\ api'.fin = P.fin
      /\ api'.exists = (~csm.deleting \/ P.fin)
  BY <1>1, <1>2, StoredFields
<1>4. StaleCopiesInv /\ FinalizerInv
  BY DEF IInv
<1> HIDE DEF P
<1>5. CASE pc = "remove"
  BY <1>1, <1>2, <1>3, <1>4, <1>5 DEF CopiesInv, StaleCopiesInv, FinalizerInv
<1>6. CASE pc # "remove"
  BY <1>1, <1>2, <1>3, <1>4, <1>6 DEF CopiesInv, StaleCopiesInv, FinalizerInv
<1> QED
  BY <1>5, <1>6

\* CopiesInv is preserved by every step.
LEMMA CopiesStep ==
    ASSUME IInv, [Next]_vars
    PROVE  CopiesInv'
<1> USE DEF apiVars, workVars, objVars, envVars
<1>a. CopiesInv /\ ControlInv /\ api \in CRType /\ cache \in CRType /\ csm \in CRType
  BY DEF IInv, TypeOK, CopiesInv
<1>b. ASSUME Return, UNCHANGED <<api, cache, cacheCurrent>> PROVE CopiesInv'
  BY <1>a, <1>b DEF Return, CopiesInv, StaleCopiesInv, FinalizerInv
<1>c. ASSUME UNCHANGED <<api, cache, cacheCurrent, pc, csm, csmCurrent>> PROVE CopiesInv'
  BY <1>a, <1>c DEF CopiesInv, StaleCopiesInv, FinalizerInv
<1>d. ASSUME plan # << >>, NextStep, UNCHANGED <<api, cache, cacheCurrent>> PROVE CopiesInv'
  <2>1. pc # "idle" /\ UNCHANGED <<csm, csmCurrent>>
    BY <1>d, StepPlace DEF NextStep
  <2> QED
    BY <1>a, <1>d, <2>1 DEF CopiesInv, StaleCopiesInv, FinalizerInv
\* A status write changes neither uid, deletion mark nor finalizer.
<1>e. ASSUME Return, cache' = cache, cacheCurrent' = FALSE,
             NEW st, api' = [api EXCEPT !.state = st]
      PROVE  CopiesInv'
  <2>1. /\ api'.uid = api.uid /\ api'.exists = api.exists /\ api'.deleting = api.deleting
        /\ api'.fin = api.fin
    BY <1>a, <1>e DEF CRType
  <2> QED
    BY <1>a, <1>e, <2>1 DEF Return, CopiesInv, StaleCopiesInv, FinalizerInv
<1>1. CASE UNCHANGED vars
  BY <1>1, <1>c DEF vars
<1>2. CASE Create
  <2>1. /\ api'.uid = api.uid + 1 /\ api'.deleting = FALSE /\ ~api.exists
        /\ csmCurrent' = FALSE /\ cacheCurrent' = FALSE
    <3>1. PICK s \in Specs : WriteByOther(NewCR(api.uid + 1, s))
      BY <1>2 DEF Create
    <3>2. ~api.exists
      BY <1>2 DEF Create
    <3> QED
      BY <3>1, <3>2 DEF WriteByOther, NewCR
  <2>2. api.uid \in Nat /\ cache.uid \in Nat /\ csm.uid \in Nat
    BY <1>a DEF CRType
  <2>3. UNCHANGED <<cache, pc, csm>>
    BY <1>2 DEF Create
  <2> QED
    BY <1>a, <2>1, <2>2, <2>3 DEF CopiesInv, StaleCopiesInv, FinalizerInv
<1>3. CASE EditSpec
  <2>1. /\ api'.uid = api.uid /\ api'.deleting = api.deleting /\ api'.exists = api.exists
        /\ api'.fin = api.fin /\ csmCurrent' = FALSE /\ cacheCurrent' = FALSE
    BY <1>3, <1>a DEF EditSpec, WriteByOther, CRType
  <2>2. UNCHANGED <<cache, pc, csm>>
    BY <1>3 DEF EditSpec
  <2> QED
    BY <1>a, <2>1, <2>2 DEF CopiesInv, StaleCopiesInv, FinalizerInv
<1>4. CASE Delete
  <2>1. /\ api'.uid = api.uid /\ api'.fin = api.fin
        /\ IF api.fin THEN api'.deleting = TRUE /\ api'.exists = api.exists
                      ELSE api'.deleting = api.deleting /\ api'.exists = FALSE
        /\ csmCurrent' = FALSE /\ cacheCurrent' = FALSE
    BY <1>4, <1>a DEF Delete, WriteByOther, CRType
  <2>2. UNCHANGED <<cache, pc, csm>>
    BY <1>4 DEF Delete
  <2> QED
    BY <1>a, <2>1, <2>2 DEF CopiesInv, StaleCopiesInv, FinalizerInv
<1>5. CASE ChangePrerequisites \/ ObjectCacheSync \/ GarbageCollect \/ PodsReady
  BY <1>5, <1>c DEF ChangePrerequisites, ObjectCacheSync, GarbageCollect, PodsReady
<1>6. CASE CacheSync
  <2>1. api.uid \in Nat /\ cache.uid \in Nat /\ csm.uid \in Nat
    BY <1>a DEF CRType
  <2> QED
    BY <1>6, <1>a, <2>1 DEF CacheSync, CopiesInv, StaleCopiesInv, FinalizerInv
<1>7. CASE Restart
  <2>1. api.uid \in Nat
    BY <1>a DEF CRType
  <2> QED
    BY <1>7, <1>a, <2>1 DEF Restart, Return, CopiesInv, StaleCopiesInv, FinalizerInv
<1>8. CASE GetCR
  <2>1. /\ csm'.uid = cache.uid /\ csm'.deleting = cache.deleting /\ csm'.fin = cache.fin
        /\ cache.exists /\ csmCurrent' = cacheCurrent
    BY <1>8, <1>a DEF GetCR, CRType
  <2>2. UNCHANGED <<api, cache, cacheCurrent>>
    BY <1>8 DEF GetCR
  <2>3. cache.uid \in Nat
    BY <1>a DEF CRType
  <2> QED
    BY <1>a, <2>1, <2>2, <2>3 DEF CopiesInv, StaleCopiesInv, FinalizerInv
<1>9. CASE GetNotFound \/ GetError
  BY <1>9, <1>c DEF GetNotFound, GetError
<1>10. CASE LoadFails \/ StepFails \/ ReportFails \/ ApplyStale \/ ReportNotRunning
  BY <1>10, <1>b DEF LoadFails, StepFails, ReportFails, ApplyStale, ReportNotRunning, ReturnError
<1>11. CASE PreChecksFail
  BY <1>11, <1>b, <1>e DEF PreChecksFail, ReturnError
<1>12. CASE ReportStatus
  BY <1>12, <1>e DEF ReportStatus
<1>13. CASE PreChecksPass
  <2>1. pc # "idle" /\ pc' # "idle" /\ UNCHANGED <<api, cache, cacheCurrent, csm, csmCurrent>>
    BY <1>13 DEF PreChecksPass
  <2> QED
    BY <1>a, <2>1 DEF CopiesInv, StaleCopiesInv, FinalizerInv
<1>14. CASE AddFinalizer
  <2>1. Updating /\ PendingUpdate = [csm EXCEPT !.fin = TRUE] /\ pc # "remove" /\ pc' # "idle"
    BY <1>14 DEF AddFinalizer, Updating, PendingUpdate
  <2>2. csm'.uid = csm.uid /\ csm'.deleting = csm.deleting /\ csm'.fin = TRUE
    BY <1>14, <1>a DEF AddFinalizer, UpdateCR, CRType
  <2> QED
    BY <1>14, <2>1, <2>2, UpdatePreservesCopies DEF AddFinalizer, UpdateCR
<1>15. CASE AnnotateAndStartSync
  <2>0. pc = "annotate" /\ pc' = "sync" /\ cache' = cache
    BY <1>15 DEF AnnotateAndStartSync
  <2>1. CASE csm.cfgv = csm.spec.ver
    <3>1. UNCHANGED <<api, csm, csmCurrent, cacheCurrent>>
      BY <1>15, <2>1 DEF AnnotateAndStartSync
    <3> QED
      BY <1>a, <2>0, <3>1 DEF CopiesInv, StaleCopiesInv, FinalizerInv
  <2>2. CASE csm.cfgv # csm.spec.ver
    <3>1. Updating /\ PendingUpdate = [csm EXCEPT !.cfgv = csm.spec.ver]
      BY <2>0, <2>2 DEF Updating, PendingUpdate
    <3>2. CanUpdate /\ UpdateCR([csm EXCEPT !.cfgv = csm.spec.ver])
      BY <1>15, <2>2 DEF AnnotateAndStartSync
    <3>3. csm'.uid = csm.uid /\ csm'.deleting = csm.deleting /\ csm'.fin = csm.fin
      BY <1>a, <3>2 DEF UpdateCR, CRType
    <3>4. csm.fin = TRUE
      BY <1>a, <2>0 DEF ControlInv, CRType
    <3> QED
      BY <2>0, <3>1, <3>2, <3>3, <3>4, UpdatePreservesCopies DEF UpdateCR
  <2> QED
    BY <2>1, <2>2
<1>16. CASE UpdateFails
  <2>1. Return /\ Updating /\ cache' = cache
    BY <1>16 DEF UpdateFails, ReturnError
  <2>2. CASE UNCHANGED <<api, cacheCurrent>>
    BY <1>b, <2>1, <2>2
  <2>3. CASE CanUpdate /\ api' = Stored(PendingUpdate) /\ cacheCurrent' = FALSE
    BY <2>1, <2>3, UpdatePreservesCopies DEF Return
  <2> QED
    BY <1>16, <2>2, <2>3 DEF UpdateFails
<1>17. CASE CheckStep \/ ApplyStep \/ DeleteStep \/ FailureIgnored \/ DisownStep
  BY <1>17, <1>d DEF CheckStep, ApplyStep, DeleteStep, FailureIgnored, DisownStep, AtStep
<1>18. CASE SaveStep
  <2>1. pc = "sync" /\ Updating /\ CanUpdate /\ pc' = pc /\ cache' = cache
    BY <1>18, StepPlace DEF SaveStep, AtStep, Updating
  <2>2. csm'.uid = csm.uid /\ csm'.deleting = csm.deleting /\ csm'.fin = csm.fin
    BY <1>18, <1>a, <2>1 DEF SaveStep, UpdateCR, PendingUpdate, CRType
  <2>3. csm.fin = TRUE
    BY <1>a, <2>1 DEF ControlInv, CRType
  <2> QED
    BY <1>18, <2>1, <2>2, <2>3, UpdatePreservesCopies DEF SaveStep, UpdateCR
<1>19. CASE ReleaseStep
  <2>1. Updating /\ CanUpdate /\ cache' = cache /\ api' = Stored(PendingUpdate) /\ Return
        /\ cacheCurrent' = FALSE
    BY <1>19 DEF ReleaseStep, Updating, AtStep
  <2> QED
    BY <2>1, UpdatePreservesCopies DEF Return
<1> QED
  BY <1>1, <1>2, <1>3, <1>4, <1>5, <1>6, <1>7, <1>8, <1>9, <1>10, <1>11, <1>12, <1>13, <1>14,
     <1>15, <1>16, <1>17, <1>18, <1>19 DEF Next, User, Worker, WorkerFailure

(***************************************************************************)
(* The objects.                                                            *)
(***************************************************************************)
\* Deleting an object, or passing over it, never adds to what is owed, and
\* takes the object itself off.
LEMMA OwedShrinks ==
    ASSUME NEW o, Drop(o) \/ Pass(o)
    PROVE  Owed' \subseteq Owed \ {o} /\ cluster' \subseteq cluster
<1>1. o \in Cascade(o)
  BY DEF Cascade
<1> QED
  BY <1>1 DEF Owed, Drop, Pass

\* An object is put only under a CR that exists and has the finalizer.
LEMMA PutUnderFinalizer ==
    ASSUME IInv, AtStep({"apply", "create", "ssa"})
    PROVE  /\ api.exists /\ api.fin /\ api.uid = csm.uid
           /\ pc = "sync" /\ Head(plan).obj \in SyncObjects
<1>1. plan # << >> /\ pc = "sync" /\ Head(plan) \in SyncStepType
  BY StepPlace DEF AtStep
<1>2. csm.fin /\ ~csm.deleting
  BY <1>1 DEF IInv, ControlInv
<1> QED
  BY <1>1, <1>2 DEF IInv, FinalizerInv, SyncStepType

\* What a removal plan promises.
PlanCovers ==
    /\ plan \in Seq(RemovalStepType) /\ plan # << >>
    /\ \A i \in DOMAIN plan : plan[i].op = "release" <=> i = Len(plan)
    /\ plan[1].op # "disown" => Owed \subseteq ToDelete(plan)

\* RemovalInv is preserved by every step.
LEMMA RemovalStep ==
    ASSUME IInv, [Next]_vars
    PROVE  RemovalInv'
<1> USE DEF apiVars, workVars, objVars, envVars
<1>a. RemovalInv /\ ControlInv /\ TypeOK
  BY DEF IInv
<1>b. RemovalInv <=> /\ DriverType = "cosi" => cluster \cap NodeObjects = {}
                     /\ pc = "remove" => PlanCovers
  BY DEF RemovalInv, PlanCovers, Owed
<1>c. RemovalInv' <=> /\ DriverType = "cosi" => cluster' \cap NodeObjects = {}
                      /\ pc' = "remove" => PlanCovers'
  BY DEF RemovalInv, PlanCovers, Owed
<1>d. ASSUME UNCHANGED cluster, pc' # "remove" PROVE RemovalInv'
  BY <1>a, <1>b, <1>c, <1>d
<1>e. ASSUME UNCHANGED <<pc, plan>>, cluster' \subseteq cluster, Owed' \subseteq Owed PROVE RemovalInv'
  BY <1>a, <1>b, <1>c, <1>e DEF PlanCovers
\* A step of the removal that deletes, or passes over, at least what it names.
<1>f. ASSUME plan # << >>, NextStep, cluster' \subseteq cluster, Owed' \subseteq Owed,
             Head(plan).op \notin {"release", "disown"},
             Head(plan).op \in {"delete", "get+delete"} => Head(plan).obj \notin Owed'
      PROVE  RemovalInv'
  <2>1. CASE pc # "remove"
    <3>1. pc' # "remove"
      BY <1>f, <2>1 DEF NextStep
    <3> QED
      BY <1>a, <1>b, <1>c, <1>f, <3>1
  <2>2. CASE pc = "remove"
    <3>1. /\ plan[1] = Head(plan)
          /\ Tail(plan) \in Seq(RemovalStepType) /\ Tail(plan) # << >>
          /\ \A i \in DOMAIN Tail(plan) : Tail(plan)[i].op = "release" <=> i = Len(Tail(plan))
          /\ \A o \in ToDelete(plan) : \/ o \in ToDelete(Tail(plan))
                                       \/ o = Head(plan).obj /\ Head(plan).op \in {"delete", "get+delete"}
      BY <1>f, <2>2, RemovalTail
    <3>2. plan' = Tail(plan)
      BY <1>f DEF NextStep
    <3>3. Owed \subseteq ToDelete(plan)
      BY <1>a, <1>b, <1>f, <2>2, <3>1 DEF PlanCovers
    <3>4. Owed' \subseteq ToDelete(Tail(plan))
      BY <1>f, <3>1, <3>3
    <3>5. PlanCovers'
      BY <3>1, <3>2, <3>4 DEF PlanCovers, ToDelete
    <3> QED
      BY <1>a, <1>b, <1>c, <1>f, <3>5
  <2> QED
    BY <2>1, <2>2
<1>g. ASSUME UNCHANGED objVars PROVE cluster' \subseteq cluster /\ Owed' \subseteq Owed
  BY <1>g DEF Owed
<1>1. CASE UNCHANGED vars
  BY <1>1, <1>e, <1>g DEF vars
<1>2. CASE User
  BY <1>2, <1>e, <1>g DEF User, Create, EditSpec, Delete, ChangePrerequisites
<1>3. CASE CacheSync \/ PodsReady
  BY <1>3, <1>e, <1>g DEF CacheSync, PodsReady
<1>4. CASE ObjectCacheSync
  BY <1>4, <1>e DEF ObjectCacheSync, Owed
<1>5. CASE GarbageCollect
  <2>1. PICK o \in OwnedObjects \cap cluster : Drop(o) /\ UNCHANGED <<pc, plan>>
    BY <1>5 DEF GarbageCollect
  <2> QED
    BY <1>e, <2>1, OwedShrinks
<1>6. CASE Restart
  BY <1>6, <1>d DEF Restart, Return
<1>7. CASE GetCR \/ GetNotFound \/ GetError
  BY <1>7, <1>d DEF GetCR, GetNotFound, GetError
<1>8. CASE LoadFails \/ PreChecksFail \/ UpdateFails \/ ReportFails \/ ApplyStale
  BY <1>8, <1>d DEF LoadFails, PreChecksFail, UpdateFails, ReportFails, ApplyStale, ReturnError, Return
<1>9. CASE ReleaseStep \/ ReportNotRunning \/ ReportStatus
  BY <1>9, <1>d DEF ReleaseStep, ReportNotRunning, ReportStatus, ReturnError, Return
<1>10. CASE AddFinalizer \/ AnnotateAndStartSync
  BY <1>10, <1>d DEF AddFinalizer, AnnotateAndStartSync
<1>11. CASE PreChecksPass
  <2>1. CASE ~csm.deleting
    BY <1>11, <1>d, <2>1 DEF PreChecksPass
  <2>2. CASE csm.deleting
    <3>1. /\ plan' = RemovalPlan(DriverType, csm.spec) /\ cluster' = cluster
          /\ abandoned \subseteq abandoned'
      BY <1>11, <2>2 DEF PreChecksPass
    <3>2. csm.spec \in SpecType
      BY <1>a DEF TypeOK, CRType
    <3>3. DriverType = "cosi" => cluster \cap NodeObjects = {}
      BY <1>a, <1>b
    <3>4. Owed' \subseteq DriverObjects \ (IF DriverType = "cosi" THEN NodeObjects ELSE {})
      BY <3>1, <3>3 DEF Owed
    <3>5. PlanCovers'
      BY <3>1, <3>2, <3>4, RemovalPlanCovers DEF PlanCovers
    <3> QED
      BY <1>c, <3>1, <3>3, <3>5
  <2> QED
    BY <2>1, <2>2
<1>12. CASE CheckStep
  BY <1>12, <1>f, <1>g DEF CheckStep, AtStep
<1>13. CASE ApplyStep
  <2>1. AtStep({"apply", "create", "ssa"}) /\ NextStep /\ Put(Head(plan).obj)
    BY <1>13 DEF ApplyStep
  <2>2. pc = "sync" /\ Head(plan).obj \in SyncObjects
    BY <2>1, PutUnderFinalizer
  <2>3. pc' # "remove" /\ cluster' = cluster \cup {Head(plan).obj}
    BY <2>1, <2>2 DEF NextStep, Put
  <2> QED
    BY <1>a, <1>b, <1>c, <2>2, <2>3 DEF SyncObjects
<1>14. CASE DeleteStep
  <2>1. /\ plan # << >> /\ NextStep /\ Head(plan).op \in {"delete", "get+delete", "warn"}
        /\ Drop(Head(plan).obj) \/ Pass(Head(plan).obj)
    BY <1>14 DEF DeleteStep, AtStep
  <2>2. Owed' \subseteq Owed \ {Head(plan).obj} /\ cluster' \subseteq cluster
    BY <2>1, OwedShrinks
  <2> QED
    BY <1>f, <2>1, <2>2
<1>15. CASE FailureIgnored
  <2>1. /\ plan # << >> /\ NextStep /\ Head(plan).op \in {"get+delete", "warn", "create"}
        /\ IF Head(plan).op = "create" THEN UNCHANGED objVars ELSE Pass(Head(plan).obj)
    BY <1>15 DEF FailureIgnored, AtStep
  <2>2. CASE Head(plan).op = "create"
    BY <1>f, <1>g, <2>1, <2>2
  <2>3. CASE Head(plan).op # "create"
    <3>1. Owed' \subseteq Owed \ {Head(plan).obj} /\ cluster' \subseteq cluster
      BY <2>1, <2>3, OwedShrinks
    <3> QED
      BY <1>f, <2>1, <3>1
  <2> QED
    BY <2>2, <2>3
<1>16. CASE StepFails
  <2>1. pc' # "remove"
    BY <1>16 DEF StepFails, ReturnError, Return
  <2>2. CASE UNCHANGED cluster
    BY <1>d, <2>1, <2>2
  <2>3. CASE AtStep({"apply", "create", "ssa"}) /\ Put(Head(plan).obj)
    BY <1>a, <1>b, <1>c, <2>1, <2>3, PutUnderFinalizer DEF Put, SyncObjects
  <2>4. CASE Drop(Head(plan).obj)
    BY <1>a, <1>b, <1>c, <2>1, <2>4, OwedShrinks
  <2> QED
    BY <1>16, <2>2, <2>3, <2>4 DEF StepFails
<1>17. CASE SaveStep
  <2>1. pc' # "remove" /\ UNCHANGED cluster
    BY <1>17, StepPlace DEF SaveStep, AtStep
  <2> QED
    BY <1>d, <2>1
<1>18. CASE DisownStep
  <2>1. plan # << >> /\ Head(plan).op = "disown" /\ pc = "remove"
    BY <1>18, StepPlace DEF DisownStep, AtStep
  <2>2. plan' = Tail(plan) /\ cluster' = cluster /\ Owed' = {}
    BY <1>18 DEF DisownStep, NextStep, Owed
  <2>3. PlanCovers'
    BY <2>1, <2>2, RemovalTail DEF PlanCovers
  <2> QED
    BY <1>a, <1>b, <1>c, <2>2, <2>3
<1> QED
  BY <1>1, <1>2, <1>3, <1>4, <1>5, <1>6, <1>7, <1>8, <1>9, <1>10, <1>11, <1>12, <1>13, <1>14,
     <1>15, <1>16, <1>17, <1>18 DEF Next, Worker, WorkerFailure

\* When a removal is about to release the finalizer nothing is owed any more.
LEMMA ReleaseOwesNothing ==
    ASSUME IInv, Updating, pc = "remove"
    PROVE  Owed = {}
<1>1. plan # << >> /\ Head(plan).op \in {"save", "release"}
  BY DEF Updating
<1>2. Head(plan).op = "release" /\ Len(plan) = 1 /\ plan \in Seq(RemovalStepType)
  BY <1>1, StepPlace DEF IInv, RemovalInv, AtStep
<1>3. plan[1].op = "release" /\ DOMAIN plan = {1}
  BY <1>1, <1>2
<1>4. ToDelete(plan) = {}
  BY <1>3 DEF ToDelete
<1> QED
  BY <1>3, <1>4 DEF IInv, RemovalInv

\* ObjectsUnderFinalizer is preserved by every step.
LEMMA ProtectedStep ==
    ASSUME IInv, [Next]_vars
    PROVE  ObjectsUnderFinalizer'
<1> USE DEF apiVars, workVars, objVars, envVars
<1>a. /\ TypeOK /\ ControlInv /\ api \in CRType
      /\ Owed # {} => api.exists /\ api.fin
  BY DEF IInv, TypeOK, ObjectsUnderFinalizer, Owed
<1>b. ObjectsUnderFinalizer' <=> (Owed' # {} => api'.exists /\ api'.fin)
  BY DEF ObjectsUnderFinalizer, Owed
<1>c. ASSUME Owed' \subseteq Owed, api'.exists = api.exists, api'.fin = api.fin
      PROVE  ObjectsUnderFinalizer'
  BY <1>a, <1>b, <1>c
<1>d. ASSUME UNCHANGED <<api, cluster, abandoned>> PROVE ObjectsUnderFinalizer'
  BY <1>c, <1>d DEF Owed
<1>e. ASSUME UNCHANGED <<cluster, abandoned>>, NEW st, api' = [api EXCEPT !.state = st]
      PROVE  ObjectsUnderFinalizer'
  <2>1. api'.exists = api.exists /\ api'.fin = api.fin
    BY <1>a, <1>e DEF CRType
  <2> QED
    BY <1>c, <1>e, <2>1 DEF Owed
<1>f. ASSUME UNCHANGED <<cluster, abandoned>>, Updating, CanUpdate, api' = Stored(PendingUpdate)
      PROVE  ObjectsUnderFinalizer'
  <2>1. /\ PendingUpdate \in CRType /\ PendingUpdate.deleting = csm.deleting
        /\ pc # "remove" => PendingUpdate.fin = TRUE
        /\ pc \in {"finalizer", "annotate", "sync", "remove"}
    BY <1>f, PendingFields
  <2>2. CASE pc # "remove"
    BY <1>b, <1>f, <2>1, <2>2, StoredFields
  <2>3. CASE pc = "remove"
    BY <1>b, <1>f, <2>3, ReleaseOwesNothing DEF Owed
  <2> QED
    BY <2>2, <2>3
<1>g. ASSUME AtStep({"apply", "create", "ssa"}), UNCHANGED api PROVE ObjectsUnderFinalizer'
  BY <1>b, <1>g, PutUnderFinalizer
<1>1. CASE UNCHANGED vars
  BY <1>1, <1>d DEF vars
<1>2. CASE Create
  <2>1. ~api.exists /\ UNCHANGED <<cluster, abandoned>>
    BY <1>2 DEF Create
  <2> QED
    BY <1>a, <1>b, <2>1 DEF Owed
<1>3. CASE EditSpec
  <2>1. api'.exists = api.exists /\ api'.fin = api.fin /\ UNCHANGED <<cluster, abandoned>>
    BY <1>3, <1>a DEF EditSpec, WriteByOther, CRType
  <2> QED
    BY <1>c, <2>1 DEF Owed
<1>4. CASE Delete
  <2>1. /\ api'.fin = api.fin /\ UNCHANGED <<cluster, abandoned>>
        /\ api.fin => api'.exists = api.exists
    BY <1>4, <1>a DEF Delete, WriteByOther, CRType
  <2> QED
    BY <1>a, <1>b, <2>1 DEF Owed
<1>5. CASE ChangePrerequisites \/ CacheSync \/ ObjectCacheSync \/ PodsReady \/ Restart
  BY <1>5, <1>d DEF ChangePrerequisites, CacheSync, ObjectCacheSync, PodsReady, Restart
<1>6. CASE GarbageCollect
  <2>1. PICK o \in OwnedObjects \cap cluster : Drop(o) /\ UNCHANGED api
    BY <1>6 DEF GarbageCollect
  <2> QED
    BY <1>c, <2>1, OwedShrinks
<1>7. CASE GetCR \/ GetNotFound \/ GetError \/ LoadFails \/ ApplyStale \/ CheckStep
  BY <1>7, <1>d DEF GetCR, GetNotFound, GetError, LoadFails, ApplyStale, CheckStep
<1>8. CASE ReportNotRunning \/ ReportFails
  BY <1>8, <1>d DEF ReportNotRunning, ReportFails
<1>9. CASE PreChecksFail \/ ReportStatus
  BY <1>9, <1>d, <1>e DEF PreChecksFail, ReportStatus
<1>10. CASE PreChecksPass
  <2>1. UNCHANGED <<api, cluster>> /\ abandoned \subseteq abandoned'
    BY <1>10 DEF PreChecksPass
  <2> QED
    BY <1>c, <2>1 DEF Owed
<1>11. CASE AddFinalizer
  <2>1. Updating /\ CanUpdate /\ api' = Stored(PendingUpdate) /\ UNCHANGED <<cluster, abandoned>>
    BY <1>11 DEF AddFinalizer, Updating, UpdateCR, PendingUpdate
  <2> QED
    BY <1>f, <2>1
<1>12. CASE AnnotateAndStartSync
  <2>1. pc = "annotate" /\ UNCHANGED <<cluster, abandoned>>
    BY <1>12 DEF AnnotateAndStartSync
  <2>2. CASE csm.cfgv = csm.spec.ver
    BY <1>12, <1>d, <2>1, <2>2 DEF AnnotateAndStartSync
  <2>3. CASE csm.cfgv # csm.spec.ver
    <3>1. Updating /\ CanUpdate /\ api' = Stored(PendingUpdate)
      BY <1>12, <2>1, <2>3 DEF AnnotateAndStartSync, Updating, UpdateCR, PendingUpdate
    <3> QED
      BY <1>f, <2>1, <3>1
  <2> QED
    BY <2>2, <2>3
<1>13. CASE UpdateFails
  BY <1>13, <1>d, <1>f DEF UpdateFails
<1>14. CASE ApplyStep
  BY <1>14, <1>g DEF ApplyStep
<1>15. CASE DeleteStep
  <2>1. (Drop(Head(plan).obj) \/ Pass(Head(plan).obj)) /\ UNCHANGED api
    BY <1>15 DEF DeleteStep
  <2> QED
    BY <1>c, <2>1, OwedShrinks
<1>16. CASE FailureIgnored
  <2>1. (UNCHANGED objVars \/ Pass(Head(plan).obj)) /\ UNCHANGED api
    BY <1>16 DEF FailureIgnored
  <2> QED
    BY <1>c, <1>d, <2>1, OwedShrinks
<1>17. CASE StepFails
  <2>1. /\ UNCHANGED api
        /\ \/ UNCHANGED objVars
           \/ AtStep({"apply", "create", "ssa"})
           \/ Drop(Head(plan).obj)
    BY <1>17 DEF StepFails
  <2> QED
    BY <1>c, <1>d, <1>g, <2>1, OwedShrinks
<1>18. CASE SaveStep
  <2>1. Updating /\ CanUpdate /\ api' = Stored(PendingUpdate) /\ UNCHANGED <<cluster, abandoned>>
    BY <1>18 DEF SaveStep, Updating, UpdateCR, AtStep
  <2> QED
    BY <1>f, <2>1
<1>19. CASE ReleaseStep
  <2>1. Updating /\ CanUpdate /\ api' = Stored(PendingUpdate) /\ UNCHANGED <<cluster, abandoned>>
    BY <1>19 DEF ReleaseStep, Updating, AtStep
  <2> QED
    BY <1>f, <2>1
<1>20. CASE DisownStep
  <2>1. Owed' = {}
    BY <1>20 DEF DisownStep, Owed
  <2> QED
    BY <1>b, <2>1
<1> QED
  BY <1>1, <1>2, <1>3, <1>4, <1>5, <1>6, <1>7, <1>8, <1>9, <1>10, <1>11, <1>12, <1>13, <1>14,
     <1>15, <1>16, <1>17, <1>18, <1>19, <1>20 DEF Next, User, Worker, WorkerFailure

(***************************************************************************)
(* The theorems.                                                           *)
(***************************************************************************)
\* IInv holds initially: there is no CR, no object and no work.
LEMMA InitIInv == Init => IInv
<1> SUFFICES ASSUME Init PROVE IInv
  OBVIOUS
<1> USE DEF Init
<1>1. NoCR \in CRType /\ NoCR.uid = 0 /\ NoCR.exists = FALSE /\ NoCR.deleting = FALSE
      /\ NoCR.fin = FALSE
  BY NewCRType DEF NoCR, NewCR
<1>2. TypeOK
  <2>1. << >> \in Seq(SyncStepType \cup RemovalStepType)
    BY EmptySeq
  <2> QED
    BY <1>1, <2>1 DEF TypeOK
<1>3. ControlInv /\ StaleCopiesInv /\ FinalizerInv
  BY <1>1 DEF ControlInv, StaleCopiesInv, FinalizerInv
<1>4. RemovalInv /\ ObjectsUnderFinalizer
  BY DEF RemovalInv, ObjectsUnderFinalizer, Owed
<1> QED
  BY <1>2, <1>3, <1>4 DEF IInv

\* IInv is inductive.
LEMMA NextIInv == IInv /\ [Next]_vars => IInv'
<1> SUFFICES ASSUME IInv, [Next]_vars PROVE IInv'
  OBVIOUS
<1>1. TypeOK'
  BY TypeStep DEF IInv
<1> QED
  BY <1>1, ControlStep, CopiesStep, RemovalStep, ProtectedStep DEF IInv, CopiesInv

\* The inductive invariant holds in every reachable state: finalizer, caches,
\* the worker's copy of the CR and its removal plan always agree.
THEOREM Invariance == Spec => []IInv
BY InitIInv, NextIInv, PTL DEF Spec

\* CSMReconciler is type correct.
THEOREM TypeCorrect == Spec => []TypeOK
<1>1. IInv => TypeOK
  BY DEF IInv
<1> QED
  BY <1>1, Invariance, PTL

\* Every object applied for the CR that a removal has not passed over is
\* protected by the finalizer: Reconcile adds it before the first apply and
\* removes it only after the last delete, across edits, failed calls, lost
\* answers, stale caches and restarts.
THEOREM Protected == Spec => []ObjectsUnderFinalizer
<1>1. IInv => ObjectsUnderFinalizer
  BY DEF IInv
<1> QED
  BY <1>1, Invariance, PTL

\* A step that adds an object to the cluster is taken by a worker whose CR
\* still exists with its finalizer, however stale the worker's copy is.
LEMMA CreateStep ==
    ASSUME IInv, [Next]_vars, cluster' \ cluster # {}
    PROVE  api.exists /\ api.fin /\ csm.uid = api.uid
<1> USE DEF apiVars, workVars, objVars, envVars
<1>a. ASSUME UNCHANGED cluster PROVE FALSE
  BY <1>a
<1>b. ASSUME NEW o, Drop(o) \/ Pass(o) PROVE FALSE
  BY <1>b, OwedShrinks
<1>c. ASSUME AtStep({"apply", "create", "ssa"}) PROVE api.exists /\ api.fin /\ csm.uid = api.uid
  BY <1>c, PutUnderFinalizer
<1>1. CASE UNCHANGED vars \/ User \/ CacheSync \/ ObjectCacheSync \/ PodsReady \/ Restart
  BY <1>1, <1>a DEF vars, User, Create, EditSpec, Delete, ChangePrerequisites, CacheSync,
     ObjectCacheSync, PodsReady, Restart
<1>2. CASE GarbageCollect
  BY <1>2, <1>b DEF GarbageCollect
<1>3. CASE GetCR \/ GetNotFound \/ PreChecksPass \/ AddFinalizer \/ AnnotateAndStartSync \/ CheckStep
  BY <1>3, <1>a DEF GetCR, GetNotFound, PreChecksPass, AddFinalizer, AnnotateAndStartSync, CheckStep
<1>4. CASE ApplyStep
  BY <1>4, <1>c DEF ApplyStep
<1>5. CASE ApplyStale \/ SaveStep \/ DisownStep \/ ReleaseStep \/ ReportNotRunning \/ ReportStatus
  BY <1>5, <1>a DEF ApplyStale, SaveStep, DisownStep, ReleaseStep, ReportNotRunning, ReportStatus
<1>6. CASE DeleteStep
  BY <1>6, <1>b DEF DeleteStep
<1>7. CASE GetError \/ LoadFails \/ PreChecksFail \/ UpdateFails \/ ReportFails
  BY <1>7, <1>a DEF GetError, LoadFails, PreChecksFail, UpdateFails, ReportFails
<1>8. CASE FailureIgnored
  BY <1>8, <1>a, <1>b DEF FailureIgnored
<1>9. CASE StepFails
  BY <1>9, <1>a, <1>b, <1>c DEF StepFails
<1> QED
  BY <1>1, <1>2, <1>3, <1>4, <1>5, <1>6, <1>7, <1>8, <1>9 DEF Next, Worker, WorkerFailure

\* Nothing is created for a CR whose finalizer is gone.
THEOREM NoCreationWithoutFinalizer == Spec => CreatesOnlyUnderFinalizer
<1>1. IInv /\ [Next]_vars =>
        [cluster' \ cluster # {} => api.exists /\ api.fin /\ csm.uid = api.uid]_vars
  BY CreateStep
<1> QED
  BY <1>1, Invariance, PTL DEF Spec, CreatesOnlyUnderFinalizer

(***************************************************************************)
(* The order of SyncCSM's steps around the one that saves the annotation.  *)
(***************************************************************************)
\* Steps that come before the save leave a plan that saves ahead as it is.
LEMMA SavePrefix ==
    ASSUME NEW s, NEW a \in Seq(BeforeSave), NEW p \in Seq(SyncStepType), SavesAhead(p, s)
    PROVE  SavesAhead(a \o p, s)
<1>1. PICK k \in DOMAIN p : /\ p[k].op = "save"
                            /\ \A i \in 1..(k - 1) : p[i] \in BeforeSave
                            /\ \A i \in (k + 1)..Len(p) : p[i] \in AfterSave(s)
  BY DEF SavesAhead
<1> DEFINE q == a \o p
           n == Len(a)
<1>2. a \in Seq(SyncStepType)
  <2>1. a \in [1..Len(a) -> SyncStepType] /\ Len(a) \in Nat
    BY DEF BeforeSave
  <2> QED
    BY <2>1
<1>3. /\ n \in Nat /\ Len(p) \in Nat /\ Len(q) = n + Len(p) /\ q \in Seq(SyncStepType)
      /\ \A i \in 1..n : q[i] = a[i] /\ a[i] \in BeforeSave
      /\ \A i \in 1..Len(p) : q[n + i] = p[i]
      /\ k \in 1..Len(p)
  BY <1>1, <1>2
<1> HIDE DEF q, n
<1> DEFINE j == n + k
<1>4. j \in DOMAIN q /\ q[j].op = "save"
  BY <1>1, <1>3
<1>5. ASSUME NEW i \in 1..(j - 1) PROVE q[i] \in BeforeSave
  <2>1. CASE i <= n
    <3>1. i \in 1..n
      BY <1>3, <2>1
    <3> QED
      BY <1>3, <3>1
  <2>2. CASE i > n
    <3>1. i - n \in 1..(k - 1) /\ n + (i - n) = i /\ i - n \in 1..Len(p)
      BY <1>3, <2>2
    <3> QED
      BY <1>1, <1>3, <3>1
  <2> QED
    BY <1>3, <2>1, <2>2
<1>6. ASSUME NEW i \in (j + 1)..Len(q) PROVE q[i] \in AfterSave(s)
  <2>1. i - n \in (k + 1)..Len(p) /\ n + (i - n) = i /\ i - n \in 1..Len(p)
    BY <1>3
  <2> QED
    BY <1>1, <1>3, <2>1
<1> HIDE DEF j
<1>7. SavesAhead(q, s)
  BY <1>4, <1>5, <1>6 DEF SavesAhead
<1> QED
  BY <1>7 DEF q

\* So do steps that come after it.
LEMMA SaveSuffix ==
    ASSUME NEW s, NEW p \in Seq(SyncStepType), SavesAhead(p, s), NEW b \in Seq(AfterSave(s))
    PROVE  SavesAhead(p \o b, s) /\ p \o b \in Seq(SyncStepType)
<1>1. PICK k \in DOMAIN p : /\ p[k].op = "save"
                            /\ \A i \in 1..(k - 1) : p[i] \in BeforeSave
                            /\ \A i \in (k + 1)..Len(p) : p[i] \in AfterSave(s)
  BY DEF SavesAhead
<1> DEFINE q == p \o b
<1>2. b \in Seq(SyncStepType)
  <2>1. b \in [1..Len(b) -> SyncStepType] /\ Len(b) \in Nat
    BY DEF AfterSave
  <2> QED
    BY <2>1
<1>3. /\ Len(b) \in Nat /\ Len(p) \in Nat /\ Len(q) = Len(p) + Len(b) /\ q \in Seq(SyncStepType)
      /\ \A i \in 1..Len(p) : q[i] = p[i]
      /\ \A i \in 1..Len(b) : q[Len(p) + i] = b[i] /\ b[i] \in AfterSave(s)
      /\ k \in 1..Len(p)
  BY <1>1, <1>2
<1> HIDE DEF q
<1>4. k \in DOMAIN q /\ q[k].op = "save" /\ \A i \in 1..(k - 1) : q[i] \in BeforeSave
  <2>1. k \in DOMAIN q /\ q[k] = p[k]
    BY <1>3
  <2>2. ASSUME NEW i \in 1..(k - 1) PROVE q[i] \in BeforeSave
    <3>1. i \in 1..Len(p)
      BY <1>3
    <3>2. q[i] = p[i]
      BY <1>3, <3>1
    <3> QED
      BY <1>1, <3>2
  <2>3. q[k].op = "save"
    BY <1>1, <2>1
  <2> QED
    BY <2>1, <2>2, <2>3
<1>5. ASSUME NEW i \in (k + 1)..Len(q) PROVE q[i] \in AfterSave(s)
  <2>1. CASE i <= Len(p)
    BY <1>1, <1>3, <2>1
  <2>2. CASE i > Len(p)
    <3>1. i - Len(p) \in 1..Len(b) /\ Len(p) + (i - Len(p)) = i
      BY <1>3, <2>2
    <3> QED
      BY <1>3, <3>1
  <2> QED
    BY <1>3, <2>1, <2>2
<1> QED
  BY <1>3, <1>4, <1>5 DEF SavesAhead, q

\* When the save is the next step, nothing is left that removes a controller
\* and what follows comes after the save; otherwise the save is still ahead.
LEMMA SaveTail ==
    ASSUME NEW s, NEW p \in Seq(SyncStepType), SavesAhead(p, s)
    PROVE  /\ p # << >>
           /\ Head(p).op = "save" => /\ Tail(p) \in Seq(AfterSave(s))
                                     /\ \A o \in Controllers : ~Removes(p, o)
           /\ Head(p).op # "save" => Head(p) \in BeforeSave /\ SavesAhead(Tail(p), s)
<1>1. PICK k \in DOMAIN p : /\ p[k].op = "save"
                            /\ \A i \in 1..(k - 1) : p[i] \in BeforeSave
                            /\ \A i \in (k + 1)..Len(p) : p[i] \in AfterSave(s)
  BY DEF SavesAhead
<1> DEFINE q == Tail(p)
<1>2. /\ p # << >> /\ Len(p) \in Nat \ {0} /\ k \in 1..Len(p) /\ Head(p) = p[1]
  BY <1>1
<1>3. /\ q \in Seq(SyncStepType) /\ Len(q) = Len(p) - 1
      /\ \A i \in 1..Len(q) : q[i] = p[i + 1]
  BY <1>2, HeadTailProperties
<1> HIDE DEF q
<1>4. CASE k = 1
  <2>1. \A i \in 1..Len(q) : q[i] \in AfterSave(s)
    <3> TAKE i \in 1..Len(q)
    <3>1. i + 1 \in (k + 1)..Len(p)
      BY <1>2, <1>3, <1>4
    <3> QED
      BY <1>1, <1>3, <3>1
  <2>2. q \in [1..Len(q) -> AfterSave(s)] /\ Len(q) \in Nat
    BY <1>2, <1>3, <2>1
  <2>3. q \in Seq(AfterSave(s))
    BY <2>2
  <2>4. ASSUME NEW o \in Controllers, Removes(p, o) PROVE FALSE
    <3>1. PICK i \in DOMAIN p : p[i].op = "delete" /\ p[i].obj = o
      BY <2>4 DEF Removes
    <3>2. i # 1 /\ i \in (k + 1)..Len(p)
      BY <1>1, <1>2, <1>4, <3>1
    <3> QED
      BY <1>1, <3>1, <3>2 DEF AfterSave
  <2> QED
    BY <1>1, <1>2, <1>4, <2>3, <2>4 DEF q
<1>5. CASE k # 1
  <2>1. 1 \in 1..(k - 1) /\ p[1] \in BeforeSave
    BY <1>1, <1>2, <1>5
  <2>2. k - 1 \in DOMAIN q /\ q[k - 1].op = "save"
    BY <1>1, <1>2, <1>3, <1>5
  <2>3. ASSUME NEW i \in 1..((k - 1) - 1) PROVE q[i] \in BeforeSave
    <3>1. i + 1 \in 1..(k - 1) /\ i \in 1..Len(q)
      BY <1>2, <1>3
    <3> QED
      BY <1>1, <1>3, <3>1
  <2>4. ASSUME NEW i \in ((k - 1) + 1)..Len(q) PROVE q[i] \in AfterSave(s)
    <3>1. i + 1 \in (k + 1)..Len(p) /\ i \in 1..Len(q)
      BY <1>2, <1>3
    <3> QED
      BY <1>1, <1>3, <3>1
  <2>5. SavesAhead(q, s)
    BY <2>2, <2>3, <2>4 DEF SavesAhead
  <2>6. \A st \in BeforeSave : st.op # "save"
    BY DEF BeforeSave
  <2> QED
    BY <1>2, <2>1, <2>5, <2>6 DEF q
<1> QED
  BY <1>4, <1>5

\* Whatever a part of a plan removes, the whole removes.
LEMMA RemovesConcat ==
    ASSUME NEW S, NEW a \in Seq(S), NEW b \in Seq(S), NEW o
    PROVE  Removes(a, o) \/ Removes(b, o) => Removes(a \o b, o)
<1>1. ASSUME NEW i \in DOMAIN a PROVE i \in DOMAIN (a \o b) /\ (a \o b)[i] = a[i]
  OBVIOUS
<1>2. ASSUME NEW i \in DOMAIN b
      PROVE  i + Len(a) \in DOMAIN (a \o b) /\ (a \o b)[i + Len(a)] = b[i]
  OBVIOUS
<1> QED
  BY <1>1, <1>2 DEF Removes

\* What a plan removes is removed by its first step or by the rest.
LEMMA RemovesTail ==
    ASSUME NEW S, NEW p \in Seq(S), p # << >>, NEW o, Removes(p, o)
    PROVE  Removes(Tail(p), o) \/ (Head(p).op = "delete" /\ Head(p).obj = o)
<1>1. PICK i \in DOMAIN p : p[i].op = "delete" /\ p[i].obj = o
  BY DEF Removes
<1>2. CASE i = 1
  BY <1>1, <1>2
<1>3. CASE i # 1
  <2>1. i - 1 \in DOMAIN Tail(p) /\ Tail(p)[i - 1] = p[i]
    BY <1>3
  <2> QED
    BY <1>1, <2>1 DEF Removes
<1> QED
  BY <1>2, <1>3

(***************************************************************************)
(* The plans.                                                              *)
(***************************************************************************)
\* SyncCSM saves the annotation once, before it applies the controller of a
\* module, and before that it removes the controllers of dropped modules.
LEMMA SyncPlanSavesAhead ==
    ASSUME NEW s \in SpecType, NEW prev \in Seq(SpecType)
    PROVE  /\ SavesAhead(SyncPlan(DriverType, prev, s), s)
           /\ \A o \in Controllers :
                 Dropped(prev, s, ModuleOf(o)) => Removes(SyncPlan(DriverType, prev, s), o)
<1> DEFINE t == DriverType
           Q == Seq(SyncStepType)
           A == Seq(AfterSave(s))
           B == Seq(BeforeSave)
           v == <<Step("check", "version")>>
           c == When("replication" \in s.modules, <<Step("apply", "replCRDs")>>)
           d == <<Step("check", "driverConfig")>>
           r == When(Dropped(prev, s, "replication"),
                     <<Step("delete", "replCtrl"), Step("warn", "replCRDs")>>)
           x == When(Dropped(prev, s, "observability"), <<Step("delete", "obs")>>)
           sv == <<Step("save", "cr")>>
           j == <<Step("check", "injection")>>
           D == DriverSyncSteps(t, s)
           rc == When(t # "cosi" /\ "replication" \in s.modules,
                      <<Step("apply", "replCtrl"), Step("create", "replCM")>>)
           ob == When(t # "cosi" /\ "observability" \in s.modules, <<Step("apply", "obs")>>)
           m == MetricsSteps(t, s.metrics)
<1>1. /\ \A op \in {"check", "apply", "create", "ssa", "delete", "warn"},
            o \in SyncObjects \ Controllers :
            Step(op, o) \in BeforeSave /\ Step(op, o) \in AfterSave(s)
      /\ \A o \in SyncObjects : Step("delete", o) \in BeforeSave
      /\ \A o \in SyncObjects : o \in Controllers /\ ModuleOf(o) \in s.modules =>
            Step("apply", o) \in AfterSave(s)
  BY DEF BeforeSave, AfterSave, SyncStepType, Step
<1>2. /\ {"cr", "version", "driverConfig", "injection", "replCRDs", "replCM", "drCRD", "metricsSvc",
          "serviceMonitor", "ctrlSA", "ctrlCR", "ctrlCRB", "configMap", "deployment"}
             \subseteq SyncObjects \ Controllers
      /\ Controllers \subseteq SyncObjects
      /\ t # "cosi" => {"nodeSA", "nodeCR", "nodeCRB", "nodeRole", "ctrlRole", "nodeRB", "ctrlRB",
                        "csiDriver", "daemonSet"} \subseteq SyncObjects \ Controllers
  BY DEF SyncObjects, NodeObjects, StepObjects, Objects, DriverObjects, ModuleObjects,
         OwnedObjects, Controllers
<1>3. v \in B /\ d \in B /\ j \in A
  BY <1>1, <1>2
<1>4. c \in B
  <2>1. <<Step("apply", "replCRDs")>> \in B
    BY <1>1, <1>2
  <2> QED
    BY <2>1, WhenType
<1>5. r \in B /\ x \in B
  <2>1. <<Step("delete", "replCtrl"), Step("warn", "replCRDs")>> \in B /\ <<Step("delete", "obs")>> \in B
    BY <1>1, <1>2 DEF Controllers
  <2> QED
    BY <2>1, WhenType
<1>6. rc \in A /\ ob \in A
  <2>1. /\ "replication" \in s.modules => <<Step("apply", "replCtrl"), Step("create", "replCM")>> \in A
        /\ "observability" \in s.modules => <<Step("apply", "obs")>> \in A
    BY <1>1, <1>2 DEF Controllers, ModuleOf
  <2> QED
    BY <2>1 DEF When
<1>7. m \in A
  <2>1. /\ Step("apply", "metricsSvc") \in AfterSave(s) /\ Step("warn", "metricsSvc") \in AfterSave(s)
        /\ Step("apply", "serviceMonitor") \in AfterSave(s)
        /\ Step("warn", "serviceMonitor") \in AfterSave(s)
    BY <1>1, <1>2
  <2>2. << IF "service" \in s.metrics THEN Step("apply", "metricsSvc")
                                      ELSE Step("warn", "metricsSvc"),
           IF {"service", "monitor"} \subseteq s.metrics
             THEN Step("apply", "serviceMonitor")
             ELSE Step("warn", "serviceMonitor") >> \in A
    BY <2>1
  <2> QED
    BY <2>2, WhenType DEF MetricsSteps
<1>8. D \in A
  <2>1. \A objs \in Seq(SyncObjects \ Controllers) : Steps("apply", objs) \in A
    BY <1>1, StepsType
  <2>2. <<"ctrlSA", "ctrlCR", "ctrlCRB", "configMap">> \in Seq(SyncObjects \ Controllers)
    BY <1>2
  <2>3. ASSUME t # "cosi"
        PROVE  <<"nodeSA", "ctrlSA", "nodeCR", "ctrlCR", "nodeCRB", "ctrlCRB",
                 "nodeRole", "ctrlRole", "nodeRB", "ctrlRB",
                 "csiDriver", "configMap">> \in Seq(SyncObjects \ Controllers)
    BY <1>2, <2>3
  <2>4. /\ <<Step("ssa", "deployment")>> \in A
        /\ t # "cosi" => <<Step("ssa", "daemonSet")>> \in A
    BY <1>1, <1>2
  <2>5. DRSteps(t, s) \in A
    <3>1. <<Step("apply", "drCRD")>> \in A /\ <<Step("delete", "drCRD")>> \in A /\ << >> \in A
      BY <1>1, <1>2
    <3> QED
      BY <3>1, WhenType DEF DRSteps
  <2>6. \A a, b \in A : a \o b \in A
    OBVIOUS
  <2> HIDE DEF A
  <2> QED
    BY <2>1, <2>2, <2>3, <2>4, <2>5, <2>6 DEF DriverSyncSteps
<1>9. sv \in Q /\ SavesAhead(sv, s)
  <2>1. Step("save", "cr") \in SyncStepType
    BY <1>2 DEF SyncStepType, Step
  <2>2. sv \in Q /\ DOMAIN sv = {1} /\ Len(sv) = 1 /\ sv[1].op = "save"
    BY <2>1 DEF Step
  <2> HIDE DEF sv
  <2>3. 1 \in DOMAIN sv /\ (\A i \in 1..(1 - 1) : FALSE) /\ (\A i \in (1 + 1)..Len(sv) : FALSE)
    BY <2>2
  <2> QED
    BY <2>2, <2>3 DEF SavesAhead
<1>10. /\ \A a \in B : a \in Q
       /\ \A a \in A : a \in Q
       /\ \A a, b \in B : a \o b \in B
       /\ \A a, b \in Q : a \o b \in Q
  <2>1. ASSUME NEW a \in B PROVE a \in Q
    <3>1. a \in [1..Len(a) -> SyncStepType] /\ Len(a) \in Nat
      BY <2>1 DEF BeforeSave
    <3> QED
      BY <3>1
  <2>2. ASSUME NEW a \in A PROVE a \in Q
    <3>1. a \in [1..Len(a) -> SyncStepType] /\ Len(a) \in Nat
      BY <2>2 DEF AfterSave
    <3> QED
      BY <3>1
  <2> QED
    BY <2>1, <2>2
<1> HIDE DEF Q, A, B, v, c, d, r, x, sv, j, D, rc, ob, m
<1>11. SyncPlan(t, prev, s) =
          ((((((((v \o c) \o d) \o ((r \o x) \o sv)) \o j) \o D) \o rc) \o ob) \o m)
  BY DEF SyncPlan, CleanupSteps, v, c, d, r, x, sv, j, D, rc, ob, m
<1> DEFINE k == (r \o x) \o sv
           h == (v \o c) \o d
           p0 == h \o k
           p1 == p0 \o j
           p2 == p1 \o D
           p3 == p2 \o rc
           p4 == p3 \o ob
           p5 == p4 \o m
<1>12. h \in B /\ r \o x \in B /\ h \in Q /\ r \o x \in Q /\ r \in Q /\ x \in Q
  BY <1>3, <1>4, <1>5, <1>10
<1>13. k \in Q /\ p0 \in Q
  BY <1>9, <1>10, <1>12
<1>14. SavesAhead(k, s) /\ SavesAhead(p0, s)
  <2>1. SavesAhead(k, s)
    BY <1>9, <1>12, SavePrefix DEF Q, B
  <2> HIDE DEF k, h
  <2> QED
    BY <1>12, <1>13, <2>1, SavePrefix DEF Q, B
<1>15. ASSUME NEW p \in Q, SavesAhead(p, s), NEW b \in A
       PROVE  SavesAhead(p \o b, s) /\ p \o b \in Q
  BY <1>15, SaveSuffix DEF Q, A
<1> HIDE DEF h, k, p0
<1>16. SavesAhead(p1, s) /\ p1 \in Q
  BY <1>3, <1>13, <1>14, <1>15
<1> HIDE DEF p1
<1>17. SavesAhead(p2, s) /\ p2 \in Q
  BY <1>8, <1>15, <1>16
<1> HIDE DEF p2
<1>18. SavesAhead(p3, s) /\ p3 \in Q
  BY <1>6, <1>15, <1>17
<1> HIDE DEF p3
<1>19. SavesAhead(p4, s) /\ p4 \in Q
  BY <1>6, <1>15, <1>18
<1> HIDE DEF p4
<1>20. SavesAhead(p5, s)
  BY <1>7, <1>15, <1>19
<1>21. SyncPlan(t, prev, s) = p5
  BY <1>11 DEF p0, p1, p2, p3, p4, p5, h, k
<1>22. ASSUME NEW o \in Controllers, Dropped(prev, s, ModuleOf(o)) PROVE Removes(p5, o)
  <2>1. \A a, b \in Q : Removes(a, o) \/ Removes(b, o) => Removes(a \o b, o)
    BY RemovesConcat DEF Q
  <2>2. Removes(r \o x, o)
    <3>1. CASE o = "replCtrl"
      <4>1. 1 \in DOMAIN r /\ r[1].op = "delete" /\ r[1].obj = o
        BY <1>22, <3>1 DEF r, When, Step, ModuleOf
      <4>2. Removes(r, o)
        BY <4>1 DEF Removes
      <4> QED
        BY <1>12, <2>1, <4>2
    <3>2. CASE o = "obs"
      <4>1. 1 \in DOMAIN x /\ x[1].op = "delete" /\ x[1].obj = o
        BY <1>22, <3>2 DEF x, When, Step, ModuleOf
      <4>2. Removes(x, o)
        BY <4>1 DEF Removes
      <4> QED
        BY <1>12, <2>1, <4>2
    <3> QED
      BY <3>1, <3>2 DEF Controllers
  <2>3. Removes(k, o)
    BY <1>9, <1>12, <2>1, <2>2 DEF k
  <2>4. Removes(p0, o)
    BY <1>12, <1>13, <2>1, <2>3 DEF p0
  <2>5. Removes(p1, o)
    BY <1>3, <1>10, <1>13, <2>1, <2>4 DEF p1
  <2>6. Removes(p2, o)
    BY <1>8, <1>10, <1>16, <2>1, <2>5 DEF p2
  <2>7. Removes(p3, o)
    BY <1>6, <1>10, <1>17, <2>1, <2>6 DEF p3
  <2>8. Removes(p4, o)
    BY <1>6, <1>10, <1>18, <2>1, <2>7 DEF p4
  <2> QED
    BY <1>7, <1>10, <1>19, <2>1, <2>8
<1> HIDE DEF p5
<1> QED
  BY <1>20, <1>21, <1>22

\* A removal that does not keep the driver deletes the controllers of the
\* modules of the spec it has read.
LEMMA RemovalPlanRemoves ==
    ASSUME NEW s \in SpecType, NEW o \in Controllers, ModuleOf(o) \in s.modules
    PROVE  LET p == RemovalPlan(DriverType, s)
           IN  p[1].op = "disown" \/ Removes(p, o)
<1> DEFINE t == DriverType
           Q == Seq(RemovalStepType)
           k == <<Step("check", "driverConfig")>>
           n == DriverRemoveSteps(t)
           r == When("replication" \in s.modules,
                     <<Step("delete", "replCtrl"), Step("delete", "replCM"), Step("warn", "replCRDs")>>)
           x == When("observability" \in s.modules, <<Step("delete", "obs")>>)
           w == When(t = "powerstore", <<Step("delete", "drCRD")>>)
           m == MetricsSteps(t, {})
           rel == <<Step("release", "cr")>>
<1>1. \A op \in {"check", "delete", "get+delete", "warn", "release"}, ob \in StepObjects :
         Step(op, ob) \in RemovalStepType
  BY DEF RemovalStepType, Step
<1>2. \A a, b \in Q : a \o b \in Q
  OBVIOUS
<1> USE DEF StepObjects, Objects, DriverObjects, ModuleObjects, OwnedObjects
<1>3. n \in Q
  <2>1. NodeRbac \in Seq(StepObjects) /\ ControllerRbac \in Seq(StepObjects)
    BY DEF NodeRbac, ControllerRbac
  <2>2. Steps("delete", NodeRbac) \in Q /\ Steps("delete", ControllerRbac) \in Q
    BY <1>1, <2>1, StepsType
  <2>3. /\ <<Step("delete", "configMap")>> \in Q /\ <<Step("get+delete", "deployment")>> \in Q
        /\ <<Step("delete", "csiDriver"), Step("get+delete", "daemonSet")>> \in Q
    BY <1>1
  <2>4. /\ When(t # "cosi", Steps("delete", NodeRbac)) \in Q
        /\ When(t # "cosi", <<Step("delete", "csiDriver"), Step("get+delete", "daemonSet")>>) \in Q
    BY <2>2, <2>3, WhenType
  <2> HIDE DEF Q
  <2> QED
    BY <1>2, <2>2, <2>3, <2>4 DEF DriverRemoveSteps
<1>4. k \in Q /\ rel \in Q
  BY <1>1
<1>5. r \in Q /\ x \in Q /\ w \in Q
  <2>1. /\ <<Step("delete", "replCtrl"), Step("delete", "replCM"), Step("warn", "replCRDs")>> \in Q
        /\ <<Step("delete", "obs")>> \in Q /\ <<Step("delete", "drCRD")>> \in Q
    BY <1>1
  <2>2. r \in Q
    BY <2>1, WhenType
  <2>3. x \in Q
    BY <2>1, WhenType
  <2>4. w \in Q
    BY <2>1, WhenType
  <2> HIDE DEF r, x, w, Q
  <2> QED
    BY <2>2, <2>3, <2>4
<1>6. m \in Q
  <2>1. <<Step("warn", "metricsSvc"), Step("warn", "serviceMonitor")>> \in Q
    BY <1>1
  <2>2. m = When(t = "powerflex", <<Step("warn", "metricsSvc"), Step("warn", "serviceMonitor")>>)
    BY DEF MetricsSteps
  <2>3. When(t = "powerflex", <<Step("warn", "metricsSvc"), Step("warn", "serviceMonitor")>>) \in Q
    BY <2>1, WhenType
  <2> HIDE DEF m, Q
  <2> QED
    BY <2>2, <2>3
<1>7. Removes(r, o) \/ Removes(x, o)
  <2>1. CASE o = "replCtrl"
    <3>1. 1 \in DOMAIN r /\ r[1].op = "delete" /\ r[1].obj = o
      BY <2>1 DEF When, Step, ModuleOf
    <3> QED
      BY <3>1 DEF Removes
  <2>2. CASE o = "obs"
    <3>1. 1 \in DOMAIN x /\ x[1].op = "delete" /\ x[1].obj = o
      BY <2>2 DEF When, Step, ModuleOf
    <3> QED
      BY <3>1 DEF Removes
  <2> QED
    BY <2>1, <2>2 DEF Controllers
<1> HIDE DEF Q, k, n, r, x, w, m, rel
<1>8. \A a, b \in Q : Removes(a, o) \/ Removes(b, o) => Removes(a \o b, o)
  BY RemovesConcat DEF Q
<1>9. CASE s.force = "true"
  <2>1. RemovalPlan(t, s) = (((((k \o n) \o r) \o x) \o w) \o m) \o rel
    BY <1>9 DEF RemovalPlan, RemoveDriverSteps, k, n, r, x, w, m, rel
  <2>2. k \o n \in Q /\ (k \o n) \o r \in Q
    BY <1>2, <1>3, <1>4, <1>5
  <2> DEFINE y == ((k \o n) \o r) \o x
  <2>3. y \in Q /\ Removes(y, o)
    BY <1>2, <1>5, <1>7, <1>8, <2>2
  <2> HIDE DEF y
  <2>4. y \o w \in Q /\ Removes(y \o w, o)
    BY <1>2, <1>5, <1>8, <2>3
  <2>5. (y \o w) \o m \in Q /\ Removes((y \o w) \o m, o)
    BY <1>2, <1>6, <1>8, <2>4
  <2>6. Removes(((y \o w) \o m) \o rel, o)
    BY <1>4, <1>8, <2>5
  <2> QED
    BY <2>1, <2>6 DEF y
<1>10. CASE s.force # "true"
  BY <1>10 DEF RemovalPlan, Step
<1> QED
  BY <1>9, <1>10

(***************************************************************************)
(* The steps.                                                              *)
(***************************************************************************)
\* What applying an object, deleting it or passing over it does to the
\* controllers that are owed.
LEMMA ControllersStep ==
    ASSUME NEW o
    PROVE  /\ Put(o) => OwedControllers' = OwedControllers \cup ({o} \cap Controllers)
           /\ Drop(o) \/ Pass(o) => OwedControllers' \subseteq OwedControllers \ {o}
<1>1. o \in Cascade(o)
  BY DEF Cascade
<1>2. ASSUME Put(o) PROVE OwedControllers' = OwedControllers \cup ({o} \cap Controllers)
  BY <1>2 DEF OwedControllers, Put
<1>3. ASSUME Drop(o) \/ Pass(o) PROVE OwedControllers' \subseteq OwedControllers \ {o}
  BY <1>1, <1>3 DEF OwedControllers, Drop, Pass
<1> QED
  BY <1>2, <1>3

\* The annotation the worker writes is the one it has read, or its spec.
LEMMA PendingPrev ==
    ASSUME csm \in CRType, api \in CRType, pc \in {"finalizer", "annotate", "sync", "remove"}
    PROVE  /\ Stored(PendingUpdate).prev = IF pc = "sync" THEN <<csm.spec>> ELSE csm.prev
           /\ PendingUpdate.prev = Stored(PendingUpdate).prev
           /\ PendingUpdate.spec = csm.spec
BY DEF PendingUpdate, Stored, CRType

\* When the worker is about to save the annotation, nothing is left of the
\* plan that removes a controller; when it is about to release the finalizer,
\* no controller is owed.
LEMMA UpdateRecords ==
    ASSUME IInv, RecordInv, Updating, CanUpdate, api' = Stored(PendingUpdate),
           UNCHANGED <<cluster, abandoned>>
    PROVE  ModulesRecorded' /\ (OwedControllers' # {} => api'.exists /\ api'.fin)
<1>0. csm \in CRType /\ api \in CRType
  BY DEF IInv, TypeOK
<1>1. /\ PendingUpdate \in CRType /\ PendingUpdate.deleting = csm.deleting
      /\ pc # "remove" => PendingUpdate.fin = TRUE /\ csm.deleting = FALSE
      /\ pc \in {"finalizer", "annotate", "sync", "remove"}
  BY PendingFields
<1>2. api'.prev = IF pc = "sync" THEN <<csm.spec>> ELSE csm.prev
  BY <1>0, <1>1, PendingPrev
<1>3. OwedControllers' = OwedControllers /\ csm.prev = api.prev
  BY DEF OwedControllers, RecordInv, CanUpdate
<1>4. CASE pc = "remove"
  <2>1. plan # << >> /\ Head(plan).op = "release" /\ Len(plan) = 1 /\ plan \in Seq(RemovalStepType)
    BY <1>4, StepPlace DEF Updating, IInv, RemovalInv, AtStep
  <2>2. plan[1].op = "release" /\ DOMAIN plan = {1}
    BY <2>1
  <2>3. \A o : ~Removes(plan, o)
    BY <2>2 DEF Removes
  <2>4. OwedControllers = {}
    BY <1>4, <2>2, <2>3 DEF RecordInv, RemovalRecord
  <2> QED
    BY <1>3, <2>4 DEF ModulesRecorded
<1>5. CASE pc # "remove"
  <2>1. api'.exists /\ api'.fin
    BY <1>1, <1>5, StoredFields
  <2>2. CASE pc # "sync"
    <3>1. Recorded(api)' = Recorded(api)
      BY <1>2, <1>3, <1>5, <2>2 DEF Recorded
    <3> QED
      BY <1>3, <2>1, <3>1 DEF ModulesRecorded, RecordInv
  <2>3. CASE pc = "sync"
    <3>1. plan # << >> /\ Head(plan).op = "save" /\ plan \in Seq(SyncStepType)
      BY <2>3, StepPlace DEF Updating, IInv, ControlInv, AtStep
    <3>2. plan \notin Seq(AfterSave(csm.spec))
      <4>1. ASSUME plan \in Seq(AfterSave(csm.spec)) PROVE FALSE
        <5>1. Head(plan) \in AfterSave(csm.spec)
          BY <3>1, <4>1, HeadTailProperties
        <5> QED
          BY <3>1, <5>1 DEF AfterSave
      <4> QED
        BY <4>1
    <3>3. \A o \in OwedControllers : ModuleOf(o) \in csm.spec.modules
      <4>1. /\ SavesAhead(plan, csm.spec) /\ OwedControllers \subseteq Controllers
            /\ \A o \in OwedControllers : ModuleOf(o) \in csm.spec.modules \/ Removes(plan, o)
        BY <2>3, <3>2 DEF RecordInv, SyncRecord, CanUpdate, OwedControllers
      <4>2. \A o \in Controllers : ~Removes(plan, o)
        BY <3>1, <4>1, SaveTail
      <4> QED
        BY <4>1, <4>2, Zenon
    <3>4. Recorded(api)' = csm.spec.modules
      BY <1>2, <2>3 DEF Recorded
    <3> QED
      BY <1>3, <2>1, <3>3, <3>4 DEF ModulesRecorded
  <2> QED
    BY <2>2, <2>3
<1> QED
  BY <1>4, <1>5

\* Going on in a sync, or in a removal, after a step that applies no
\* controller, and has removed the one it names.
LEMMA RecordNextStep ==
    ASSUME IInv, RecordInv, plan # << >>, NextStep, Head(plan).op \notin {"save", "release", "disown"},
           OwedControllers' \subseteq OwedControllers, UNCHANGED api,
           Head(plan).op = "delete" => Head(plan).obj \notin OwedControllers'
    PROVE  RecordInv'
<1>1. UNCHANGED <<csm, csmCurrent>> /\ plan' = Tail(plan) /\ pc' \in {pc, "report"}
      /\ (pc # "sync" => pc' = pc)
  BY DEF NextStep
<1>2. ModulesRecorded' /\ (OwedControllers' # {} => api'.exists /\ api'.fin)
  BY DEF RecordInv, ModulesRecorded, Recorded
<1>3. csmCurrent' => csm'.prev = api'.prev
  BY <1>1 DEF RecordInv
<1>4. \A o \in OwedControllers' : Removes(plan, o) => Removes(Tail(plan), o)
  BY RemovesTail DEF IInv, TypeOK
<1>5. ASSUME pc = "sync" PROVE SyncRecord'
  <2>0. plan \in Seq(SyncStepType) /\ SyncRecord
    BY <1>5 DEF IInv, ControlInv, RecordInv
  <2>1. CASE plan \in Seq(AfterSave(csm.spec)) /\ api.prev = <<csm.spec>>
    <3>1. Tail(plan) \in Seq(AfterSave(csm.spec))
      BY <2>1, HeadTailProperties
    <3> QED
      BY <1>1, <2>1, <3>1 DEF SyncRecord
  <2>2. CASE /\ SavesAhead(plan, csm.spec)
             /\ csmCurrent => \A o \in OwedControllers :
                                 ModuleOf(o) \in csm.spec.modules \/ Removes(plan, o)
    <3>1. SavesAhead(Tail(plan), csm.spec)
      BY <2>0, <2>2, SaveTail
    <3>2. SavesAhead(plan, csm.spec)'
      BY <1>1, <3>1 DEF SavesAhead
    <3>3. csmCurrent' => \A o \in OwedControllers' :
                            ModuleOf(o) \in csm.spec.modules \/ Removes(Tail(plan), o)
      BY <1>1, <1>4, <2>2
    <3>4. (csmCurrent => \A o \in OwedControllers :
                            ModuleOf(o) \in csm.spec.modules \/ Removes(plan, o))'
      BY <1>1, <3>3 DEF Removes
    <3> QED
      BY <3>2, <3>4 DEF SyncRecord
  <2> QED
    BY <2>0, <2>1, <2>2 DEF SyncRecord
<1>6. ASSUME pc = "remove" PROVE RemovalRecord'
  <2>1. plan[1] = Head(plan)
    BY <1>6, RemovalTail
  <2>2. \A o \in OwedControllers : Removes(plan, o)
    BY <1>6, <2>1 DEF RecordInv, RemovalRecord
  <2> QED
    BY <1>1, <1>4, <2>2 DEF RemovalRecord, Removes
<1> QED
  BY <1>1, <1>2, <1>3, <1>5, <1>6 DEF RecordInv

\* The controller of a module is applied only when the annotation names the
\* module.
LEMMA PutRecorded ==
    ASSUME IInv, RecordInv, AtStep({"apply", "create", "ssa"}), Put(Head(plan).obj), UNCHANGED api
    PROVE  /\ ModulesRecorded' /\ (OwedControllers' # {} => api'.exists /\ api'.fin)
           /\ Head(plan).obj \in Controllers => plan \in Seq(AfterSave(csm.spec))
<1> DEFINE o == Head(plan).obj
<1>1. plan # << >> /\ Head(plan).op \in {"apply", "create", "ssa"}
  BY DEF AtStep
<1>2. api.exists /\ api.fin /\ pc = "sync"
  BY PutUnderFinalizer
<1>3. plan \in Seq(SyncStepType) /\ SyncRecord
  BY <1>2 DEF IInv, ControlInv, RecordInv
<1>4. OwedControllers' = OwedControllers \cup ({o} \cap Controllers)
  BY ControllersStep
<1>5. ASSUME o \in Controllers
      PROVE  plan \in Seq(AfterSave(csm.spec)) /\ ModuleOf(o) \in Recorded(api)
  <2>1. Head(plan) \notin BeforeSave
    BY <1>1, <1>5 DEF BeforeSave
  <2>2. ~SavesAhead(plan, csm.spec)
    BY <1>1, <1>3, <2>1, SaveTail
  <2>3. plan \in Seq(AfterSave(csm.spec)) /\ api.prev = <<csm.spec>>
    BY <1>3, <2>2 DEF SyncRecord
  <2>4. Head(plan) \in AfterSave(csm.spec)
    BY <1>1, <2>3, HeadTailProperties
  <2>5. ModuleOf(o) \in csm.spec.modules
    BY <1>5, <2>4 DEF AfterSave
  <2> QED
    BY <2>3, <2>5 DEF Recorded
<1> HIDE DEF o
<1>6. Recorded(api)' = Recorded(api)
  BY DEF Recorded
<1> QED
  BY <1>2, <1>4, <1>5, <1>6 DEF RecordInv, ModulesRecorded, o

\* RecordInv is preserved by every step.
LEMMA RecordStep ==
    ASSUME IInv, RecordInv, [Next]_vars
    PROVE  RecordInv'
<1> USE DEF apiVars, workVars, objVars, envVars
<1>a. /\ api \in CRType /\ cache \in CRType /\ csm \in CRType
      /\ ControlInv /\ StaleCopiesInv /\ FinalizerInv
  BY DEF IInv, TypeOK
<1>b. ASSUME Return, ModulesRecorded', OwedControllers' # {} => api'.exists /\ api'.fin
      PROVE  RecordInv'
  BY <1>b DEF RecordInv, Return
<1>c. ASSUME OwedControllers' \subseteq OwedControllers,
             api'.prev = api.prev /\ api'.exists = api.exists /\ api'.fin = api.fin
      PROVE  ModulesRecorded' /\ (OwedControllers' # {} => api'.exists /\ api'.fin)
  BY <1>c DEF RecordInv, ModulesRecorded, Recorded
<1>d. ASSUME OwedControllers' \subseteq OwedControllers, UNCHANGED api
      PROVE  ModulesRecorded' /\ (OwedControllers' # {} => api'.exists /\ api'.fin)
  BY <1>c, <1>d
\* Somebody else moves.
<1>e. ASSUME UNCHANGED <<pc, csm, plan>>, OwedControllers' \subseteq OwedControllers,
             csmCurrent' => csmCurrent,
             api'.prev = api.prev /\ api'.exists = api.exists /\ api'.fin = api.fin
      PROVE  RecordInv'
  <2>1. ModulesRecorded' /\ (OwedControllers' # {} => api'.exists /\ api'.fin)
    BY <1>c, <1>e
  <2>2. csmCurrent' => csm'.prev = api'.prev
    BY <1>e DEF RecordInv
  <2>3. pc = "sync" => SyncRecord'
    BY <1>e DEF RecordInv, SyncRecord, SavesAhead, Removes
  <2>4. pc = "remove" => RemovalRecord'
    BY <1>e DEF RecordInv, RemovalRecord, Removes
  <2> QED
    BY <1>e, <2>1, <2>2, <2>3, <2>4 DEF RecordInv
<1>f. ASSUME UNCHANGED <<cluster, abandoned>> PROVE OwedControllers' = OwedControllers
  BY <1>f DEF OwedControllers
<1>1. CASE UNCHANGED vars
  BY <1>1, <1>e, <1>f DEF vars
<1>2. CASE Create
  <2>1. ~api.exists /\ csmCurrent' = FALSE /\ UNCHANGED <<pc, csm, plan, cluster, abandoned>>
    BY <1>2 DEF Create, WriteByOther
  <2>2. OwedControllers' = {} /\ OwedControllers = {}
    BY <1>f, <2>1 DEF RecordInv
  <2>3. ModulesRecorded'
    BY <2>2 DEF ModulesRecorded
  <2>4. pc = "sync" => FALSE
    BY <1>a, <2>1 DEF ControlInv, FinalizerInv
  <2>5. pc = "remove" => RemovalRecord'
    BY <2>2 DEF RemovalRecord
  <2> QED
    BY <2>1, <2>2, <2>3, <2>4, <2>5 DEF RecordInv
<1>3. CASE EditSpec
  <2>1. /\ api'.prev = api.prev /\ api'.exists = api.exists /\ api'.fin = api.fin
        /\ csmCurrent' = FALSE /\ UNCHANGED <<pc, csm, plan, cluster, abandoned>>
    BY <1>3, <1>a DEF EditSpec, WriteByOther, CRType
  <2> QED
    BY <1>e, <1>f, <2>1
<1>4. CASE Delete
  <2>1. /\ api'.prev = api.prev /\ api'.fin = api.fin
        /\ api.fin => api'.exists = api.exists
        /\ csmCurrent' = FALSE /\ UNCHANGED <<pc, csm, plan, cluster, abandoned>>
    BY <1>4, <1>a DEF Delete, WriteByOther, CRType
  <2>2. CASE api.fin
    <3>1. api'.exists = api.exists
      BY <2>1, <2>2
    <3> QED
      BY <1>e, <1>f, <2>1, <3>1
  <2>3. CASE ~api.fin
    <3>1. OwedControllers' = {}
      BY <1>f, <2>1, <2>3 DEF RecordInv
    <3>2. ModulesRecorded'
      BY <3>1 DEF ModulesRecorded
    <3>3. pc = "sync" => FALSE
      BY <1>a, <2>3 DEF ControlInv, FinalizerInv
    <3>4. pc = "remove" => RemovalRecord'
      BY <3>1 DEF RemovalRecord
    <3> QED
      BY <2>1, <3>1, <3>2, <3>3, <3>4 DEF RecordInv
  <2> QED
    BY <2>2, <2>3
<1>5. CASE ChangePrerequisites \/ CacheSync \/ ObjectCacheSync \/ PodsReady
  BY <1>5, <1>e, <1>f DEF ChangePrerequisites, CacheSync, ObjectCacheSync, PodsReady
<1>6. CASE GarbageCollect
  <2>1. PICK o \in OwnedObjects \cap cluster : Drop(o) /\ UNCHANGED <<api, pc, csm, plan, csmCurrent>>
    BY <1>6 DEF GarbageCollect
  <2>2. OwedControllers' \subseteq OwedControllers
    BY <2>1, ControllersStep
  <2> QED
    BY <1>e, <2>1, <2>2
<1>7. CASE Restart \/ LoadFails \/ ReportFails \/ ApplyStale \/ ReportNotRunning
  <2>1. Return /\ UNCHANGED <<api, cluster, abandoned>>
    BY <1>7 DEF Restart, LoadFails, ReportFails, ApplyStale, ReportNotRunning, ReturnError
  <2> QED
    BY <1>b, <1>d, <1>f, <2>1
<1>8. CASE PreChecksFail \/ ReportStatus
  <2>1. Return /\ UNCHANGED <<cluster, abandoned>>
    BY <1>8 DEF PreChecksFail, ReportStatus, ReturnError
  <2>2. UNCHANGED api \/ \E st : api' = [api EXCEPT !.state = st]
    BY <1>8 DEF PreChecksFail, ReportStatus
  <2>3. api'.prev = api.prev /\ api'.exists = api.exists /\ api'.fin = api.fin
    BY <1>a, <2>2 DEF CRType
  <2> QED
    BY <1>b, <1>c, <1>f, <2>1, <2>3
<1>9. CASE GetCR
  <2>1. /\ csm'.prev = cache.prev /\ csmCurrent' = cacheCurrent /\ pc' = "precheck"
        /\ UNCHANGED <<api, cluster, abandoned>>
    BY <1>9, <1>a DEF GetCR, CRType
  <2>2. csmCurrent' => csm'.prev = api'.prev
    BY <1>a, <2>1 DEF StaleCopiesInv
  <2> QED
    BY <1>d, <1>f, <2>1, <2>2 DEF RecordInv
<1>10. CASE GetNotFound \/ GetError
  BY <1>10, <1>e, <1>f DEF GetNotFound, GetError
<1>11. CASE PreChecksPass
  <2>1. UNCHANGED <<api, csm, csmCurrent, cluster>> /\ abandoned \subseteq abandoned'
        /\ pc' \in {"remove", "annotate", "finalizer"}
    BY <1>11 DEF PreChecksPass
  <2>2. OwedControllers' \subseteq OwedControllers
    BY <2>1 DEF OwedControllers
  <2>3. ASSUME pc' = "remove" PROVE RemovalRecord'
    <3>1. /\ plan' = RemovalPlan(DriverType, csm.spec)
          /\ abandoned' = abandoned \cup (cluster \cap NotCovered(csm.spec))
      BY <1>11, <2>3 DEF PreChecksPass
    <3>2. \A o \in OwedControllers' : o \in Controllers /\ ModuleOf(o) \in csm.spec.modules
      BY <2>1, <3>1 DEF OwedControllers, NotCovered, Controllers, ModuleOf
    <3>3. csm.spec \in SpecType
      BY <1>a DEF CRType
    <3> QED
      BY <3>1, <3>2, <3>3, RemovalPlanRemoves DEF RemovalRecord, Removes
  <2>4. csmCurrent' => csm'.prev = api'.prev
    BY <2>1 DEF RecordInv
  <2> QED
    BY <1>d, <2>1, <2>2, <2>3, <2>4 DEF RecordInv
<1>12. CASE AddFinalizer
  <2>1. /\ Updating /\ CanUpdate /\ api' = Stored(PendingUpdate) /\ UNCHANGED <<cluster, abandoned>>
        /\ pc' = "annotate" /\ pc = "finalizer" /\ csm' = [PendingUpdate EXCEPT !.gen = api'.gen]
    BY <1>12 DEF AddFinalizer, Updating, UpdateCR, PendingUpdate
  <2>2. csm'.prev = api'.prev
    BY <1>a, <2>1, PendingPrev, UpdateType DEF CRType
  <2> QED
    BY <2>1, <2>2, UpdateRecords DEF RecordInv
<1>13. CASE AnnotateAndStartSync
  <2>1. /\ pc = "annotate" /\ pc' = "sync" /\ UNCHANGED <<cluster, abandoned>>
        /\ plan' = SyncPlan(DriverType, csm.prev, csm.spec)
    BY <1>13 DEF AnnotateAndStartSync
  <2>2. /\ csm'.spec = csm.spec /\ csm'.prev = csm.prev
        /\ csmCurrent' => csmCurrent /\ api'.prev = api.prev
        /\ ModulesRecorded' /\ (OwedControllers' # {} => api'.exists /\ api'.fin)
    <3>1. CASE csm.cfgv = csm.spec.ver
      <4>1. UNCHANGED <<api, csm, csmCurrent>>
        BY <1>13, <3>1 DEF AnnotateAndStartSync
      <4> QED
        BY <1>d, <1>f, <2>1, <4>1
    <3>2. CASE csm.cfgv # csm.spec.ver
      <4>1. /\ Updating /\ CanUpdate /\ api' = Stored(PendingUpdate)
            /\ csm' = [PendingUpdate EXCEPT !.gen = api'.gen]
        BY <1>13, <2>1, <3>2 DEF AnnotateAndStartSync, Updating, UpdateCR, PendingUpdate
      <4>2. csm'.spec = csm.spec /\ csm'.prev = csm.prev /\ api'.prev = csm.prev
        <5>1. /\ PendingUpdate \in CRType /\ PendingUpdate.spec = csm.spec
              /\ PendingUpdate.prev = csm.prev /\ api'.prev = csm.prev
          BY <1>a, <2>1, <4>1, PendingPrev, UpdateType
        <5> QED
          BY <4>1, <5>1 DEF CRType
      <4>3. csmCurrent /\ csm.prev = api.prev
        BY <4>1 DEF CanUpdate, RecordInv
      <4> QED
        BY <2>1, <4>1, <4>2, <4>3, UpdateRecords
    <3> QED
      BY <3>1, <3>2
  <2>3. csm.spec \in SpecType /\ csm.prev \in Seq(SpecType)
    BY <1>a DEF CRType
  <2>4. csmCurrent' => \A o \in OwedControllers' :
                          ModuleOf(o) \in csm.spec.modules \/ Removes(plan', o)
    <3> SUFFICES ASSUME csmCurrent', NEW o \in OwedControllers', ModuleOf(o) \notin csm.spec.modules
                 PROVE  Removes(plan', o)
      OBVIOUS
    <3>1. csm.prev = api.prev /\ o \in OwedControllers /\ o \in Controllers
      BY <1>f, <2>1, <2>2 DEF RecordInv, OwedControllers
    <3>2. ModuleOf(o) \in Recorded(api)
      BY <3>1 DEF RecordInv, ModulesRecorded
    <3>3. Dropped(csm.prev, csm.spec, ModuleOf(o))
      BY <3>1, <3>2 DEF Dropped, Recorded
    <3> QED
      BY <2>1, <2>3, <3>1, <3>3, SyncPlanSavesAhead
  <2>5. SyncRecord'
    <3>1. SavesAhead(plan', csm.spec)
      BY <2>1, <2>2, <2>3, SyncPlanSavesAhead
    <3>2. SavesAhead(plan, csm.spec)'
      BY <2>2, <3>1 DEF SavesAhead
    <3>3. (csmCurrent => \A o \in OwedControllers :
                            ModuleOf(o) \in csm.spec.modules \/ Removes(plan, o))'
      BY <2>2, <2>4 DEF Removes
    <3> QED
      BY <3>2, <3>3 DEF SyncRecord
  <2>6. csmCurrent' => csm'.prev = api'.prev
    BY <2>2 DEF RecordInv
  <2> QED
    BY <2>1, <2>2, <2>5, <2>6 DEF RecordInv
<1>14. CASE UpdateFails
  <2>1. Return /\ Updating /\ UNCHANGED <<cluster, abandoned>>
    BY <1>14 DEF UpdateFails, ReturnError
  <2>2. CASE UNCHANGED api
    BY <1>b, <1>d, <1>f, <2>1, <2>2
  <2>3. CASE CanUpdate /\ api' = Stored(PendingUpdate)
    BY <1>b, <2>1, <2>3, UpdateRecords
  <2> QED
    BY <1>14, <2>2, <2>3 DEF UpdateFails
<1>15. CASE CheckStep
  BY <1>15, <1>f, RecordNextStep DEF CheckStep, AtStep
<1>16. CASE ApplyStep
  <2>1. /\ AtStep({"apply", "create", "ssa"}) /\ plan # << >> /\ NextStep /\ Put(Head(plan).obj)
        /\ UNCHANGED api /\ Head(plan).op \in {"apply", "create", "ssa"}
    BY <1>16 DEF ApplyStep, AtStep
  <2>2. OwedControllers' = OwedControllers \cup ({Head(plan).obj} \cap Controllers)
    BY <2>1, ControllersStep
  <2>3. CASE Head(plan).obj \notin Controllers
    BY <2>1, <2>2, <2>3, RecordNextStep
  <2>4. CASE Head(plan).obj \in Controllers
    <3>1. /\ ModulesRecorded' /\ (OwedControllers' # {} => api'.exists /\ api'.fin)
          /\ plan \in Seq(AfterSave(csm.spec))
      BY <2>1, <2>4, PutRecorded
    <3>2. pc = "sync" /\ UNCHANGED <<csm, csmCurrent>> /\ plan' = Tail(plan) /\ pc' \in {"sync", "report"}
      BY <2>1, StepPlace DEF NextStep, AtStep
    <3>3. Tail(plan) \in Seq(AfterSave(csm.spec))
      BY <2>1, <3>1, HeadTailProperties
    <3>4. ~SavesAhead(plan, csm.spec)
      <4>1. plan \in Seq(SyncStepType) /\ Head(plan) \notin BeforeSave
        BY <2>1, <2>4, <3>2 DEF BeforeSave, IInv, ControlInv
      <4> QED
        BY <2>1, <4>1, SaveTail
    <3>5. SyncRecord'
      BY <2>1, <3>2, <3>3, <3>4 DEF RecordInv, SyncRecord
    <3>6. csmCurrent' => csm'.prev = api'.prev
      BY <2>1, <3>2 DEF RecordInv
    <3> QED
      BY <3>1, <3>2, <3>5, <3>6 DEF RecordInv
  <2> QED
    BY <2>3, <2>4
<1>17. CASE DeleteStep
  <2>1. /\ plan # << >> /\ NextStep /\ Head(plan).op \in {"delete", "get+delete", "warn"}
        /\ Drop(Head(plan).obj) \/ Pass(Head(plan).obj)
        /\ UNCHANGED api
    BY <1>17 DEF DeleteStep, AtStep
  <2>2. OwedControllers' \subseteq OwedControllers \ {Head(plan).obj}
    BY <2>1, ControllersStep
  <2> QED
    BY <2>1, <2>2, RecordNextStep
<1>18. CASE FailureIgnored
  <2>1. /\ plan # << >> /\ NextStep /\ Head(plan).op \in {"get+delete", "warn", "create"}
        /\ UNCHANGED objVars \/ Pass(Head(plan).obj)
        /\ UNCHANGED api
    BY <1>18 DEF FailureIgnored, AtStep
  <2>2. OwedControllers' \subseteq OwedControllers
    BY <1>f, <2>1, ControllersStep
  <2> QED
    BY <2>1, <2>2, RecordNextStep
<1>19. CASE StepFails
  <2>1. Return /\ UNCHANGED api
    BY <1>19 DEF StepFails, ReturnError
  <2>2. CASE UNCHANGED objVars
    BY <1>b, <1>d, <1>f, <2>1, <2>2
  <2>3. CASE AtStep({"apply", "create", "ssa"}) /\ Put(Head(plan).obj)
    BY <1>b, <2>1, <2>3, PutRecorded
  <2>4. CASE Drop(Head(plan).obj)
    <3>1. OwedControllers' \subseteq OwedControllers
      BY <2>4, ControllersStep
    <3> QED
      BY <1>b, <1>d, <2>1, <3>1
  <2> QED
    BY <1>19, <2>2, <2>3, <2>4 DEF StepFails
<1>20. CASE SaveStep
  <2>1. /\ Updating /\ CanUpdate /\ api' = Stored(PendingUpdate) /\ UNCHANGED <<cluster, abandoned>>
        /\ csm' = [PendingUpdate EXCEPT !.gen = api'.gen]
        /\ plan # << >> /\ plan' = Tail(plan) /\ pc' = pc /\ Head(plan).op = "save"
    BY <1>20 DEF SaveStep, Updating, UpdateCR, AtStep
  <2>2. pc = "sync" /\ plan \in Seq(SyncStepType)
    BY <2>1, StepPlace DEF AtStep, IInv, ControlInv
  <2>3. csm'.spec = csm.spec /\ csm'.prev = <<csm.spec>> /\ api'.prev = <<csm.spec>>
    <3>1. /\ PendingUpdate \in CRType /\ PendingUpdate.spec = csm.spec
          /\ PendingUpdate.prev = <<csm.spec>> /\ api'.prev = <<csm.spec>>
      BY <1>a, <2>1, <2>2, PendingPrev, UpdateType
    <3> QED
      BY <2>1, <3>1 DEF CRType
  <2>4. Tail(plan) \in Seq(AfterSave(csm.spec))
    <3>1. CASE SavesAhead(plan, csm.spec)
      BY <2>1, <2>2, <3>1, SaveTail
    <3>2. CASE plan \in Seq(AfterSave(csm.spec))
      BY <2>1, <3>2, HeadTailProperties
    <3> QED
      BY <2>2, <3>1, <3>2 DEF RecordInv, SyncRecord
  <2>5. SyncRecord'
    BY <2>1, <2>3, <2>4 DEF SyncRecord
  <2> QED
    BY <2>1, <2>2, <2>3, <2>5, UpdateRecords DEF RecordInv
<1>21. CASE DisownStep
  <2>1. /\ plan # << >> /\ NextStep /\ AtStep({"disown"}) /\ abandoned' = cluster
        /\ UNCHANGED <<api, cluster>>
    BY <1>21 DEF DisownStep, AtStep
  <2>2. OwedControllers' = {}
    BY <2>1 DEF OwedControllers
  <2>3. pc' = "remove" /\ UNCHANGED <<csm, csmCurrent>>
    BY <2>1, StepPlace DEF NextStep, AtStep
  <2>4. RemovalRecord' /\ ModulesRecorded'
    BY <2>2 DEF RemovalRecord, ModulesRecorded
  <2> QED
    BY <2>1, <2>2, <2>3, <2>4 DEF RecordInv
<1>22. CASE ReleaseStep
  <2>1. /\ Updating /\ CanUpdate /\ api' = Stored(PendingUpdate) /\ UNCHANGED <<cluster, abandoned>>
        /\ Return
    BY <1>22 DEF ReleaseStep, Updating, AtStep
  <2> QED
    BY <1>b, <2>1, UpdateRecords
<1> QED
  BY <1>1, <1>2, <1>3, <1>4, <1>5, <1>6, <1>7, <1>8, <1>9, <1>10, <1>11, <1>12, <1>13, <1>14,
     <1>15, <1>16, <1>17, <1>18, <1>19, <1>20, <1>21, <1>22 DEF Next, User, Worker, WorkerFailure

\* The applied-configuration annotation always names every module whose
\* controller was applied for the CR: SyncCSM removes the controllers of
\* dropped modules, then saves the annotation, then applies the new ones, and
\* no failure, lost answer, stale copy, edit or restart in between breaks it.
THEOREM RecordedAhead == Spec => []ModulesRecorded
<1>1. Init => RecordInv
  BY DEF Init, RecordInv, ModulesRecorded, OwedControllers
<1>2. IInv /\ RecordInv /\ [Next]_vars => RecordInv'
  BY RecordStep
<1>3. RecordInv => ModulesRecorded
  BY DEF RecordInv
<1> QED
  BY <1>1, <1>2, <1>3, Invariance, PTL DEF Spec

(***************************************************************************)
(* The lifecycle of the CR: every step of CSMReconciler is a step of       *)
(* CSMLifecycle or is not seen there.                                      *)
(***************************************************************************)
\* A step that leaves existence, deletion mark and finalizer of the CR alone
\* leaves its phase alone.
LEMMA SamePhase ==
    ASSUME api'.exists = api.exists, api'.deleting = api.deleting, api'.fin = api.fin
    PROVE  Phase' = Phase
BY DEF Phase

\* Such a step, when it adds nothing to what is owed, is a Remove.
LEMMA ShrinkIsRemove ==
    ASSUME Phase' = Phase, Owed' \subseteq Owed
    PROVE  Abstract!Next
BY DEF Abstract!Next, Abstract!Remove

\* An Update of the CR, with or without the answer, holds the CR, releases it
\* when nothing is owed, or is not seen.
LEMMA UpdateIsLifecycle ==
    ASSUME IInv, Updating, CanUpdate, api' = Stored(PendingUpdate),
           UNCHANGED <<cluster, abandoned>>
    PROVE  Abstract!Next
<1>0. csm \in CRType /\ api \in CRType
  BY DEF IInv, TypeOK
<1>1. /\ PendingUpdate \in CRType /\ PendingUpdate.deleting = csm.deleting
      /\ pc # "remove" => PendingUpdate.fin = TRUE /\ csm.deleting = FALSE
      /\ pc = "remove" => PendingUpdate.fin = FALSE /\ csm.deleting = TRUE
  BY PendingFields
<1>2. csm.deleting = api.deleting /\ api.exists
  BY DEF IInv, StaleCopiesInv, CanUpdate
<1>3. /\ api'.deleting = csm.deleting /\ api'.fin = PendingUpdate.fin
      /\ api'.exists = (~csm.deleting \/ PendingUpdate.fin)
  BY <1>1, StoredFields
<1>4. Owed' = Owed
  BY DEF Owed
<1>5. CASE pc = "remove"
  <2>1. Phase = "deleting" /\ Phase' = "absent"
    BY <1>1, <1>2, <1>3, <1>5 DEF Phase
  <2>2. Owed = {}
    BY <1>5, ReleaseOwesNothing
  <2> QED
    BY <1>4, <2>1, <2>2 DEF Abstract!Next, Abstract!Release
<1>6. CASE pc # "remove"
  <2>1. Phase \in {"open", "held"} /\ Phase' = "held"
    BY <1>1, <1>2, <1>3, <1>6 DEF Phase
  <2>2. CASE Phase = "held"
    BY <1>4, <2>1, <2>2, ShrinkIsRemove
  <2>3. CASE Phase = "open"
    BY <1>4, <2>1, <2>3 DEF Abstract!Next, Abstract!Hold
  <2> QED
    BY <2>1, <2>2, <2>3
<1> QED
  BY <1>5, <1>6

\* Applying an object happens while the finalizer holds the CR.
LEMMA PutIsLifecycle ==
    ASSUME IInv, AtStep({"apply", "create", "ssa"}), Put(Head(plan).obj), UNCHANGED api
    PROVE  Abstract!Next
<1> DEFINE o == Head(plan).obj
<1>1. api.exists /\ api.fin
  BY PutUnderFinalizer
<1>2. api \in CRType /\ api.exists \in BOOLEAN /\ api.deleting \in BOOLEAN /\ api.fin \in BOOLEAN
  BY DEF IInv, TypeOK, CRType
<1>3. Phase' = Phase /\ Phase \in {"held", "deleting"}
  BY <1>1, <1>2 DEF Phase
<1>4. Owed' = Owed \cup ({o} \cap DriverObjects)
  BY DEF Owed, Put
<1> HIDE DEF o
<1>5. CASE o \in DriverObjects
  <2>1. Owed' = Owed \cup {o}
    BY <1>4, <1>5
  <2> QED
    BY <1>3, <1>5, <2>1 DEF Abstract!Next, Abstract!Apply
<1>6. CASE o \notin DriverObjects
  BY <1>3, <1>4, <1>6, ShrinkIsRemove
<1> QED
  BY <1>5, <1>6

\* Every step of CSMReconciler is a step of CSMLifecycle.
LEMMA StepIsLifecycle ==
    ASSUME IInv, [Next]_vars
    PROVE  Abstract!Next
<1> USE DEF apiVars, workVars, objVars, envVars
<1>a. api \in CRType /\ TypeOK
  BY DEF IInv, TypeOK
<1>b. ASSUME UNCHANGED api, Owed' \subseteq Owed PROVE Abstract!Next
  BY <1>b, SamePhase, ShrinkIsRemove
<1>c. ASSUME UNCHANGED <<api, cluster, abandoned>> PROVE Abstract!Next
  BY <1>b, <1>c DEF Owed
<1>d. ASSUME UNCHANGED <<cluster, abandoned>>, NEW st, api' = [api EXCEPT !.state = st]
      PROVE  Abstract!Next
  <2>1. api'.exists = api.exists /\ api'.deleting = api.deleting /\ api'.fin = api.fin
    BY <1>a, <1>d DEF CRType
  <2>2. Owed' \subseteq Owed
    BY <1>d DEF Owed
  <2> QED
    BY <2>1, <2>2, SamePhase, ShrinkIsRemove
<1>1. CASE UNCHANGED vars
  BY <1>1, <1>c DEF vars
<1>2. CASE Create
  <2>1. PICK s \in Specs : api' = NewCR(api.uid + 1, s)
    BY <1>2 DEF Create, WriteByOther
  <2>2. ~api.exists /\ UNCHANGED <<cluster, abandoned>>
    BY <1>2 DEF Create
  <2>3. Phase = "absent" /\ Phase' = "open" /\ Owed' = Owed
    BY <2>1, <2>2 DEF Phase, NewCR, Owed
  <2> QED
    BY <2>3 DEF Abstract!Next, Abstract!Create
<1>3. CASE EditSpec
  <2>1. /\ api'.exists = api.exists /\ api'.deleting = api.deleting /\ api'.fin = api.fin
        /\ UNCHANGED <<cluster, abandoned>>
    BY <1>3, <1>a DEF EditSpec, WriteByOther, CRType
  <2> QED
    BY <2>1, SamePhase, ShrinkIsRemove DEF Owed
<1>4. CASE Delete
  <2>1. /\ api.exists /\ ~api.deleting /\ api'.fin = api.fin /\ UNCHANGED <<cluster, abandoned>>
        /\ api.fin => api'.exists = api.exists /\ api'.deleting = TRUE
        /\ ~api.fin => api'.exists = FALSE
    BY <1>4, <1>a DEF Delete, WriteByOther, CRType
  <2>2. Owed' = Owed
    BY <2>1 DEF Owed
  <2>3. \/ Phase = "held" /\ Phase' = "deleting"
        \/ Phase = "open" /\ Phase' = "absent"
    BY <2>1 DEF Phase
  <2> QED
    BY <2>2, <2>3 DEF Abstract!Next, Abstract!Delete
<1>5. CASE ChangePrerequisites \/ CacheSync \/ ObjectCacheSync \/ PodsReady \/ Restart
  BY <1>5, <1>c DEF ChangePrerequisites, CacheSync, ObjectCacheSync, PodsReady, Restart
<1>6. CASE GarbageCollect
  <2>1. PICK o \in OwnedObjects \cap cluster : Drop(o) /\ UNCHANGED api
    BY <1>6 DEF GarbageCollect
  <2> QED
    BY <1>b, <2>1, OwedShrinks
<1>7. CASE GetCR \/ GetNotFound \/ GetError \/ LoadFails \/ ApplyStale \/ CheckStep
           \/ ReportNotRunning \/ ReportFails
  BY <1>7, <1>c DEF GetCR, GetNotFound, GetError, LoadFails, ApplyStale, CheckStep,
     ReportNotRunning, ReportFails
<1>8. CASE PreChecksFail \/ ReportStatus
  BY <1>8, <1>c, <1>d DEF PreChecksFail, ReportStatus
<1>9. CASE PreChecksPass
  <2>1. UNCHANGED <<api, cluster>> /\ abandoned \subseteq abandoned'
    BY <1>9 DEF PreChecksPass
  <2> QED
    BY <1>b, <2>1 DEF Owed
<1>10. CASE AddFinalizer \/ SaveStep \/ ReleaseStep
  <2>1. Updating /\ CanUpdate /\ api' = Stored(PendingUpdate) /\ UNCHANGED <<cluster, abandoned>>
    BY <1>10 DEF AddFinalizer, SaveStep, ReleaseStep, Updating, UpdateCR, PendingUpdate, AtStep
  <2> QED
    BY <2>1, UpdateIsLifecycle
<1>11. CASE AnnotateAndStartSync
  <2>1. pc = "annotate" /\ UNCHANGED <<cluster, abandoned>>
    BY <1>11 DEF AnnotateAndStartSync
  <2>2. CASE csm.cfgv = csm.spec.ver
    BY <1>11, <1>c, <2>1, <2>2 DEF AnnotateAndStartSync
  <2>3. CASE csm.cfgv # csm.spec.ver
    <3>1. Updating /\ CanUpdate /\ api' = Stored(PendingUpdate)
      BY <1>11, <2>1, <2>3 DEF AnnotateAndStartSync, Updating, UpdateCR, PendingUpdate
    <3> QED
      BY <2>1, <3>1, UpdateIsLifecycle
  <2> QED
    BY <2>2, <2>3
<1>12. CASE UpdateFails
  BY <1>12, <1>c, UpdateIsLifecycle DEF UpdateFails
<1>13. CASE ApplyStep
  BY <1>13, PutIsLifecycle DEF ApplyStep
<1>14. CASE DeleteStep
  <2>1. (Drop(Head(plan).obj) \/ Pass(Head(plan).obj)) /\ UNCHANGED api
    BY <1>14 DEF DeleteStep
  <2> QED
    BY <1>b, <2>1, OwedShrinks
<1>15. CASE FailureIgnored
  <2>1. (UNCHANGED objVars \/ Pass(Head(plan).obj)) /\ UNCHANGED api
    BY <1>15 DEF FailureIgnored
  <2> QED
    BY <1>b, <1>c, <2>1, OwedShrinks
<1>16. CASE StepFails
  <2>1. /\ UNCHANGED api
        /\ \/ UNCHANGED objVars
           \/ AtStep({"apply", "create", "ssa"}) /\ Put(Head(plan).obj)
           \/ Drop(Head(plan).obj)
    BY <1>16 DEF StepFails
  <2> QED
    BY <1>b, <1>c, <2>1, OwedShrinks, PutIsLifecycle
<1>17. CASE DisownStep
  <2>1. Owed' = {} /\ UNCHANGED api
    BY <1>17 DEF DisownStep, Owed
  <2> QED
    BY <1>b, <2>1
<1> QED
  BY <1>1, <1>2, <1>3, <1>4, <1>5, <1>6, <1>7, <1>8, <1>9, <1>10, <1>11, <1>12, <1>13, <1>14,
     <1>15, <1>16, <1>17 DEF Next, User, Worker, WorkerFailure

\* The reconcile loop implements CSMLifecycle for every driver, every set of
\* specs and any number of edits, failures, restarts and re-creations.
THEOREM ImplementsLifecycle == Spec => Lifecycle
<1>1. Init => Abstract!Init
  BY DEF Init, NoCR, NewCR, Phase, Owed, Abstract!Init
<1>2. IInv /\ [Next]_vars => [Abstract!Next]_Abstract!vars
  BY StepIsLifecycle
<1> QED
  BY <1>1, <1>2, Invariance, PTL DEF Spec, Lifecycle, Abstract!Spec
=============================================================================
