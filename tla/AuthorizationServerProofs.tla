--------------------- MODULE AuthorizationServerProofs ---------------------
(***************************************************************************)
(* Proofs about AuthorizationServer: what a reconcile has gone through     *)
(* stays done until it ends, whatever the controllers, the failures and    *)
(* the restarts do in between.                                             *)
(***************************************************************************)
EXTENDS AuthorizationServer, Functions, TLAPS

(***************************************************************************)
(* The elements of the sequences that plans are put together from.         *)
(***************************************************************************)
\* The elements of a sequence.
LEMMA RangeType ==
    ASSUME NEW E, NEW s \in Seq(E)
    PROVE  Range(s) \subseteq E /\ (Range(s) = {} <=> s = << >>)
<1>1. \A i \in DOMAIN s : s[i] \in E
  OBVIOUS
<1>2. s # << >> => s[1] \in Range(s)
  BY DEF Range
<1> QED BY <1>1, <1>2 DEF Range

\* The elements of sequences that are written out.
LEMMA RangeOfTuples ==
    /\ Range(<< >>) = {}
    /\ \A a : Range(<<a>>) = {a}
    /\ \A a, b : Range(<<a, b>>) = {a, b}
    /\ \A a, b, c : Range(<<a, b, c>>) = {a, b, c}
<1>1. Range(<< >>) = {}
  BY DEF Range
<1>2. ASSUME NEW a PROVE Range(<<a>>) = {a}
  BY DEF Range
<1>3. ASSUME NEW a, NEW b PROVE Range(<<a, b>>) = {a, b}
  BY DEF Range
<1>4. ASSUME NEW a, NEW b, NEW c PROVE Range(<<a, b, c>>) = {a, b, c}
  BY DEF Range
<1> QED BY <1>1, <1>2, <1>3, <1>4

\* The elements of two sequences, one after the other.
LEMMA ConcatRange ==
    ASSUME NEW E, NEW s \in Seq(E), NEW t \in Seq(E)
    PROVE  s \o t \in Seq(E) /\ Range(s \o t) = Range(s) \cup Range(t)
<1>1. s \o t \in Seq(E)
  OBVIOUS
<1>2. Range(s \o t) \subseteq Range(s) \cup Range(t)
  BY DEF Range
<1>3. ASSUME NEW i \in DOMAIN s PROVE s[i] \in Range(s \o t)
  <2>1. i \in DOMAIN (s \o t) /\ (s \o t)[i] = s[i]
    OBVIOUS
  <2> QED BY <2>1 DEF Range
<1>4. ASSUME NEW i \in DOMAIN t PROVE t[i] \in Range(s \o t)
  <2>1. Len(s) + i \in DOMAIN (s \o t) /\ (s \o t)[Len(s) + i] = t[i]
    OBVIOUS
  <2> QED BY <2>1 DEF Range
<1> QED BY <1>1, <1>2, <1>3, <1>4 DEF Range

\* The first element and the others.
LEMMA TailRange ==
    ASSUME NEW E, NEW s \in Seq(E), s # << >>
    PROVE  /\ Head(s) \in E /\ Tail(s) \in Seq(E)
           /\ Range(s) = {Head(s)} \cup Range(Tail(s))
           /\ Len(s) = 1 <=> Tail(s) = << >>
<1>1. Head(s) \in E /\ Tail(s) \in Seq(E) /\ Head(s) = s[1] /\ Len(Tail(s)) = Len(s) - 1
  OBVIOUS
<1>2. \A i \in DOMAIN Tail(s) : i + 1 \in DOMAIN s /\ Tail(s)[i] = s[i + 1]
  OBVIOUS
<1>3. \A i \in DOMAIN s : i = 1 \/ (i - 1 \in DOMAIN Tail(s) /\ Tail(s)[i - 1] = s[i])
  OBVIOUS
<1>4. Range(s) = {Head(s)} \cup Range(Tail(s))
  <2>1. ASSUME NEW i \in DOMAIN s PROVE s[i] \in {Head(s)} \cup Range(Tail(s))
    BY <1>1, <1>3 DEF Range
  <2>2. ASSUME NEW i \in DOMAIN Tail(s) PROVE Tail(s)[i] \in Range(s)
    BY <1>2 DEF Range
  <2>3. Head(s) \in Range(s)
    BY <1>1 DEF Range
  <2> QED BY <2>1, <2>2, <2>3 DEF Range
<1>5. Len(s) = 1 <=> Tail(s) = << >>
  <2>1. \A t \in Seq(E) : t = << >> <=> Len(t) = 0
    OBVIOUS
  <2>2. Tail(s) = << >> <=> Len(Tail(s)) = 0
    BY <1>1, <2>1
  <2>3. Len(s) \in Nat
    OBVIOUS
  <2> QED BY <1>1, <2>2, <2>3
<1> QED BY <1>1, <1>4, <1>5

(***************************************************************************)
(* The plans.                                                              *)
(***************************************************************************)
Steps ==
    {Step(op, obj) : op \in {"apply", "delete", "issue", "revoke"}, obj \in Objects}
    \cup {Step("check", what) : what \in {"precheck", "creds", "certificate"}}
    \cup {Step("wait", c) : c \in Controllers}
    \cup {Step("warn", "nginx"), Step("release", "cr")}

\* The steps a plan that deploys m may have: the ones that apply a
\* certificate touch no workload, and the NGINX ingress controller is not
\* both removed and deployed.
SyncSteps(m) ==
    {s \in Steps :
        /\ s.op \in {"check", "apply", "issue", "wait", "warn"}
        /\ s.op = "issue" => s.obj \notin Mounting \cup {"nginx"}
        /\ s.op = "apply" /\ s.obj = "nginx" => ~DeploysGateway(m)
        /\ s.op = "warn" => DeploysGateway(m)}

DeleteGateway == Step("delete", "gateway")
DeleteDataPlane == Step("delete", "dataPlane")

\* A plan that deletes the Gateway deletes the data plane after it.
Followed ==
    {p \in Seq(Steps) :
        \A i \in DOMAIN p : p[i] = DeleteGateway =>
            \E j \in DOMAIN p : j > i /\ p[j] = DeleteDataPlane}

\* And it deletes the data plane only with the Gateway.
Paired == {p \in Followed : DeleteDataPlane \in Range(p) => DeleteGateway \in Range(p)}

RemovalSteps ==
    {s \in Steps :
        /\ s.op \in {"check", "delete", "revoke"}
        /\ s.op = "revoke" => s.obj # "dataPlane"}

\* The finalizer is the last thing to go.
ReleasedLast == {p \in Seq(Steps) : \A i \in DOMAIN p : p[i].op = "release" => i = Len(p)}

LEMMA StepFields ==
    \A op, obj : Step(op, obj).op = op /\ Step(op, obj).obj = obj
BY DEF Step

LEMMA WhenSteps ==
    ASSUME NEW S, NEW c \in BOOLEAN, NEW s, c => s \in Seq(S)
    PROVE  When(c, s) \in Seq(S)
BY DEF When

LEMMA OneStep ==
    ASSUME NEW S, NEW s \in S
    PROVE  <<s>> \in Seq(S)
OBVIOUS

\* Objects applied or deleted in turn.
LEMMA ObjsSteps ==
    ASSUME NEW S, NEW d \in BOOLEAN, NEW objs \in Seq(Objects),
           \A o \in Range(objs) : Step(IF d THEN "delete" ELSE "apply", o) \in S
    PROVE  /\ Objs(d, objs) \in Seq(S)
           /\ DOMAIN Objs(d, objs) = DOMAIN objs
           /\ \A i \in DOMAIN objs :
                  Objs(d, objs)[i] = Step(IF d THEN "delete" ELSE "apply", objs[i])
<1> DEFINE Op == IF d THEN "delete" ELSE "apply"
<1>1. \A i \in DOMAIN objs : Step(Op, objs[i]) \in S
  BY DEF Range
<1>2. Objs(d, objs) = [i \in DOMAIN objs |-> Step(Op, objs[i])]
  BY DEF Objs
<1>3. DOMAIN objs = 1..Len(objs) /\ Len(objs) \in Nat
  OBVIOUS
<1> HIDE DEF Op
<1>4. [i \in 1..Len(objs) |-> Step(Op, objs[i])] \in Seq(S)
  BY <1>1, <1>3
<1> QED BY <1>2, <1>3, <1>4 DEF Op

LEMMA OneObject ==
    ASSUME NEW S, NEW d \in BOOLEAN, NEW o \in Objects,
           Step(IF d THEN "delete" ELSE "apply", o) \in S
    PROVE  /\ Objs(d, <<o>>) \in Seq(S)
           /\ Objs(d, <<o>>) = <<Step(IF d THEN "delete" ELSE "apply", o)>>
BY DEF Objs

LEMMA TwoOrThreeObjects ==
    ASSUME NEW S, NEW d \in BOOLEAN, NEW a \in Objects, NEW b \in Objects, NEW c \in Objects,
           \A o \in {a, b, c} : Step(IF d THEN "delete" ELSE "apply", o) \in S
    PROVE  Objs(d, <<a, b>>) \in Seq(S) /\ Objs(d, <<a, b, c>>) \in Seq(S)
<1>1. Range(<<a, b, c>>) = {a, b, c} /\ Range(<<a, b>>) = {a, b}
  BY RangeOfTuples
<1>2. <<a, b, c>> \in Seq(Objects) /\ <<a, b>> \in Seq(Objects)
  OBVIOUS
<1>3. \A o \in Range(<<a, b, c>>) : Step(IF d THEN "delete" ELSE "apply", o) \in S
  BY <1>1
<1>4. \A o \in Range(<<a, b>>) : Step(IF d THEN "delete" ELSE "apply", o) \in S
  BY <1>1
<1>5. Objs(d, <<a, b, c>>) \in Seq(S)
  BY <1>2, <1>3, ObjsSteps
<1>6. Objs(d, <<a, b>>) \in Seq(S)
  BY <1>2, <1>4, ObjsSteps
<1> QED BY <1>5, <1>6

\* What is the same for all modules and is no ingress controller.
LEMMA CommonPieces ==
    ASSUME NEW S, NEW d \in BOOLEAN, NEW m \in ModuleType, OpenShift \in BOOLEAN,
           \A o \in Objects \ {"nginx", "gateway", "dataPlane"} :
               Step(IF d THEN "delete" ELSE "apply", o) \in S,
           \A o \in {"gatewayCert", "issuer", "karaviAuth"} :
               Step(IF d THEN "revoke" ELSE "issue", o) \in S,
           \A what \in {"precheck", "creds", "certificate"} : Step("check", what) \in S,
           ~d => \A c \in Controllers : Step("wait", c) \in S
    PROVE  /\ CommonCertManager(d) \in Seq(S)
           /\ AuthorizationServerDeployment(d) \o Objs(d, <<"policies">>) \in Seq(S)
           /\ AuthorizationIngress(d, m) \in Seq(S)
           /\ InstallWithCerts(d, m) \in Seq(S)
           /\ Certs(d, "gatewayCert") \in Seq(S)
<1>0. \A o \in Objects \ {"nginx", "gateway", "dataPlane"} : Objs(d, <<o>>) \in Seq(S)
  <2> TAKE o \in Objects \ {"nginx", "gateway", "dataPlane"}
  <2>1. o \in Objects /\ Step(IF d THEN "delete" ELSE "apply", o) \in S
    OBVIOUS
  <2> QED BY <2>1, OneObject
<1>1. CommonCertManager(d) \in Seq(S)
  <2>1. Objs(d, <<"certManager">>) \in Seq(S)
    BY <1>0 DEF Objects
  <2>2. ~d => Step("apply", "certCRDs") \in S
    BY DEF Objects
  <2>3. When(~d, <<Step("apply", "certCRDs")>>) \in Seq(S)
    BY <2>2 DEF When
  <2> QED BY <2>1, <2>3, ConcatRange DEF CommonCertManager
<1>2. AuthorizationServerDeployment(d) \o Objs(d, <<"policies">>) \in Seq(S)
  <2>1. /\ Objs(d, <<"server">>) \in Seq(S) /\ ProxyServer(d) \in Seq(S)
        /\ TenantService(d) \in Seq(S) /\ Objs(d, <<"storageService">>) \in Seq(S)
        /\ Objs(d, <<"policies">>) \in Seq(S)
    BY <1>0 DEF Objects, ProxyServer, TenantService
  <2>2. RedisWorkloads(d) \in Seq(S)
    <3>1. {"redis", "rediscommander", "sentinel"}
              \subseteq Objects \ {"nginx", "gateway", "dataPlane"}
      BY DEF Objects
    <3>2. \A o \in {"redis", "rediscommander", "sentinel"} :
              Step(IF d THEN "delete" ELSE "apply", o) \in S
      BY <3>1
    <3> QED BY <3>1, <3>2, TwoOrThreeObjects DEF RedisWorkloads
  <2>3. <<Step("check", "creds")>> \in Seq(S)
    OBVIOUS
  <2>4. StorageService(d) \in Seq(S)
    BY <2>1, <2>3, ConcatRange DEF StorageService
  <2>5. Objs(d, <<"server">>) \o RedisWorkloads(d) \in Seq(S)
    BY <2>1, <2>2, ConcatRange
  <2>6. Objs(d, <<"server">>) \o RedisWorkloads(d) \o ProxyServer(d) \in Seq(S)
    BY <2>1, <2>5, ConcatRange
  <2>7. Objs(d, <<"server">>) \o RedisWorkloads(d) \o ProxyServer(d) \o TenantService(d) \in Seq(S)
    BY <2>1, <2>6, ConcatRange
  <2>8. AuthorizationServerDeployment(d) \in Seq(S)
    BY <2>7, <2>4, ConcatRange DEF AuthorizationServerDeployment
  <2> QED BY <2>8, <2>1, ConcatRange
<1>3. AuthorizationIngress(d, m) \in Seq(S)
  <2>1. Objs(d, <<"httpRoute">>) \in Seq(S) /\ Objs(d, <<"ingress">>) \in Seq(S)
    BY <1>0 DEF Objects
  <2>2. ~d => Step("wait", "gatewayCtl") \in S /\ Step("wait", "nginx") \in S
    BY DEF Controllers
  <2>3. When(~d, <<Step("wait", "gatewayCtl")>>) \in Seq(S)
    BY <2>2 DEF When
  <2>4. When(~d /\ ~OpenShift, <<Step("wait", "nginx")>>) \in Seq(S)
    BY <2>2 DEF When
  <2>5. AuthorizationHTTPRoute(d) \in Seq(S)
    BY <2>1, <2>3, ConcatRange DEF AuthorizationHTTPRoute
  <2>6. When(~d /\ ~OpenShift, <<Step("wait", "nginx")>>) \o Objs(d, <<"ingress">>) \in Seq(S)
    BY <2>1, <2>4, ConcatRange
  <2> QED BY <2>5, <2>6 DEF AuthorizationIngress
<1>4. \A o \in {"gatewayCert", "issuer", "karaviAuth"} : Certs(d, o) \in Seq(S)
  BY DEF Certs
<1>5. InstallWithCerts(d, m) \in Seq(S)
  <2>1. <<Step("check", "certificate")>> \in Seq(S)
    OBVIOUS
  <2>2. Objs(d, <<"customCert">>) \in Seq(S)
    BY <1>0 DEF Objects
  <2>3. Certs(d, "issuer") \o Certs(d, "karaviAuth") \in Seq(S)
    BY <1>4, ConcatRange
  <2>4. (IF m.custom = 0 THEN Certs(d, "issuer") \o Certs(d, "karaviAuth")
                         ELSE Objs(d, <<"customCert">>)) \in Seq(S)
    BY <2>2, <2>3
  <2> QED BY <2>1, <2>4, ConcatRange DEF InstallWithCerts
<1> QED BY <1>1, <1>2, <1>3, <1>4, <1>5

\* s is a plan of steps in S, and those in must are among them.
Made(S, s, must) == s \in Seq(S) /\ must \subseteq Range(s)

LEMMA MadeConcat ==
    ASSUME NEW S, NEW s, NEW t, NEW P, NEW Q, Made(S, s, P), Made(S, t, Q)
    PROVE  Made(S, s \o t, P \cup Q)
<1>1. s \in Seq(S) /\ t \in Seq(S) /\ P \subseteq Range(s) /\ Q \subseteq Range(t)
  BY DEF Made
<1>2. s \o t \in Seq(S) /\ Range(s \o t) = Range(s) \cup Range(t)
  BY <1>1, ConcatRange
<1> HIDE DEF Made
<1>3. P \cup Q \subseteq Range(s \o t)
  BY <1>1, <1>2
<1> QED BY <1>2, <1>3 DEF Made

LEMMA MadeOne ==
    ASSUME NEW S, NEW e \in S
    PROVE  Made(S, <<e>>, {e})
<1>1. <<e>> \in Seq(S)
  OBVIOUS
<1>2. Range(<<e>>) = {e}
  BY RangeOfTuples
<1> QED BY <1>1, <1>2 DEF Made

LEMMA MadeFacts ==
    ASSUME NEW S, NEW s
    PROVE  /\ s \in Seq(S) => Made(S, s, {})
           /\ \A P, Q : Made(S, s, P) /\ Q \subseteq P => Made(S, s, Q)
           /\ \A P : Made(S, s, P) => s \in Seq(S) /\ P \subseteq Range(s)
BY DEF Made

\* The plan of SyncModule.
LEMMA SyncPlanSteps ==
    ASSUME NEW m \in ModuleType, OpenShift \in BOOLEAN
    PROVE  /\ SyncPlan(m) \in Seq(SyncSteps(m))
           /\ DeploysGateway(m) => Step("warn", "nginx") \in Range(SyncPlan(m))
           /\ "proxy-server" \in m.comps =>
                  \A o \in Mounting : Step("apply", o) \in Range(SyncPlan(m))
           /\ SyncPlan(m) # << >>
<1> DEFINE S == SyncSteps(m)
<1>1. /\ \A o \in Objects \ {"nginx"} : Step("apply", o) \in S
      /\ \A o \in {"gatewayCert", "issuer", "karaviAuth"} : Step("issue", o) \in S
      /\ \A what \in {"precheck", "creds", "certificate"} : Step("check", what) \in S
      /\ \A c \in Controllers : Step("wait", c) \in S
  BY StepFields DEF SyncSteps, Steps, Mounting, Objects
<1>2. /\ DeploysGateway(m) => Step("warn", "nginx") \in S
      /\ ~DeploysGateway(m) => Step("apply", "nginx") \in S
  BY StepFields DEF SyncSteps, Steps, Objects
<1> HIDE DEF S
<1>3. /\ CommonCertManager(FALSE) \in Seq(S)
      /\ AuthorizationServerDeployment(FALSE) \o Objs(FALSE, <<"policies">>) \in Seq(S)
      /\ AuthorizationIngress(FALSE, m) \in Seq(S)
      /\ InstallWithCerts(FALSE, m) \in Seq(S)
      /\ Certs(FALSE, "gatewayCert") \in Seq(S)
  BY <1>1, CommonPieces
<1>4. Made(S, When(~OpenShift, IngressController(FALSE, m)), {x \in {Step("warn", "nginx")} : DeploysGateway(m)})
  <2>1. CASE DeploysGateway(m)
    <3>1. <<"gatewayCtl", "gateway">> \o When(FALSE, <<"dataPlane">>) = <<"gatewayCtl", "gateway">>
      BY DEF When
    <3>2. Objs(FALSE, <<"gatewayCtl", "gateway">>) \in Seq(S)
      <4>1. \A o \in {"gatewayCtl", "gateway", "dataPlane"} : o \in Objects /\ Step("apply", o) \in S
        BY <1>1 DEF Objects
      <4> QED BY <4>1, TwoOrThreeObjects
    <3>3. Made(S, GatewayController(FALSE), {})
      <4>1. Made(S, Certs(FALSE, "gatewayCert"), {}) /\ Made(S, Objs(FALSE, <<"gatewayCtl", "gateway">>), {})
        BY <1>3, <3>2, MadeFacts
      <4>2. Made(S, Certs(FALSE, "gatewayCert") \o Objs(FALSE, <<"gatewayCtl", "gateway">>), {} \cup {})
        BY <4>1, MadeConcat
      <4> QED BY <3>1, <4>2, MadeFacts DEF GatewayController
    <3>4. Made(S, <<Step("warn", "nginx")>>, {Step("warn", "nginx")})
      BY <1>2, <2>1, MadeOne
    <3>5. When(~OpenShift, IngressController(FALSE, m))
              = <<Step("warn", "nginx")>> \o GatewayController(FALSE)
      BY <2>1 DEF DeploysGateway, IngressController, When, NginxIngressControllerCleanup
    <3>6. Made(S, When(~OpenShift, IngressController(FALSE, m)), {Step("warn", "nginx")} \cup {})
      <4>1. Made(S, <<Step("warn", "nginx")>> \o GatewayController(FALSE), {Step("warn", "nginx")} \cup {})
        BY <3>3, <3>4, MadeConcat
      <4> QED BY <3>5, <4>1, Zenon
    <3> QED BY <2>1, <3>6, MadeFacts
  <2>2. CASE ~DeploysGateway(m)
    <3>1. Objs(FALSE, <<"nginx">>) \in Seq(S)
      BY <1>2, <2>2, OneObject DEF Objects
    <3>2. \/ When(~OpenShift, IngressController(FALSE, m)) = << >>
          \/ When(~OpenShift, IngressController(FALSE, m)) = Objs(FALSE, <<"nginx">>)
      BY <2>2 DEF DeploysGateway, IngressController, When, NginxIngressController
    <3>3. << >> \in Seq(S)
      OBVIOUS
    <3>4. Made(S, When(~OpenShift, IngressController(FALSE, m)), {})
      BY <3>1, <3>2, <3>3, MadeFacts
    <3> QED BY <2>2, <3>4, MadeFacts
  <2> QED BY <2>1, <2>2
<1> DEFINE Mounts == {Step("apply", o) : o \in Mounting}
<1>5. Made(S, AuthorizationServerDeployment(FALSE) \o Objs(FALSE, <<"policies">>), Mounts)
  <2>1. \A o \in {"server", "proxyServer", "tenantService", "storageService", "policies"} :
            Objs(FALSE, <<o>>) \in Seq(S) /\ Objs(FALSE, <<o>>) = <<Step("apply", o)>>
    <3> SUFFICES ASSUME NEW o \in {"server", "proxyServer", "tenantService", "storageService", "policies"}
                 PROVE  Objs(FALSE, <<o>>) \in Seq(S) /\ Objs(FALSE, <<o>>) = <<Step("apply", o)>>
      OBVIOUS
    <3>1. o \in Objects /\ Step("apply", o) \in S
      BY <1>1 DEF Objects
    <3> QED BY <3>1, OneObject
  <2>2. Step("apply", "proxyServer") \in S /\ Step("apply", "tenantService") \in S
    BY <1>1 DEF Objects
  <2>3. /\ Made(S, ProxyServer(FALSE), {Step("apply", "proxyServer")})
        /\ Made(S, TenantService(FALSE), {Step("apply", "tenantService")})
    <3>1. ProxyServer(FALSE) = <<Step("apply", "proxyServer")>>
          /\ TenantService(FALSE) = <<Step("apply", "tenantService")>>
      BY <2>1 DEF ProxyServer, TenantService
    <3> QED BY <2>2, <3>1, MadeOne
  <2>4. Made(S, RedisWorkloads(FALSE), {})
    <3>1. \A o \in {"redis", "rediscommander", "sentinel"} : o \in Objects /\ Step("apply", o) \in S
      BY <1>1 DEF Objects
    <3>2. RedisWorkloads(FALSE) \in Seq(S)
      BY <3>1, TwoOrThreeObjects DEF RedisWorkloads
    <3> QED BY <3>2, MadeFacts
  <2>5. Made(S, StorageService(FALSE), {Step("check", "creds")} \cup {})
    <3>1. Made(S, <<Step("check", "creds")>>, {Step("check", "creds")})
      BY <1>1, MadeOne
    <3>2. Made(S, Objs(FALSE, <<"storageService">>), {})
      BY <2>1, MadeFacts
    <3> QED BY <3>1, <3>2, MadeConcat DEF StorageService
  <2>6. Made(S, Objs(FALSE, <<"server">>), {}) /\ Made(S, Objs(FALSE, <<"policies">>), {})
    BY <2>1, MadeFacts
  <2> DEFINE P1 == Objs(FALSE, <<"server">>) \o RedisWorkloads(FALSE)
             P2 == P1 \o ProxyServer(FALSE)
             P3 == P2 \o TenantService(FALSE)
             P4 == P3 \o StorageService(FALSE)
             P5 == P4 \o Objs(FALSE, <<"policies">>)
             M2 == ({} \cup {}) \cup {Step("apply", "proxyServer")}
             M3 == M2 \cup {Step("apply", "tenantService")}
             M4 == M3 \cup ({Step("check", "creds")} \cup {})
             M5 == M4 \cup {}
  <2>7. AuthorizationServerDeployment(FALSE) = P4
    BY DEF AuthorizationServerDeployment
  <2>8. Mounts \subseteq M5
    BY DEF Mounting
  <2>9. Made(S, P1, {} \cup {})
    BY <2>4, <2>6, MadeConcat
  <2>10. Made(S, P2, M2)
    <3> HIDE DEF P1
    <3> QED BY <2>3, <2>9, MadeConcat
  <2>11. Made(S, P3, M3)
    <3> HIDE DEF P2, M2
    <3> QED BY <2>3, <2>10, MadeConcat
  <2>12. Made(S, P4, M4)
    <3> HIDE DEF P3, M3
    <3> QED BY <2>5, <2>11, MadeConcat
  <2>13. Made(S, P5, M5)
    <3> HIDE DEF P4, M4
    <3> QED BY <2>6, <2>12, MadeConcat
  <2>14. Made(S, P5, Mounts)
    <3> HIDE DEF P5, M5, Mounts
    <3> QED BY <2>8, <2>13, MadeFacts
  <2> HIDE DEF P4, Mounts
  <2> QED BY <2>7, <2>14
<1> DEFINE Cm == When("cert-manager" \in m.comps, CommonCertManager(FALSE))
           Ps == When("proxy-server" \in m.comps,
                      AuthorizationServerDeployment(FALSE) \o Objs(FALSE, <<"policies">>))
           Ic == When(~OpenShift, IngressController(FALSE, m))
           Ai == When("proxy-server" \in m.comps, AuthorizationIngress(FALSE, m))
           Ca == InstallWithCerts(FALSE, m)
           Pre == <<Step("check", "precheck")>>
                  \o When("proxy-server" \in m.comps, <<Step("apply", "authCRDs")>>)
           Warns == {x \in {Step("warn", "nginx")} : DeploysGateway(m)}
           Pods == {x \in Mounts : "proxy-server" \in m.comps}
<1>6. Made(S, Cm, {}) /\ Made(S, Ps, Pods) /\ Made(S, Ic, Warns) /\ Made(S, Ai, {}) /\ Made(S, Ca, {})
  <2>0. Made(S, << >>, {})
    <3>1. << >> \in Seq(S)
      OBVIOUS
    <3> QED BY <3>1, MadeFacts
  <2>1. \A c, s : Made(S, s, {}) => Made(S, When(c, s), {})
    BY <2>0 DEF When
  <2>2. /\ Made(S, CommonCertManager(FALSE), {}) /\ Made(S, AuthorizationIngress(FALSE, m), {})
        /\ Made(S, InstallWithCerts(FALSE, m), {})
    BY <1>3, MadeFacts
  <2>3. Made(S, Ps, Pods)
    <3> HIDE DEF Mounts
    <3>1. CASE "proxy-server" \in m.comps
      <4>1. Pods = Mounts
        BY <3>1
      <4> QED BY <3>1, <1>5, <4>1 DEF When
    <3>2. CASE "proxy-server" \notin m.comps
      <4>1. Pods = {}
        BY <3>2
      <4> QED BY <3>2, <2>0, <4>1 DEF When
    <3> QED BY <3>1, <3>2
  <2> QED BY <1>4, <2>1, <2>2, <2>3
<1>7. Made(S, Pre, {Step("check", "precheck")} \cup {})
  <2>1. Made(S, <<Step("check", "precheck")>>, {Step("check", "precheck")})
    BY <1>1, MadeOne
  <2>2. When("proxy-server" \in m.comps, <<Step("apply", "authCRDs")>>) \in Seq(S)
    BY <1>1 DEF When, Objects
  <2>3. Made(S, When("proxy-server" \in m.comps, <<Step("apply", "authCRDs")>>), {})
    BY <2>2, MadeFacts
  <2> QED BY <2>1, <2>3, MadeConcat
<1> DEFINE R1 == Cm \o Ps
           R2 == R1 \o Ic
           R3 == R2 \o Ai
           R4 == R3 \o Ca
           N4 == ((({} \cup Pods) \cup Warns) \cup {}) \cup {}
<1>8. SyncPlan(m) = Pre \o R4
  BY DEF SyncPlan, reconcileAuthorization
<1> HIDE DEF Cm, Ps, Ic, Ai, Ca, Pre, Warns, Pods
<1>9. Made(S, R1, {} \cup Pods)
  BY <1>6, MadeConcat
<1> HIDE DEF R1
<1>10. Made(S, R2, ({} \cup Pods) \cup Warns)
  BY <1>6, <1>9, MadeConcat
<1> HIDE DEF R2
<1>11. Made(S, R3, (({} \cup Pods) \cup Warns) \cup {})
  BY <1>6, <1>10, MadeConcat
<1> HIDE DEF R3
<1>12. Made(S, R4, N4)
  BY <1>6, <1>11, MadeConcat
<1> HIDE DEF R4
<1>13. Pods \subseteq N4 /\ Warns \subseteq N4
  OBVIOUS
<1> HIDE DEF N4
<1>14. Made(S, SyncPlan(m), ({Step("check", "precheck")} \cup {}) \cup N4)
  BY <1>7, <1>8, <1>12, MadeConcat
<1>15. /\ SyncPlan(m) \in Seq(S)
       /\ ({Step("check", "precheck")} \cup {}) \cup N4 \subseteq Range(SyncPlan(m))
  BY <1>14, MadeFacts
<1>16. SyncPlan(m) # << >>
  <2>1. Step("check", "precheck") \in Range(SyncPlan(m))
    BY <1>15
  <2> QED BY <1>15, <2>1, RangeType
<1>17. DeploysGateway(m) => Step("warn", "nginx") \in Range(SyncPlan(m))
  BY <1>13, <1>15 DEF Warns
<1>18. "proxy-server" \in m.comps => \A o \in Mounting : Step("apply", o) \in Range(SyncPlan(m))
  BY <1>13, <1>15 DEF Pods
<1> QED BY <1>15, <1>16, <1>17, <1>18 DEF S

\* Plans that delete the data plane after the Gateway make such a plan.
LEMMA PairedConcat ==
    ASSUME NEW s \in Paired, NEW t \in Paired
    PROVE  s \o t \in Paired
<1>1. s \in Seq(Steps) /\ t \in Seq(Steps)
  BY DEF Paired, Followed
<1>2. s \o t \in Seq(Steps) /\ Range(s \o t) = Range(s) \cup Range(t)
  BY <1>1, ConcatRange
<1>3. ASSUME NEW i \in DOMAIN (s \o t), (s \o t)[i] = DeleteGateway
      PROVE  \E j \in DOMAIN (s \o t) : j > i /\ (s \o t)[j] = DeleteDataPlane
  <2>1. CASE i \in DOMAIN s
    <3>1. s[i] = DeleteGateway
      BY <1>1, <1>3, <2>1
    <3>2. PICK j \in DOMAIN s : j > i /\ s[j] = DeleteDataPlane
      BY <2>1, <3>1 DEF Paired, Followed
    <3>3. j \in DOMAIN (s \o t) /\ (s \o t)[j] = s[j]
      BY <1>1
    <3> QED BY <3>2, <3>3
  <2>2. CASE i \notin DOMAIN s
    <3>1. i - Len(s) \in DOMAIN t /\ t[i - Len(s)] = DeleteGateway /\ Len(s) \in Nat /\ i \in Nat
      BY <1>1, <1>3, <2>2
    <3>2. PICK j \in DOMAIN t : j > i - Len(s) /\ t[j] = DeleteDataPlane
      BY <3>1 DEF Paired, Followed
    <3>3. Len(s) + j \in DOMAIN (s \o t) /\ (s \o t)[Len(s) + j] = t[j] /\ j \in Nat
      BY <1>1
    <3>4. Len(s) + j > i
      BY <3>1, <3>2, <3>3
    <3> QED BY <3>2, <3>3, <3>4
  <2> QED BY <2>1, <2>2
<1>4. DeleteDataPlane \in Range(s \o t) => DeleteGateway \in Range(s \o t)
  BY <1>2 DEF Paired, Followed
<1> QED BY <1>2, <1>3, <1>4 DEF Paired, Followed

LEMMA PairedPlain == Seq(Steps \ {DeleteGateway, DeleteDataPlane}) \subseteq Paired
<1> SUFFICES ASSUME NEW p \in Seq(Steps \ {DeleteGateway, DeleteDataPlane})
             PROVE  p \in Paired
  OBVIOUS
<1>1. p \in Seq(Steps) /\ \A i \in DOMAIN p : p[i] \notin {DeleteGateway, DeleteDataPlane}
  OBVIOUS
<1>2. DeleteDataPlane \notin Range(p)
  BY <1>1 DEF Range
<1> QED BY <1>1, <1>2 DEF Paired, Followed

\* The plan of removeModule.
LEMMA RemovalPlanSteps ==
    ASSUME NEW m \in ModuleType, OpenShift \in BOOLEAN
    PROVE  /\ RemovalPlan(m) \in Paired /\ RemovalPlan(m) # << >>
           /\ Range(RemovalPlan(m)) \subseteq RemovalSteps \cup {Step("release", "cr")}
           /\ RemovalPlan(m) \in ReleasedLast
<1> DEFINE Plain == RemovalSteps \ {DeleteGateway, DeleteDataPlane}
           Good == Paired \cap Seq(RemovalSteps)
<1>1. \A s, t \in Good : s \o t \in Good
  BY PairedConcat, ConcatRange
<1>2. Seq(Plain) \subseteq Good
  <2>1. Plain \subseteq Steps \ {DeleteGateway, DeleteDataPlane} /\ Plain \subseteq RemovalSteps
    BY DEF RemovalSteps
  <2> HIDE DEF Plain
  <2>2. Seq(Plain) \subseteq Seq(Steps \ {DeleteGateway, DeleteDataPlane})
    BY <2>1
  <2>3. Seq(Plain) \subseteq Seq(RemovalSteps)
    BY <2>1
  <2> QED BY <2>2, <2>3, PairedPlain
<1>3. /\ \A o \in Objects \ {"gateway", "dataPlane"} : Step("delete", o) \in Plain
      /\ \A o \in {"gatewayCert", "issuer", "karaviAuth"} : Step("revoke", o) \in Plain
      /\ \A what \in {"precheck", "creds", "certificate"} : Step("check", what) \in Plain
  BY StepFields DEF RemovalSteps, Steps, Objects, DeleteGateway, DeleteDataPlane
<1>4. DeleteGateway \in RemovalSteps /\ DeleteDataPlane \in RemovalSteps
  BY StepFields DEF RemovalSteps, Steps, Objects, DeleteGateway, DeleteDataPlane
<1> HIDE DEF Plain
<1>5. /\ CommonCertManager(TRUE) \in Good
      /\ AuthorizationServerDeployment(TRUE) \o Objs(TRUE, <<"policies">>) \in Good
      /\ AuthorizationIngress(TRUE, m) \in Good
      /\ InstallWithCerts(TRUE, m) \in Good
      /\ Certs(TRUE, "gatewayCert") \in Good
  <2>1. /\ CommonCertManager(TRUE) \in Seq(Plain)
        /\ AuthorizationServerDeployment(TRUE) \o Objs(TRUE, <<"policies">>) \in Seq(Plain)
        /\ AuthorizationIngress(TRUE, m) \in Seq(Plain)
        /\ InstallWithCerts(TRUE, m) \in Seq(Plain)
        /\ Certs(TRUE, "gatewayCert") \in Seq(Plain)
    BY <1>3, CommonPieces
  <2> QED BY <2>1, <1>2
<1>6. Objs(TRUE, <<"gatewayCtl", "gateway">> \o When(TRUE, <<"dataPlane">>)) \in Good
  <2> DEFINE q == <<"gatewayCtl", "gateway">> \o <<"dataPlane">>
             p == Objs(TRUE, q)
  <2>1. <<"gatewayCtl", "gateway">> \o When(TRUE, <<"dataPlane">>) = q
    BY DEF When
  <2>2. /\ q \in Seq(Objects) /\ DOMAIN q = 1..3
        /\ q[1] = "gatewayCtl" /\ q[2] = "gateway" /\ q[3] = "dataPlane"
    <3>1. <<"gatewayCtl", "gateway">> \in Seq(Objects) /\ <<"dataPlane">> \in Seq(Objects)
      BY DEF Objects
    <3> QED BY <3>1
  <2> HIDE DEF q
  <2>3. \A o \in Range(q) : Step("delete", o) \in RemovalSteps
    <3>1. Range(q) = {"gatewayCtl", "gateway", "dataPlane"}
      BY <2>2 DEF Range
    <3> QED BY <3>1, StepFields DEF RemovalSteps, Steps, Objects
  <2>4. /\ p \in Seq(RemovalSteps) /\ DOMAIN p = 1..3
        /\ \A i \in DOMAIN q : p[i] = Step("delete", q[i])
    BY <2>2, <2>3, ObjsSteps
  <2> HIDE DEF p
  <2>5. p \in Seq(Steps)
    BY <2>4 DEF RemovalSteps
  <2>6. p[2] = DeleteGateway /\ p[3] = DeleteDataPlane /\ p[1] = Step("delete", "gatewayCtl")
    BY <2>2, <2>4 DEF DeleteGateway, DeleteDataPlane
  <2>7. p[1] # DeleteGateway /\ p[3] # DeleteGateway
    BY <2>6, StepFields DEF DeleteGateway, DeleteDataPlane
  <2>8. DeleteGateway \in Range(p)
    BY <2>4, <2>6 DEF Range
  <2>9. p \in Paired
    BY <2>4, <2>5, <2>6, <2>7, <2>8 DEF Paired, Followed
  <2> QED BY <2>1, <2>4, <2>9 DEF p
<1>7. GatewayController(TRUE) \in Good /\ Objs(TRUE, <<"nginx">>) \in Good
  <2>1. Objs(TRUE, <<"nginx">>) \in Seq(Plain)
    BY <1>3, OneObject DEF Objects
  <2> QED BY <2>1, <1>1, <1>2, <1>5, <1>6 DEF GatewayController
<1>8. << >> \in Good
  <2>1. << >> \in Seq(Plain)
    OBVIOUS
  <2> QED BY <2>1, <1>2
<1>9. When(~OpenShift, IngressController(TRUE, m)) \in Good
  <2>1. << >> \o GatewayController(TRUE) \in Good
    BY <1>1, <1>7, <1>8
  <2> HIDE DEF Good
  <2> QED BY <2>1, <1>7, <1>8 DEF IngressController, When, NginxIngressController
<1> HIDE DEF Good
<1>10. \A c, s : s \in Good => When(c, s) \in Good
  BY <1>8 DEF When
<1>11. reconcileAuthorization(TRUE, m) \in Good
  BY <1>1, <1>5, <1>9, <1>10 DEF reconcileAuthorization
<1>12. <<Step("check", "precheck")>> \in Good
  <2>1. <<Step("check", "precheck")>> \in Seq(Plain)
    BY <1>3
  <2> QED BY <2>1, <1>2
<1> DEFINE b == <<Step("check", "precheck")>> \o When(m.force, reconcileAuthorization(TRUE, m))
<1>13. b \in Good
  BY <1>1, <1>10, <1>11, <1>12
<1>14. RemovalPlan(m) = b \o <<Step("release", "cr")>>
  BY DEF RemovalPlan
<1> HIDE DEF b
<1>15. <<Step("release", "cr")>> \in Paired
  <2>1. Step("release", "cr") \in Steps \ {DeleteGateway, DeleteDataPlane}
    BY StepFields DEF Steps, DeleteGateway, DeleteDataPlane
  <2>2. <<Step("release", "cr")>> \in Seq(Steps \ {DeleteGateway, DeleteDataPlane})
    BY <2>1
  <2> QED BY <2>2, PairedPlain
<1>16. RemovalPlan(m) \in Paired
  BY <1>13, <1>14, <1>15, PairedConcat DEF Good
<1>17. /\ b \in Seq(Steps) /\ b \in Seq(RemovalSteps)
       /\ <<Step("release", "cr")>> \in Seq(Steps)
  BY <1>13, <1>15 DEF Good, Paired, Followed
<1>18. /\ Range(b) \subseteq RemovalSteps
       /\ Range(<<Step("release", "cr")>>) = {Step("release", "cr")}
       /\ Range(RemovalPlan(m)) = Range(b) \cup Range(<<Step("release", "cr")>>)
  <2>1. Range(b) \subseteq RemovalSteps
    BY <1>17, RangeType
  <2>2. Range(<<Step("release", "cr")>>) = {Step("release", "cr")}
    BY RangeOfTuples
  <2>3. Range(RemovalPlan(m)) = Range(b) \cup Range(<<Step("release", "cr")>>)
    <3> DEFINE r == <<Step("release", "cr")>>
    <3>1. r \in Seq(Steps) /\ RemovalPlan(m) = b \o r
      BY <1>14, <1>17
    <3> HIDE DEF r
    <3>2. Range(b \o r) = Range(b) \cup Range(r)
      BY <1>17, <3>1, ConcatRange
    <3> QED BY <3>1, <3>2, Zenon DEF r
  <2> QED BY <2>1, <2>2, <2>3
<1>19. RemovalPlan(m) # << >>
  BY <1>14, <1>17
<1>20. ASSUME NEW i \in DOMAIN RemovalPlan(m), RemovalPlan(m)[i].op = "release"
       PROVE  i = Len(RemovalPlan(m))
  <2>1. Len(RemovalPlan(m)) = Len(b) + 1 /\ Len(b) \in Nat
    BY <1>14, <1>17
  <2>2. i \in DOMAIN b => RemovalPlan(m)[i] = b[i]
    BY <1>14, <1>17
  <2>3. \A j \in DOMAIN b : b[j] \in RemovalSteps
    BY <1>17
  <2>4. i \notin DOMAIN b
    BY <1>20, <2>2, <2>3 DEF RemovalSteps
  <2>5. i \in 1..(Len(b) + 1) /\ DOMAIN b = 1..Len(b)
    BY <1>14, <1>17, <2>1
  <2> QED BY <2>1, <2>4, <2>5
<1> QED BY <1>16, <1>18, <1>19, <1>20 DEF ReleasedLast, Paired, Followed

(***************************************************************************)
(* The inductive invariant.                                                *)
(***************************************************************************)
TypeInv == TypeOK /\ plan \in Followed /\ plan \in ReleasedLast

\* The plan Reconcile makes for the CR.
PlanFor(c) == IF c.deleting THEN RemovalPlan(c.module) ELSE SyncPlan(c.module)

\* What step s of a plan for m is there for has been achieved.
Done(m, s) ==
    /\ s.op \in {"apply", "issue"} => s.obj \in cluster
    /\ s.op \in {"delete", "revoke"} /\ s.obj \in cluster => s.obj \in Missed
    /\ s.op = "warn" /\ "nginx" \in cluster => "nginx" \in abandoned
    /\ s.op = "apply" /\ s.obj \in Mounting /\ m.config # "none" =>
           (s.obj \in mounts <=> m.config = "spc")

\* Unless the CR is queued again, the worker is on the plan for the CR as it
\* is, and every step that is not ahead of it is done.
ProgressInv ==
    /\ current = (working /\ ~queued)
    /\ ~cr.exists => cr.deleting /\ ~queued /\ ~working
    /\ ~queued =>
           /\ copy = cr.module
           /\ Range(plan) \subseteq Range(PlanFor(cr))
           /\ \A s \in Range(PlanFor(cr)) \ Range(plan) : Done(cr.module, s)

AuthInv == TypeInv /\ ProgressInv

\* The rest of a plan is a plan.
LEMMA RestOfPlan ==
    ASSUME NEW p \in Followed, p \in ReleasedLast, p # << >>
    PROVE  /\ Head(p) \in Steps /\ Tail(p) \in Followed /\ Tail(p) \in ReleasedLast
           /\ Range(p) = {Head(p)} \cup Range(Tail(p))
           /\ Len(p) = 1 <=> Tail(p) = << >>
           /\ Head(p).op = "release" => Tail(p) = << >>
<1>0. p \in Seq(Steps)
  BY DEF Followed
<1>1. /\ Head(p) \in Steps /\ Tail(p) \in Seq(Steps)
      /\ Range(p) = {Head(p)} \cup Range(Tail(p))
      /\ Len(p) = 1 <=> Tail(p) = << >>
  BY <1>0, TailRange
<1>2. /\ Len(p) \in Nat \ {0} /\ Len(Tail(p)) = Len(p) - 1 /\ Head(p) = p[1] /\ 1 \in DOMAIN p
      /\ DOMAIN p = 1..Len(p) /\ DOMAIN Tail(p) = 1..(Len(p) - 1)
      /\ \A i \in DOMAIN Tail(p) : i + 1 \in DOMAIN p /\ Tail(p)[i] = p[i + 1]
  BY <1>0
<1>3. ASSUME NEW i \in DOMAIN Tail(p), Tail(p)[i] = DeleteGateway
      PROVE  \E j \in DOMAIN Tail(p) : j > i /\ Tail(p)[j] = DeleteDataPlane
  <2>1. i + 1 \in DOMAIN p /\ p[i + 1] = DeleteGateway
    BY <1>2, <1>3
  <2>2. PICK j \in DOMAIN p : j > i + 1 /\ p[j] = DeleteDataPlane
    BY <2>1 DEF Followed
  <2>3. j - 1 \in DOMAIN Tail(p) /\ j - 1 > i /\ (j - 1) + 1 = j
    BY <1>2, <2>2
  <2> QED BY <1>2, <2>2, <2>3
<1>4. ASSUME NEW i \in DOMAIN Tail(p), Tail(p)[i].op = "release"
      PROVE  i = Len(Tail(p))
  <2>1. i + 1 = Len(p)
    BY <1>2, <1>4 DEF ReleasedLast
  <2> QED BY <1>2, <2>1
<1>5. Head(p).op = "release" => Len(p) = 1
  BY <1>2 DEF ReleasedLast
<1> QED BY <1>1, <1>3, <1>4, <1>5 DEF Followed, ReleasedLast

LEMMA EmptyPlan == << >> \in Followed /\ << >> \in ReleasedLast /\ Range(<< >>) = {}
<1>1. << >> \in Seq(Steps) /\ DOMAIN << >> = {}
  OBVIOUS
<1>2. Range(<< >>) = {}
  BY RangeOfTuples
<1> QED BY <1>1, <1>2 DEF Followed, ReleasedLast

\* The plan of the CR, when it is deployed and when it is removed.
LEMMA PlanForCR ==
    ASSUME ConstantsAssumption, NEW c \in [exists : BOOLEAN, deleting : BOOLEAN, module : Specs]
    PROVE  /\ PlanFor(c) \in Followed /\ PlanFor(c) \in ReleasedLast /\ PlanFor(c) # << >>
           /\ ~c.deleting => /\ PlanFor(c) = SyncPlan(c.module)
                             /\ Range(PlanFor(c)) \subseteq SyncSteps(c.module)
           /\ c.deleting =>
                  /\ PlanFor(c) = RemovalPlan(c.module)
                  /\ Range(PlanFor(c)) \subseteq RemovalSteps \cup {Step("release", "cr")}
                  /\ DeleteDataPlane \in Range(PlanFor(c)) => DeleteGateway \in Range(PlanFor(c))
<1>1. c.module \in ModuleType /\ OpenShift \in BOOLEAN /\ c.deleting \in BOOLEAN
  BY DEF ConstantsAssumption
<1>2. CASE ~c.deleting
  <2> DEFINE p == SyncPlan(c.module)
             S == SyncSteps(c.module)
  <2>1. p \in Seq(S) /\ p # << >>
    BY <1>1, SyncPlanSteps
  <2>2. \A s \in S : s \in Steps /\ s # DeleteGateway /\ s.op # "release"
    BY StepFields DEF SyncSteps, DeleteGateway
  <2>3. PlanFor(c) = p
    BY <1>2 DEF PlanFor
  <2> HIDE DEF p, S
  <2>4. p \in Seq(Steps) /\ \A i \in DOMAIN p : p[i] \in S
    BY <2>1, <2>2
  <2>5. p \in Followed /\ p \in ReleasedLast
    BY <2>2, <2>4 DEF Followed, ReleasedLast
  <2>6. Range(p) \subseteq S
    BY <2>1, RangeType
  <2> QED BY <1>2, <2>1, <2>3, <2>5, <2>6 DEF p, S
<1>3. CASE c.deleting
  <2> DEFINE p == RemovalPlan(c.module)
  <2>1. p \in Paired /\ p # << >> /\ p \in ReleasedLast
        /\ Range(p) \subseteq RemovalSteps \cup {Step("release", "cr")}
    BY <1>1, RemovalPlanSteps
  <2>2. PlanFor(c) = p
    BY <1>3 DEF PlanFor
  <2> QED BY <1>3, <2>1, <2>2 DEF Paired
<1> QED BY <1>1, <1>2, <1>3

(***************************************************************************)
(* What the parts of a step preserve.                                      *)
(***************************************************************************)
ClusterOK ==
    /\ cluster \subseteq Objects /\ mounts \subseteq Mounting \cap cluster
    /\ up \subseteq Controllers \cap cluster /\ seen \subseteq Controllers
    /\ lingering \in BOOLEAN /\ unseen \subseteq cluster

WorkerOK ==
    /\ working \in BOOLEAN /\ current \in BOOLEAN /\ queued \in BOOLEAN /\ copy \in Specs
    /\ working = (plan # << >>) /\ plan \in Followed /\ plan \in ReleasedLast

OthersOK ==
    /\ cr \in [exists : BOOLEAN, deleting : BOOLEAN, module : Specs]
    /\ configSPC \in BOOLEAN /\ abandoned \subseteq Objects
    /\ edits \in 0..MaxEdits /\ faults \in 0..MaxFaults

LEMMA TypeParts ==
    /\ TypeInv <=> ClusterOK /\ WorkerOK /\ OthersOK
    /\ TypeInv' <=> ClusterOK' /\ WorkerOK' /\ OthersOK'
BY DEF TypeInv, TypeOK, ClusterOK, WorkerOK, OthersOK

LEMMA PutPreserves ==
    ASSUME ClusterOK, NEW o \in Objects, Put(o)
    PROVE  ClusterOK'
BY DEF ClusterOK, Put, Mounting

LEMMA DropPreserves ==
    ASSUME ClusterOK, NEW o, Drop(o)
    PROVE  ClusterOK'
BY DEF ClusterOK, Drop

LEMMA ReturnPreserves ==
    ASSUME WorkerOK, Return, queued' \in BOOLEAN
    PROVE  WorkerOK' /\ plan' = << >> /\ ~working' /\ ~current' /\ copy' = copy
BY EmptyPlan DEF WorkerOK, Return

LEMMA NextStepPreserves ==
    ASSUME WorkerOK, plan # << >>, NextStep
    PROVE  /\ WorkerOK' /\ Head(plan) \in Steps
           /\ copy' = copy /\ queued' = queued
           /\ Range(plan) = {Head(plan)} \cup Range(plan')
           /\ current = (working /\ ~queued) => current' = (working' /\ ~queued')
           /\ Head(plan).op = "release" => plan' = << >>
<1>1. /\ Head(plan) \in Steps /\ Tail(plan) \in Followed /\ Tail(plan) \in ReleasedLast
      /\ Range(plan) = {Head(plan)} \cup Range(Tail(plan))
      /\ Len(plan) = 1 <=> Tail(plan) = << >>
      /\ Head(plan).op = "release" => Tail(plan) = << >>
  BY RestOfPlan DEF WorkerOK
<1>2. CASE Len(plan) = 1
  <2>1. Return /\ queued' = queued /\ Tail(plan) = << >>
    BY <1>1, <1>2 DEF NextStep
  <2>2. WorkerOK' /\ plan' = << >> /\ ~working' /\ ~current' /\ copy' = copy
    BY <2>1, ReturnPreserves DEF WorkerOK
  <2>3. current' = (working' /\ ~queued')
    BY <2>2 DEF WorkerOK
  <2> QED BY <1>1, <2>1, <2>2, <2>3
<1>3. CASE Len(plan) # 1
  <2>1. plan' = Tail(plan) /\ Tail(plan) # << >>
        /\ working' = working /\ copy' = copy /\ current' = current /\ queued' = queued
    BY <1>1, <1>3 DEF NextStep
  <2> QED BY <1>1, <2>1 DEF WorkerOK
<1> QED BY <1>2, <1>3

\* A step of the plan that leaves done what it finds done, and does what it
\* is there for.
LEMMA StepKeepsProgress ==
    ASSUME WorkerOK, ProgressInv, plan # << >>, NextStep, cr' = cr,
           ~queued => \A s \in Range(PlanFor(cr)) :
                          s = Head(plan) \/ Done(cr.module, s) => Done(cr.module, s)'
    PROVE  ProgressInv'
<1>1. /\ WorkerOK' /\ copy' = copy /\ queued' = queued
      /\ Range(plan) = {Head(plan)} \cup Range(plan')
      /\ current = (working /\ ~queued) => current' = (working' /\ ~queued')
  BY NextStepPreserves
<1>2. current' = (working' /\ ~queued')
  BY <1>1 DEF ProgressInv
<1>3. cr.exists
  BY DEF ProgressInv, WorkerOK
<1>4. PlanFor(cr)' = PlanFor(cr)
  BY DEF PlanFor
<1>5. ASSUME ~queued
      PROVE  /\ copy = cr.module
             /\ Range(plan') \subseteq Range(PlanFor(cr))
             /\ \A s \in Range(PlanFor(cr)) \ Range(plan') : Done(cr.module, s)'
  BY <1>1, <1>5 DEF ProgressInv
<1> QED BY <1>1, <1>2, <1>3, <1>4, <1>5 DEF ProgressInv

\* A reconcile that ends with an error is due again.
LEMMA ErrorKeepsProgress ==
    ASSUME WorkerOK, ProgressInv, plan # << >>, ReturnError, cr' = cr
    PROVE  WorkerOK' /\ ProgressInv'
<1>1. WorkerOK' /\ ~working' /\ ~current' /\ queued'
  BY ReturnPreserves DEF ReturnError
<1>2. cr.exists
  BY DEF ProgressInv, WorkerOK
<1>3. current' = (working' /\ ~queued')
  BY <1>1 DEF WorkerOK
<1> QED BY <1>1, <1>2, <1>3 DEF ProgressInv

\* A step of the environment that leaves done what it finds done.
LEMMA OthersKeepProgress ==
    ASSUME ProgressInv, UNCHANGED <<cr, queued, workerVars>>,
           ~queued => \A s \in Range(PlanFor(cr)) \ Range(plan) :
                          Done(cr.module, s) => Done(cr.module, s)'
    PROVE  ProgressInv'
<1>1. cr' = cr /\ queued' = queued /\ working' = working /\ copy' = copy /\ current' = current
      /\ plan' = plan
  BY DEF workerVars
<1>2. PlanFor(cr)' = PlanFor(cr)
  BY <1>1 DEF PlanFor
<1>3. ~queued => \A s \in Range(PlanFor(cr)) \ Range(plan) : Done(cr.module, s)'
  BY DEF ProgressInv
<1> QED BY <1>1, <1>2, <1>3 DEF ProgressInv

(***************************************************************************)
(* What each step does for the plan it belongs to.                         *)
(***************************************************************************)
LEMMA KindOfPlan ==
    ASSUME ConstantsAssumption, OthersOK, NEW h \in Range(PlanFor(cr))
    PROVE  /\ h.op \in {"apply", "issue", "warn"} =>
                  ~cr.deleting /\ Range(PlanFor(cr)) \subseteq SyncSteps(cr.module)
           /\ h.op \in {"delete", "revoke", "release"} =>
                  /\ cr.deleting
                  /\ Range(PlanFor(cr)) \subseteq RemovalSteps \cup {Step("release", "cr")}
<1>1. cr.deleting \in BOOLEAN
  BY DEF OthersOK
<1>2. /\ ~cr.deleting => Range(PlanFor(cr)) \subseteq SyncSteps(cr.module)
      /\ cr.deleting => Range(PlanFor(cr)) \subseteq RemovalSteps \cup {Step("release", "cr")}
  BY PlanForCR DEF OthersOK
<1> QED BY <1>1, <1>2, StepFields DEF SyncSteps, RemovalSteps

LEMMA ApplyDoes ==
    ASSUME ConstantsAssumption, OthersOK, copy = cr.module, cr' = cr,
           NEW h \in Range(PlanFor(cr)), h.op = "apply",
           UpdateConfig(h.obj), Put(h.obj), abandoned' = abandoned
    PROVE  \A s \in Range(PlanFor(cr)) :
               s = h \/ Done(cr.module, s) => Done(cr.module, s)'
<1> SUFFICES ASSUME NEW s \in Range(PlanFor(cr)), s = h \/ Done(cr.module, s)
             PROVE  Done(cr.module, s)'
  OBVIOUS
<1>1. h \in SyncSteps(cr.module) /\ s \in SyncSteps(cr.module)
  BY KindOfPlan
<1>2. cluster' = cluster \cup {h.obj}
  BY DEF Put
<1>3. s.op \in {"apply", "issue"} => s.obj \in cluster'
  BY <1>2 DEF Done
<1>4. s.op \notin {"delete", "revoke"}
  BY <1>1 DEF SyncSteps
<1>5. s.op = "warn" /\ "nginx" \in cluster' => "nginx" \in abandoned'
  <2>1. s.op = "warn" => s # h /\ h.obj # "nginx"
    BY <1>1 DEF SyncSteps
  <2> QED BY <1>2, <2>1 DEF Done
<1>6. ASSUME s.op = "apply", s.obj \in Mounting, cr.module.config # "none"
      PROVE  s.obj \in mounts' <=> cr.module.config = "spc"
  <2>1. CASE s.obj = h.obj
    BY <1>6, <2>1 DEF UpdateConfig, Put
  <2>2. CASE s.obj # h.obj
    <3>1. s.obj \in mounts' <=> s.obj \in mounts
      BY <2>2 DEF Put
    <3> QED BY <1>6, <2>2, <3>1 DEF Done
  <2> QED BY <2>1, <2>2
<1> QED BY <1>3, <1>4, <1>5, <1>6 DEF Done

LEMMA IssueDoes ==
    ASSUME ConstantsAssumption, OthersOK, cr' = cr,
           NEW h \in Range(PlanFor(cr)), h.op = "issue", Put(h.obj), abandoned' = abandoned
    PROVE  \A s \in Range(PlanFor(cr)) :
               s = h \/ Done(cr.module, s) => Done(cr.module, s)'
<1> SUFFICES ASSUME NEW s \in Range(PlanFor(cr)), s = h \/ Done(cr.module, s)
             PROVE  Done(cr.module, s)'
  OBVIOUS
<1>1. h \in SyncSteps(cr.module) /\ s \in SyncSteps(cr.module)
  BY KindOfPlan
<1>2. cluster' = cluster \cup {h.obj}
  BY DEF Put
<1>3. h.obj \notin Mounting /\ h.obj # "nginx"
  BY <1>1 DEF SyncSteps
<1>4. s.op \in {"apply", "issue"} => s.obj \in cluster'
  BY <1>2 DEF Done
<1>5. s.op \notin {"delete", "revoke"}
  BY <1>1 DEF SyncSteps
<1>6. s.op = "warn" /\ "nginx" \in cluster' => "nginx" \in abandoned'
  BY <1>2, <1>3 DEF Done
<1>7. ASSUME s.op = "apply", s.obj \in Mounting, cr.module.config # "none"
      PROVE  s.obj \in mounts' <=> cr.module.config = "spc"
  <2>1. s # h
    BY <1>7
  <2>2. s.obj \in mounts' <=> s.obj \in mounts
    BY <1>3, <1>7 DEF Put
  <2> QED BY <1>7, <2>1, <2>2 DEF Done
<1> QED BY <1>4, <1>5, <1>6, <1>7 DEF Done

LEMMA WarnDoes ==
    ASSUME ConstantsAssumption, OthersOK, cr' = cr,
           NEW h \in Range(PlanFor(cr)), h.op = "warn", Drop(h.obj), abandoned' = abandoned
    PROVE  \A s \in Range(PlanFor(cr)) :
               s = h \/ Done(cr.module, s) => Done(cr.module, s)'
<1> SUFFICES ASSUME NEW s \in Range(PlanFor(cr)), s = h \/ Done(cr.module, s)
             PROVE  Done(cr.module, s)'
  OBVIOUS
<1>1. h \in SyncSteps(cr.module) /\ s \in SyncSteps(cr.module)
  BY KindOfPlan
<1>2. h.obj = "nginx" /\ DeploysGateway(cr.module)
  BY <1>1, StepFields DEF SyncSteps, Steps
<1>3. cluster' = cluster \ {"nginx"} /\ mounts' = mounts \ {"nginx"}
  BY <1>2 DEF Drop
<1>4. s.op \in {"apply", "issue"} => s # h /\ s.obj # "nginx"
  BY <1>1, <1>2 DEF SyncSteps
<1>5. s.op \notin {"delete", "revoke"}
  BY <1>1 DEF SyncSteps
<1>6. "nginx" \notin Mounting
  BY DEF Mounting
<1> QED BY <1>3, <1>4, <1>5, <1>6 DEF Done

LEMMA DropDoes ==
    ASSUME ConstantsAssumption, OthersOK, cr' = cr,
           NEW h \in Range(PlanFor(cr)), h.op \in {"delete", "revoke"}, Drop(h.obj),
           abandoned' = abandoned
    PROVE  \A s \in Range(PlanFor(cr)) :
               s = h \/ Done(cr.module, s) => Done(cr.module, s)'
<1> SUFFICES ASSUME NEW s \in Range(PlanFor(cr)), s = h \/ Done(cr.module, s)
             PROVE  Done(cr.module, s)'
  OBVIOUS
<1>1. h \in RemovalSteps \cup {Step("release", "cr")} /\ s \in RemovalSteps \cup {Step("release", "cr")}
  BY KindOfPlan
<1>2. cluster' = cluster \ {h.obj}
  BY DEF Drop
<1>3. s.op \notin {"apply", "issue", "warn"}
  BY <1>1, StepFields DEF RemovalSteps
<1>4. s.op \in {"delete", "revoke"} /\ s.obj \in cluster' => s.obj \in Missed'
  BY <1>2 DEF Done, Missed
<1> QED BY <1>3, <1>4 DEF Done

\* An object that is left where it is is Missed.
LEMMA PassOverDoes ==
    ASSUME NEW h \in Steps, h.op \in {"delete", "revoke", "warn"}, cr' = cr,
           abandoned' = abandoned \cup {h.obj}, UNCHANGED clusterVars
    PROVE  \A s : s = h \/ Done(cr.module, s) => Done(cr.module, s)'
<1>1. h.op = "warn" => h.obj = "nginx"
  BY StepFields DEF Steps
<1>2. cluster' = cluster /\ mounts' = mounts /\ h.obj \in Missed' /\ Missed \subseteq Missed'
  BY DEF clusterVars, Missed
<1> QED BY <1>1, <1>2 DEF Done

\* What the call of DeleteObject for h does.
LEMMA DeleteDoes ==
    ASSUME ConstantsAssumption, ClusterOK, OthersOK, cr' = cr, NEW h \in Steps,
           h.op \in {"delete", "revoke", "warn"}, h.obj \in Objects, Delete(h.obj)
    PROVE  /\ ClusterOK' /\ abandoned' \subseteq Objects
           /\ h \in Range(PlanFor(cr)) =>
                  \A s \in Range(PlanFor(cr)) : s = h \/ Done(cr.module, s) => Done(cr.module, s)'
<1>1. CASE h.obj \in unseen
  <2>1. abandoned' = abandoned \cup {h.obj} /\ UNCHANGED clusterVars
    BY <1>1 DEF Delete
  <2>2. ClusterOK' /\ abandoned' \subseteq Objects
    BY <2>1 DEF ClusterOK, clusterVars, OthersOK
  <2> QED BY <2>1, <2>2, PassOverDoes
<1>2. CASE h.obj \notin unseen
  <2>1. Drop(h.obj) /\ abandoned' = abandoned
    BY <1>2 DEF Delete
  <2>2. ClusterOK' /\ abandoned' \subseteq Objects
    BY <2>1, DropPreserves DEF OthersOK
  <2> QED BY <2>1, <2>2, WarnDoes, DropDoes
<1> QED BY <1>1, <1>2

\* The data plane that comes back is one whose Gateway is not deleted yet, or
\* was Missed.
LEMMA SpawnSpares ==
    ASSUME ConstantsAssumption, TypeInv, ProgressInv, ~queued, SpawnDataPlane
    PROVE  \A s \in Range(PlanFor(cr)) \ Range(plan) : Done(cr.module, s) => Done(cr.module, s)'
<1> SUFFICES ASSUME NEW s \in Range(PlanFor(cr)) \ Range(plan), Done(cr.module, s)
             PROVE  Done(cr.module, s)'
  OBVIOUS
<1>1. /\ cluster' = cluster \cup {"dataPlane"} /\ cr' = cr /\ mounts' = mounts /\ abandoned' = abandoned
      /\ "gateway" \in cluster
  BY DEF SpawnDataPlane
<1>2. ASSUME s.op \in {"delete", "revoke"}, s.obj = "dataPlane"
      PROVE  "dataPlane" \in Missed'
  <2>1. /\ cr.deleting /\ s \in RemovalSteps
    BY <1>2, KindOfPlan, TypeParts, StepFields
  <2>2. s = DeleteDataPlane
    BY <1>2, <2>1, StepFields DEF RemovalSteps, Steps, DeleteDataPlane, Step
  <2>3. DeleteGateway \in Range(PlanFor(cr))
    BY <2>1, <2>2, PlanForCR, TypeParts DEF OthersOK
  <2>4. DeleteGateway \notin Range(plan)
    <3>1. ASSUME NEW i \in DOMAIN plan, plan[i] = DeleteGateway PROVE FALSE
      <4>1. PICK j \in DOMAIN plan : plan[j] = DeleteDataPlane
        BY <3>1 DEF TypeInv, Followed
      <4> QED BY <4>1, <2>2 DEF Range
    <3> QED BY <3>1 DEF Range
  <2>5. Done(cr.module, DeleteGateway)
    BY <2>3, <2>4 DEF ProgressInv
  <2>6. "gateway" \in Missed
    BY <1>1, <2>5, StepFields DEF Done, DeleteGateway
  <2> QED BY <1>1, <2>6 DEF Missed
<1>3. Missed' = Missed
  BY <1>1 DEF Missed
<1> QED BY <1>1, <1>2, <1>3 DEF Done

(***************************************************************************)
(* The steps of the user, the controllers and the cache.                   *)
(***************************************************************************)
LEMMA EnvironmentStep ==
    ASSUME ConstantsAssumption, AuthInv,
           EditCR \/ ControllerUp \/ ControllerDown \/ SpawnDataPlane \/ Terminate \/ CacheSync
    PROVE  AuthInv'
<1> USE DEF AuthInv
<1>0. ClusterOK /\ WorkerOK /\ OthersOK
  BY TypeParts
<1>1. CASE EditCR
  <2>1. cr' \in [exists : BOOLEAN, deleting : BOOLEAN, module : Specs]
    BY <1>0, <1>1 DEF EditCR, OthersOK
  <2>2. cr'.exists = cr.exists /\ cr.exists
    BY <1>0, <1>1 DEF EditCR, OthersOK
  <2>3. edits' \in 0..MaxEdits
    BY <1>0, <1>1 DEF EditCR, OthersOK, ConstantsAssumption
  <2>4. ClusterOK'
    BY <1>0, <1>1 DEF EditCR, clusterVars, ClusterOK
  <2>5. WorkerOK' /\ queued' /\ ~current'
    BY <1>0, <1>1 DEF EditCR, WorkerOK
  <2>6. OthersOK'
    BY <1>0, <1>1, <2>1, <2>3 DEF EditCR, OthersOK
  <2>7. current' = (working' /\ ~queued')
    BY <2>5 DEF WorkerOK
  <2>8. ProgressInv'
    BY <2>2, <2>5, <2>7 DEF ProgressInv
  <2> QED BY <2>4, <2>5, <2>6, <2>8, TypeParts
<1>2. CASE ControllerUp \/ ControllerDown \/ Terminate \/ CacheSync
  <2>1. /\ UNCHANGED <<cr, queued, workerVars, configSPC, cluster, mounts, abandoned, edits>>
        /\ faults' = faults \/ (faults < MaxFaults /\ faults' = faults + 1)
        /\ up' \subseteq Controllers \cap cluster /\ seen' \subseteq Controllers
        /\ lingering' \in BOOLEAN /\ unseen' \subseteq cluster
    <3>1. CASE ControllerUp
      BY <1>0, <3>1 DEF ControllerUp, ClusterOK
    <3>2. CASE ControllerDown
      BY <1>0, <3>2 DEF ControllerDown, Fault, ClusterOK
    <3>3. CASE Terminate
      BY <1>0, <3>3 DEF Terminate, ClusterOK
    <3>4. CASE CacheSync
      BY <1>0, <3>4 DEF CacheSync, ClusterOK
    <3> QED BY <1>2, <3>1, <3>2, <3>3, <3>4
  <2>2. ClusterOK'
    BY <1>0, <2>1 DEF ClusterOK
  <2>3. WorkerOK'
    BY <1>0, <2>1 DEF WorkerOK, workerVars
  <2>4. faults' \in 0..MaxFaults
    BY <1>0, <2>1 DEF OthersOK, ConstantsAssumption
  <2>5. OthersOK'
    BY <1>0, <2>1, <2>4 DEF OthersOK
  <2>6. \A s : Done(cr.module, s) => Done(cr.module, s)'
    BY <2>1 DEF Done, Missed
  <2>7. ProgressInv'
    BY <2>1, <2>6, OthersKeepProgress
  <2> QED BY <2>2, <2>3, <2>5, <2>7, TypeParts
<1>3. CASE SpawnDataPlane
  <2>1. UNCHANGED <<cr, queued, workerVars, configSPC, mounts, up, lingering, seen, abandoned, edits, faults>>
        /\ cluster' = cluster \cup {"dataPlane"} /\ unseen' \subseteq unseen \cup {"dataPlane"}
    BY <1>3 DEF SpawnDataPlane
  <2>2. ClusterOK'
    BY <1>0, <2>1 DEF ClusterOK, Objects
  <2>3. WorkerOK'
    BY <1>0, <2>1 DEF WorkerOK, workerVars
  <2>4. OthersOK'
    BY <1>0, <2>1 DEF OthersOK
  <2>5. ProgressInv'
    BY <1>3, <2>1, SpawnSpares, OthersKeepProgress
  <2> QED BY <2>2, <2>3, <2>4, <2>5, TypeParts
<1> QED BY <1>1, <1>2, <1>3

(***************************************************************************)
(* The steps of the worker.                                                *)
(***************************************************************************)
LEMMA ReconcileStep ==
    ASSUME ConstantsAssumption, AuthInv, Reconcile
    PROVE  AuthInv'
<1> USE DEF AuthInv
<1>0. ClusterOK /\ WorkerOK /\ OthersOK
  BY TypeParts
<1>1. plan' = PlanFor(cr) /\ cr' = cr /\ ~queued' /\ working' /\ current' /\ copy' = cr.module
  BY DEF Reconcile, PlanFor
<1>2. PlanFor(cr) \in Followed /\ PlanFor(cr) \in ReleasedLast /\ PlanFor(cr) # << >>
  BY <1>0, PlanForCR DEF OthersOK
<1>3. ClusterOK' /\ OthersOK'
  BY <1>0 DEF Reconcile, ClusterOK, OthersOK, clusterVars
<1>4. queued' \in BOOLEAN /\ working' \in BOOLEAN /\ current' \in BOOLEAN
  BY DEF Reconcile
<1>5. WorkerOK'
  BY <1>0, <1>1, <1>2, <1>4 DEF WorkerOK, OthersOK
<1>6. PlanFor(cr)' = PlanFor(cr) /\ cr.exists
  BY <1>1 DEF PlanFor, Reconcile
<1>7. ProgressInv'
  BY <1>1, <1>4, <1>6 DEF ProgressInv
<1> QED BY <1>3, <1>5, <1>7, TypeParts

\* The steps of a plan that end neither with an error nor with the CR.
LEMMA PlanStep ==
    ASSUME ConstantsAssumption, AuthInv, plan # << >>, NextStep, cr' = cr,
           ClusterOK', configSPC' \in BOOLEAN, abandoned' \subseteq Objects, edits' = edits,
           faults' \in 0..MaxFaults,
           ~queued /\ copy = cr.module /\ Head(plan) \in Range(PlanFor(cr)) =>
               \A s \in Range(PlanFor(cr)) :
                   s = Head(plan) \/ Done(cr.module, s) => Done(cr.module, s)'
    PROVE  AuthInv'
<1> USE DEF AuthInv
<1>0. ClusterOK /\ WorkerOK /\ OthersOK
  BY TypeParts
<1>1. WorkerOK' /\ Range(plan) = {Head(plan)} \cup Range(plan')
  BY <1>0, NextStepPreserves
<1>2. ~queued => copy = cr.module /\ Head(plan) \in Range(PlanFor(cr))
  BY <1>1 DEF ProgressInv
<1>3. ProgressInv'
  BY <1>0, <1>2, StepKeepsProgress
<1>4. OthersOK'
  BY <1>0 DEF OthersOK
<1> QED BY <1>1, <1>3, <1>4, TypeParts

\* The steps that end with an error.
LEMMA ErrorStep ==
    ASSUME AuthInv, plan # << >>, ReturnError, cr' = cr,
           ClusterOK', configSPC' \in BOOLEAN, abandoned' = abandoned, edits' = edits,
           faults' \in 0..MaxFaults
    PROVE  AuthInv'
<1> USE DEF AuthInv
<1>0. ClusterOK /\ WorkerOK /\ OthersOK
  BY TypeParts
<1>1. WorkerOK' /\ ProgressInv'
  BY <1>0, ErrorKeepsProgress
<1>2. OthersOK'
  BY <1>0 DEF OthersOK
<1> QED BY <1>1, <1>2, TypeParts

LEMMA PassiveStep ==
    ASSUME ConstantsAssumption, AuthInv, CheckStep \/ WaitStep
    PROVE  AuthInv'
<1> USE DEF AuthInv
<1>0. ClusterOK /\ WorkerOK /\ OthersOK
  BY TypeParts
<1>1. /\ plan # << >> /\ UNCHANGED <<cr, configSPC, clusterVars, abandoned, edits, faults>>
      /\ Head(plan).op \in {"check", "wait"}
      /\ NextStep \/ ReturnError
  BY DEF CheckStep, WaitStep, AtStep
<1>2. ClusterOK' /\ configSPC' \in BOOLEAN /\ abandoned' \subseteq Objects /\ faults' \in 0..MaxFaults
  BY <1>0, <1>1 DEF ClusterOK, clusterVars, OthersOK
<1>3. \A s : s = Head(plan) \/ Done(cr.module, s) => Done(cr.module, s)'
  BY <1>1 DEF Done, Missed, clusterVars
<1>4. CASE NextStep
  BY <1>1, <1>2, <1>3, <1>4, PlanStep
<1>5. CASE ReturnError
  BY <1>1, <1>2, <1>5, ErrorStep
<1> QED BY <1>1, <1>4, <1>5

LEMMA StepObjects ==
    \A s \in Steps : s.op \in {"apply", "delete", "warn", "issue", "revoke"} => s.obj \in Objects
BY StepFields DEF Steps, Objects

LEMMA ConfigType ==
    ASSUME OthersOK, NEW o, UpdateConfig(o)
    PROVE  configSPC' \in BOOLEAN
BY DEF OthersOK, UpdateConfig

LEMMA WriteStep ==
    ASSUME ConstantsAssumption, AuthInv,
           ApplyStep \/ DeleteStep \/ CleanupFailureLogged \/ IssueStep \/ RevokeStep
    PROVE  AuthInv'
<1> USE DEF AuthInv
<1> DEFINE h == Head(plan)
<1>0. /\ ClusterOK /\ WorkerOK /\ OthersOK
      /\ configSPC \in BOOLEAN /\ abandoned \subseteq Objects /\ faults \in 0..MaxFaults
  BY TypeParts DEF OthersOK
<1>1. plan # << >>
  BY DEF ApplyStep, DeleteStep, CleanupFailureLogged, IssueStep, RevokeStep, AtStep
<1>2. h \in Steps
  BY <1>0, <1>1, RestOfPlan DEF WorkerOK
<1>3. h.op \in {"apply", "delete", "warn", "issue", "revoke"} => h.obj \in Objects
  BY <1>2, StepObjects
<1>4. CASE ApplyStep
  <2>1. h.op = "apply" /\ UpdateConfig(h.obj) /\ UNCHANGED <<cr, abandoned, edits, faults>>
    BY <1>4 DEF ApplyStep, AtStep
  <2>2. configSPC' \in BOOLEAN
    BY <1>0, <2>1, ConfigType
  <2>3. CASE Put(h.obj) /\ NextStep
    <3>1. ClusterOK'
      BY <1>0, <1>3, <2>1, <2>3, PutPreserves
    <3>2. copy = cr.module /\ h \in Range(PlanFor(cr)) =>
              \A s \in Range(PlanFor(cr)) : s = h \/ Done(cr.module, s) => Done(cr.module, s)'
      BY <1>0, <2>1, <2>3, ApplyDoes
    <3> QED BY <1>0, <1>1, <2>1, <2>2, <2>3, <3>1, <3>2, PlanStep
  <2>4. CASE ReturnError /\ UNCHANGED clusterVars
    <3>1. ClusterOK'
      BY <1>0, <2>4 DEF ClusterOK, clusterVars
    <3> QED BY <1>0, <1>1, <2>1, <2>2, <2>4, <3>1, ErrorStep
  <2> QED BY <1>4, <2>3, <2>4 DEF ApplyStep
<1>5. CASE DeleteStep
  <2>1. /\ h.op \in {"delete", "warn"} /\ UpdateConfig(h.obj) /\ Delete(h.obj) /\ NextStep
        /\ UNCHANGED <<cr, edits, faults>>
    BY <1>5 DEF DeleteStep, AtStep
  <2>2. configSPC' \in BOOLEAN
    BY <1>0, <2>1, ConfigType
  <2>3. /\ ClusterOK' /\ abandoned' \subseteq Objects
        /\ h \in Range(PlanFor(cr)) =>
               \A s \in Range(PlanFor(cr)) : s = h \/ Done(cr.module, s) => Done(cr.module, s)'
    BY <1>0, <1>2, <1>3, <2>1, DeleteDoes
  <2> QED BY <1>0, <1>1, <2>1, <2>2, <2>3, PlanStep
<1>6. CASE CleanupFailureLogged
  <2>1. /\ h.op = "warn" /\ faults < MaxFaults /\ faults' = faults + 1 /\ NextStep
        /\ abandoned' = abandoned \cup {h.obj} /\ UNCHANGED <<cr, configSPC, clusterVars, edits>>
    BY <1>6 DEF CleanupFailureLogged, AtStep, Fault
  <2>2. ClusterOK' /\ configSPC' \in BOOLEAN /\ abandoned' \subseteq Objects
    BY <1>0, <1>3, <2>1 DEF ClusterOK, clusterVars
  <2>3. faults' \in 0..MaxFaults
    BY <1>0, <2>1 DEF ConstantsAssumption
  <2>4. \A s : s = h \/ Done(cr.module, s) => Done(cr.module, s)'
    BY <1>2, <2>1, PassOverDoes
  <2> QED BY <1>0, <1>1, <2>1, <2>2, <2>3, <2>4, PlanStep
<1>7. CASE IssueStep
  <2>1. h.op = "issue" /\ UNCHANGED <<cr, configSPC, abandoned, edits, faults>>
    BY <1>7 DEF IssueStep, AtStep
  <2>2. CASE Put(h.obj) /\ NextStep
    <3>1. ClusterOK'
      BY <1>0, <1>3, <2>1, <2>2, PutPreserves
    <3>2. h \in Range(PlanFor(cr)) =>
              \A s \in Range(PlanFor(cr)) : s = h \/ Done(cr.module, s) => Done(cr.module, s)'
      BY <1>0, <2>1, <2>2, IssueDoes
    <3> QED BY <1>0, <1>1, <2>1, <2>2, <3>1, <3>2, PlanStep
  <2>3. CASE ReturnError /\ UNCHANGED clusterVars
    <3>1. ClusterOK'
      BY <1>0, <2>3 DEF ClusterOK, clusterVars
    <3> QED BY <1>0, <1>1, <2>1, <2>3, <3>1, ErrorStep
  <2> QED BY <1>7, <2>2, <2>3 DEF IssueStep
<1>8. CASE RevokeStep
  <2>1. h.op = "revoke" /\ UNCHANGED <<cr, configSPC, edits, faults>>
    BY <1>8 DEF RevokeStep, AtStep
  <2>2. CASE Delete(h.obj) /\ NextStep
    <3>1. /\ ClusterOK' /\ abandoned' \subseteq Objects
          /\ h \in Range(PlanFor(cr)) =>
                 \A s \in Range(PlanFor(cr)) : s = h \/ Done(cr.module, s) => Done(cr.module, s)'
      BY <1>0, <1>2, <1>3, <2>1, <2>2, DeleteDoes
    <3> QED BY <1>0, <1>1, <2>1, <2>2, <3>1, PlanStep
  <2>3. CASE ReturnError /\ UNCHANGED <<clusterVars, abandoned>>
    <3>1. ClusterOK'
      BY <1>0, <2>3 DEF ClusterOK, clusterVars
    <3> QED BY <1>0, <1>1, <2>1, <2>3, <3>1, ErrorStep
  <2> QED BY <1>8, <2>2, <2>3 DEF RevokeStep
<1> QED BY <1>4, <1>5, <1>6, <1>7, <1>8

\* The finalizer goes when all other steps are done, and the CR with it.
LEMMA FinalStep ==
    ASSUME ConstantsAssumption, AuthInv, ReleaseStep
    PROVE  AuthInv'
<1> USE DEF AuthInv
<1> DEFINE h == Head(plan)
<1>0. /\ ClusterOK /\ WorkerOK /\ OthersOK
      /\ configSPC \in BOOLEAN /\ faults \in 0..MaxFaults
  BY TypeParts DEF OthersOK
<1>1. /\ plan # << >> /\ h.op = "release"
      /\ UNCHANGED <<configSPC, clusterVars, abandoned, edits, faults>>
  BY DEF ReleaseStep, AtStep
<1>2. ClusterOK'
  BY <1>0, <1>1 DEF ClusterOK, clusterVars
<1>3. CASE current
  <2>1. cr' = [cr EXCEPT !.exists = FALSE] /\ NextStep
    BY <1>3 DEF ReleaseStep
  <2>2. /\ WorkerOK' /\ plan' = << >> /\ copy' = copy /\ queued' = queued
        /\ Range(plan) = {h} \cup Range(plan')
        /\ current = (working /\ ~queued) => current' = (working' /\ ~queued')
    BY <1>0, <1>1, <2>1, NextStepPreserves
  <2>3. ~queued /\ current' = (working' /\ ~queued')
    BY <1>3, <2>2 DEF ProgressInv
  <2>4. /\ copy = cr.module /\ h \in Range(PlanFor(cr))
        /\ \A s \in Range(PlanFor(cr)) \ Range(plan) : Done(cr.module, s)
    BY <2>2, <2>3 DEF ProgressInv
  <2>5. cr.deleting
    BY <1>0, <1>1, <2>4, KindOfPlan
  <2>6. /\ cr'.deleting = cr.deleting /\ cr'.module = cr.module
        /\ cr' \in [exists : BOOLEAN, deleting : BOOLEAN, module : Specs]
    BY <1>0, <2>1 DEF OthersOK
  <2>7. PlanFor(cr)' = PlanFor(cr)
    BY <2>6 DEF PlanFor
  <2>8. Range(plan') = {} /\ ~working'
    BY <2>2, EmptyPlan DEF WorkerOK
  <2>9. \A s : s = h \/ Done(cr.module, s) => Done(cr.module, s)'
    BY <1>1, <2>6 DEF Done, Missed, clusterVars
  <2>10. \A s \in Range(PlanFor(cr)) : Done(cr.module, s)'
    BY <2>2, <2>4, <2>8, <2>9
  <2>11. ProgressInv'
    BY <2>2, <2>3, <2>4, <2>5, <2>6, <2>7, <2>8, <2>10 DEF ProgressInv
  <2>12. OthersOK'
    BY <1>0, <1>1, <2>6 DEF OthersOK
  <2> QED BY <1>2, <2>2, <2>11, <2>12, TypeParts
<1>4. CASE ~current
  <2>1. ReturnError /\ cr' = cr
    BY <1>4 DEF ReleaseStep
  <2> QED BY <1>0, <1>1, <1>2, <2>1, ErrorStep
<1> QED BY <1>3, <1>4

\* Failed calls and restarts.
LEMMA FaultStep ==
    ASSUME ConstantsAssumption, AuthInv, StepFails \/ Restart
    PROVE  AuthInv'
<1> USE DEF AuthInv
<1> DEFINE h == Head(plan)
<1>0. /\ ClusterOK /\ WorkerOK /\ OthersOK
      /\ configSPC \in BOOLEAN /\ faults \in 0..MaxFaults
  BY TypeParts DEF OthersOK
<1>1. faults' \in 0..MaxFaults
  <2>1. faults < MaxFaults /\ faults' = faults + 1
    BY DEF StepFails, Restart, Fault
  <2> QED BY <1>0, <2>1 DEF ConstantsAssumption
<1>2. CASE StepFails
  <2>1. plan # << >> /\ ReturnError /\ UNCHANGED <<cr, abandoned, edits>>
    BY <1>2 DEF StepFails
  <2>2. h \in Steps
    BY <1>0, <2>1, RestOfPlan DEF WorkerOK
  <2>3. configSPC' \in BOOLEAN
    BY <1>0, <1>2, ConfigType DEF StepFails
  <2>4. ClusterOK'
    <3>1. CASE UNCHANGED clusterVars
      BY <1>0, <3>1 DEF ClusterOK, clusterVars
    <3>2. CASE AtStep({"apply"}) /\ Put(h.obj)
      BY <1>0, <2>2, <3>2, StepObjects, PutPreserves DEF AtStep
    <3>3. CASE AtStep({"delete"}) /\ Drop(h.obj)
      BY <1>0, <3>3, DropPreserves
    <3> QED BY <1>2, <3>1, <3>2, <3>3 DEF StepFails
  <2> QED BY <1>1, <2>1, <2>3, <2>4, ErrorStep
<1>3. CASE Restart
  <2>1. /\ Return /\ queued' = cr.exists /\ configSPC' = FALSE /\ seen' = up /\ unseen' = {}
        /\ UNCHANGED <<cr, cluster, mounts, up, lingering, abandoned, edits>>
    BY <1>3 DEF Restart
  <2>2. ClusterOK'
    BY <1>0, <2>1 DEF ClusterOK
  <2>3. OthersOK'
    BY <1>0, <1>1, <2>1 DEF OthersOK
  <2>4. queued' \in BOOLEAN
    BY <1>0, <2>1 DEF OthersOK
  <2>5. WorkerOK' /\ plan' = << >> /\ ~working' /\ ~current' /\ copy' = copy
    BY <1>0, <2>1, <2>4, ReturnPreserves
  <2>6. current' = (working' /\ ~queued')
    BY <2>5 DEF WorkerOK
  <2>7. ProgressInv'
    <3>1. CASE cr.exists
      BY <2>1, <2>5, <2>6, <3>1 DEF ProgressInv
    <3>2. CASE ~cr.exists
      <4>1. ~queued /\ ~working /\ cr.deleting /\ plan = << >> /\ ~queued'
        BY <1>0, <2>1, <3>2 DEF ProgressInv, WorkerOK
      <4>2. PlanFor(cr)' = PlanFor(cr)
        BY <2>1 DEF PlanFor
      <4>3. \A s : Done(cr.module, s) => Done(cr.module, s)'
        BY <2>1 DEF Done, Missed
      <4> QED BY <2>1, <2>5, <2>6, <4>1, <4>2, <4>3 DEF ProgressInv
    <3> QED BY <3>1, <3>2
  <2> QED BY <2>2, <2>3, <2>5, <2>7, TypeParts
<1> QED BY <1>2, <1>3

LEMMA AuthInit == ASSUME ConstantsAssumption, Init PROVE AuthInv
<1>1. PICK m \in Specs : cr = [exists |-> TRUE, deleting |-> FALSE, module |-> m]
  BY DEF Init
<1>2. ClusterOK
  BY DEF Init, ClusterOK
<1>3. WorkerOK
  BY <1>1, EmptyPlan DEF Init, WorkerOK
<1>4. OthersOK
  <2>1. 0 \in 0..MaxEdits /\ 0 \in 0..MaxFaults
    BY DEF ConstantsAssumption
  <2> QED BY <1>1, <2>1 DEF Init, OthersOK
<1>5. ProgressInv
  BY <1>1 DEF Init, ProgressInv
<1> QED BY <1>2, <1>3, <1>4, <1>5, TypeParts DEF AuthInv

LEMMA AuthNext == ASSUME ConstantsAssumption, AuthInv, [Next]_vars PROVE AuthInv'
<1>1. CASE UNCHANGED vars
  <2>1. TypeInv'
    BY <1>1 DEF vars, workerVars, clusterVars, AuthInv, TypeInv, TypeOK
  <2>2. UNCHANGED <<cr, queued, workerVars>>
    BY <1>1 DEF vars
  <2>3. \A s : Done(cr.module, s) => Done(cr.module, s)'
    BY <1>1 DEF Done, Missed, vars, clusterVars
  <2> QED BY <2>1, <2>2, <2>3, OthersKeepProgress DEF AuthInv
<1>2. CASE Next
  BY <1>2, EnvironmentStep, ReconcileStep, PassiveStep, WriteStep, FinalStep, FaultStep
     DEF Next, Worker
<1> QED BY <1>1, <1>2

LEMMA AuthInvariant == Spec => []AuthInv
<1>1. Init => AuthInv
  BY AuthInit, ConstantsAssumption
<1>2. AuthInv /\ [Next]_vars => AuthInv'
  BY AuthNext, ConstantsAssumption
<1> QED BY <1>1, <1>2, PTL DEF Spec

(***************************************************************************)
(* The theorems.                                                           *)
(***************************************************************************)
\* Every variable of the authorization model keeps its type; the workloads
\* that mount and the controllers that are ready exist, and the worker is in
\* Reconcile exactly while calls are left to make.
THEOREM TypeCorrect == Spec => []TypeOK
<1>1. AuthInv => TypeOK
  BY DEF AuthInv, TypeInv
<1> QED BY <1>1, AuthInvariant, PTL

\* When reconcileAuthorization has nothing more to do, everything the CR asks
\* for is there, no NGINX ingress controller runs beside the Gateway
\* controller unless the log says so or the cache did not hold it, and the
\* proxy server mounts what the config component of this CR says, whatever
\* earlier versions of the CR, failed calls and restarts have left behind.
THEOREM SettledRight == Spec => []SettledAsAsked
<1>1. AuthInv => SettledAsAsked
  <2> SUFFICES ASSUME AuthInv, Settled PROVE  SettledAsAsked
    BY DEF SettledAsAsked
  <2> DEFINE m == cr.module
  <2>0. ClusterOK /\ WorkerOK /\ OthersOK
    BY TypeParts DEF AuthInv
  <2>1. ~cr.deleting /\ ~queued /\ plan = << >>
    BY <2>0 DEF Settled, WorkerOK
  <2>2. PlanFor(cr) = SyncPlan(m) /\ m \in ModuleType /\ OpenShift \in BOOLEAN
    BY <2>0, <2>1, ConstantsAssumption DEF PlanFor, OthersOK, ConstantsAssumption
  <2>3. \A s \in Range(SyncPlan(m)) : Done(m, s)
    BY <2>1, <2>2, EmptyPlan DEF AuthInv, ProgressInv
  <2> HIDE DEF m
  <2>4. ObjectsOf(SyncPlan(m), {"apply", "issue"}) \subseteq cluster
    BY <2>3 DEF ObjectsOf, Range, Done
  <2>5. DeploysGateway(m) /\ "nginx" \in cluster => "nginx" \in abandoned
    BY <2>2, <2>3, SyncPlanSteps, StepFields DEF Done
  <2>6. ASSUME "proxy-server" \in m.comps, m.config # "none"
        PROVE  mounts = Mounted(m)
    <3>1. \A o \in Mounting : o \in mounts <=> m.config = "spc"
      BY <2>2, <2>3, <2>6, SyncPlanSteps, StepFields DEF Done
    <3>2. mounts \subseteq Mounting
      BY <2>0 DEF ClusterOK
    <3> QED BY <3>1, <3>2 DEF Mounted
  <2> QED BY <2>4, <2>5, <2>6 DEF m, SettledAsAsked
<1> QED BY <1>1, AuthInvariant, PTL

\* What the deletion of a CR has gone through stays gone, also the data plane
\* that a gateway controller on its way out could make again: removeModule
\* deletes it after the Gateway.  Only what the cache did not hold when the
\* last reconcile came to it is left, however late the cache is.
THEOREM RemovedStaysRemoved == Spec => []RemovedForGood
<1>1. AuthInv => RemovedForGood
  <2> SUFFICES ASSUME AuthInv, ~cr.exists
               PROVE  cluster \cap ObjectsOf(RemovalPlan(cr.module), {"delete", "revoke"})
                          \subseteq Missed
    BY DEF RemovedForGood
  <2>1. cr.deleting /\ ~queued /\ plan = << >>
    BY DEF AuthInv, TypeInv, TypeOK, ProgressInv
  <2>2. PlanFor(cr) = RemovalPlan(cr.module)
    BY <2>1 DEF PlanFor
  <2>3. \A s \in Range(RemovalPlan(cr.module)) : Done(cr.module, s)
    BY <2>1, <2>2, EmptyPlan DEF AuthInv, ProgressInv
  <2> QED BY <2>3 DEF ObjectsOf, Range, Done
<1> QED BY <1>1, AuthInvariant, PTL
=============================================================================
