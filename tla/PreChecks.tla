----------------------------- MODULE PreChecks -----------------------------
(***************************************************************************)
(* The checks a reconcile of a driver CR makes before it changes anything, *)
(* with the Secrets they look for, and the deployment that follows when    *)
(* all of them pass.  The Secrets are read one by one, and again by the    *)
(* pods that mount them; users change the Secrets and the CR meanwhile.    *)
(*                                                                         *)
(* ConfigVersion has the accepted versions of the same CR: a reconcile     *)
(* that passes the checks makes its Accept step.                           *)
(***************************************************************************)
EXTENDS ConfigVersion, SequencesExt

CONSTANTS
    CRs,        \* the CRs considered: members of CRType
    Contents,   \* what the Secret of a PowerFlex driver may hold
    MaxChanges, \* bound: changes of the Secrets or of the CR
    MaxFaults   \* bound: Gets that fail with an error other than NotFound

(***************************************************************************)
(* Objects are named <<kind, index>>.  Config is <name>-creds or           *)
(* <name>-config.                                                          *)
(***************************************************************************)
Config == <<"config", 0>>
AuthSecret == <<"authSecret", 0>>
Cert(i) == <<"certs", i>>
MetricsTLS == <<"metricsTLS", 0>>
Tokens == <<"proxy-authz-tokens", 0>>
RootCertificate == <<"proxy-server-root-certificate", 0>>
ProxyTLS == <<"csirevproxy-tls-secret", 0>>
ProxyConfig == <<"powermax-reverseproxy-config", 0>>

\* An environment variable of spec.driver.common: "skip" is the driver's
\* SKIP_CERTIFICATE_VALIDATION (1 for true), "count" is CERT_SECRET_COUNT,
\* "bad" is one of the two with a value that does not parse.
EnvType == [name : {"skip", "count", "bad", "other"}, value : Int]

\* common is << >> when it is left out, <<variables>> otherwise.
CRType == [type : {"powerscale", "powerstore", "unity", "powermax", "powerflex", "cosi"},
           common : Seq(Seq(EnvType)),
           authSecret : BOOLEAN, metricsTLS : BOOLEAN, useSecret : BOOLEAN,
           longPrefix : BOOLEAN, skipAuth : BOOLEAN, modules : Seq(STRING)]

\* A storage array of the PowerFlex Secret; ok: user, password and endpoint are
\* there and its MDM, if any, is a list of addresses.  "" is a field left out.
ArrayType == [id : STRING, ok : BOOLEAN, default : BOOLEAN, key : STRING, zone : STRING]

\* A Secret without a config entry is << >>.
ASSUME ChecksAssumption ==
    /\ \A cr \in CRs : cr \in CRType
    /\ << >> \in Contents /\ \A c \in Contents : c = << >> \/ c[1] \in Seq(ArrayType)
    /\ MaxChanges \in Nat /\ MaxFaults \in Nat

Envs(cr) == IF cr.common = << >> THEN << >> ELSE cr.common[1]

\* The loops over the variables keep the last value.
LastOf(envs, name, default) ==
    LET at == {i \in DOMAIN envs : envs[i].name = name}
    IN  IF at = {} THEN default ELSE envs[Max(at)].value

Parses(cr) == \A i \in DOMAIN Envs(cr) : Envs(cr)[i].name # "bad"

Certs(skip, count) == IF skip = 1 THEN << >> ELSE [i \in 1..count |-> Cert(i - 1)]

(***************************************************************************)
(* The checks of a CR, in the order of the calls.  "get" looks for an      *)
(* object, "arrays" and "zones" also look at what the Secret holds,        *)
(* "upgrade" is checkUpgrade.                                              *)
(***************************************************************************)
Check(kind, name) == [kind |-> kind, name |-> name]

Gets(names) == [i \in DOMAIN names |-> Check("get", names[i])]

Credentials(cr) == IF cr.authSecret THEN AuthSecret ELSE Config

PrecheckPowerScale_mut(cr) == \* bug: the last certificate is not looked for
    Gets(<<Credentials(cr)>>
         \o Certs(LastOf(Envs(cr), "skip", 0), LastOf(Envs(cr), "count", 1) - 1))

PrecheckPowerScale(cr) ==
    Gets(<<Credentials(cr)>>
         \o Certs(LastOf(Envs(cr), "skip", 0), LastOf(Envs(cr), "count", 1)))

PrecheckPowerStore(cr) ==
    Gets(<<Credentials(cr)>>
         \o Certs(LastOf(Envs(cr), "skip", 1), LastOf(Envs(cr), "count", 1)))

PrecheckUnity(cr) ==
    Gets(<<Config>> \o Certs(LastOf(Envs(cr), "skip", 1), LastOf(Envs(cr), "count", 1)))

PrecheckPowerMax(cr) == Gets(<<Credentials(cr)>>)

PrecheckCosi(cr) == Gets(<<Config>>)

PrecheckPowerFlex(cr) ==
    <<Check("arrays", Config)>>
    \o (IF cr.metricsTLS THEN Gets(<<MetricsTLS>>) ELSE << >>)

DriverPrecheck(cr) ==
    CASE cr.type = "powerscale" -> PrecheckPowerScale(cr)
      [] cr.type = "powerstore" -> PrecheckPowerStore(cr)
      [] cr.type = "unity"      -> PrecheckUnity(cr)
      [] cr.type = "powermax"   -> PrecheckPowerMax(cr)
      [] cr.type = "powerflex"  -> PrecheckPowerFlex(cr)
      [] cr.type = "cosi"       -> PrecheckCosi(cr)

\* From module version 2.4.0 on; a variable left out is set to skip.
AuthorizationPrecheck(cr) ==
    Gets(<<Tokens>> \o (IF cr.skipAuth THEN << >> ELSE <<RootCertificate>>))

\* The driver's own check once more, for three of the drivers.
ReplicationPrecheck(cr) == IF cr.type = "powermax" THEN << >> ELSE DriverPrecheck(cr)

ReverseProxyPrecheck(cr) ==
    Gets(<<ProxyTLS>> \o (IF cr.useSecret THEN << >> ELSE <<ProxyConfig>>))

\* ResiliencyPrecheck and ObservabilityPrecheck look for no object.
ModulePrecheck(cr, m) ==
    CASE m = "authorization" -> AuthorizationPrecheck(cr)
      [] m = "replication"   -> ReplicationPrecheck(cr)
      [] m = "reverseproxy"  -> ReverseProxyPrecheck(cr)
      [] OTHER               -> << >>

SupportedDrivers(m) ==
    IF m = "reverseproxy" THEN {"powermax"}
                          ELSE {"powerscale", "powerstore", "powermax", "powerflex"}

Checks(cr) ==
    DriverPrecheck(cr)
    \o (IF cr.type = "powerflex" THEN <<Check("zones", Config)>> ELSE << >>)
    \o <<Check("upgrade", Config)>>
    \o FlattenSeq([i \in DOMAIN cr.modules |-> ModulePrecheck(cr, cr.modules[i])])

\* What the checks want of the CR itself: PowerFlex limits the prefix of
\* volume names, a module fits the driver, the variables parse.
SpecAccepted(cr) ==
    /\ cr.type = "powerflex" /\ {"authorization", "replication"} \subseteq Range(cr.modules)
         => ~cr.longPrefix
    /\ cr.type \in {"powerscale", "powerstore", "unity"} => Parses(cr)
    /\ \A m \in Range(cr.modules) : cr.type \in SupportedDrivers(m)

(***************************************************************************)
(* What the PowerFlex checks accept: loops over the arrays of the Secret.  *)
(***************************************************************************)
\* An array: user, password and so on are there, its name is new, and no
\* other one is the default.
ArrayStep(s, a) ==
    LET n == s.defaults + (IF a.default THEN 1 ELSE 0)
    IN  [ok |-> s.ok /\ a.ok /\ a.id \notin s.seen \cup {""} /\ n <= 1,
         seen |-> s.seen \cup {a.id}, defaults |-> n]

ArraysAccepted(c) ==
    /\ c # << >>
    /\ LET scan[n \in 0..Len(c[1])] ==
               IF n = 0 THEN [ok |-> TRUE, seen |-> {}, defaults |-> 0]
                        ELSE ArrayStep(scan[n - 1], c[1][n])
       IN  scan[Len(c[1])].ok

\* The zone of an array, if it has one: its label key is the one seen first.
ZoneStep(s, a) ==
    IF a.key = "" /\ a.zone = ""
      THEN [s EXCEPT !.ok = @ /\ a.id # ""]
      ELSE [ok |-> /\ s.ok /\ a.id # "" /\ a.key # ""
                   /\ s.labelKey \in {"", a.key} /\ a.zone # "",
            labelKey |-> IF s.labelKey = "" THEN a.key ELSE s.labelKey,
            zoned |-> s.zoned + 1]

ZonesAccepted_mut(c) == \* bug: arrays without a zone are not counted
    /\ c # << >>
    /\ LET scan[n \in 0..Len(c[1])] ==
               IF n = 0 THEN [ok |-> TRUE, labelKey |-> "", zoned |-> 0]
                        ELSE ZoneStep(scan[n - 1], c[1][n])
       IN  scan[Len(c[1])].ok

ZonesAccepted(c) ==
    /\ c # << >>
    /\ LET scan[n \in 0..Len(c[1])] ==
               IF n = 0 THEN [ok |-> TRUE, labelKey |-> "", zoned |-> 0]
                        ELSE ZoneStep(scan[n - 1], c[1][n])
           last == scan[Len(c[1])]
       IN  last.ok /\ last.zoned \in {0, Len(c[1])}

(***************************************************************************)
(* The Secrets the pods mount, or take a variable from: those without      *)
(* which they do not start.                                                *)
(***************************************************************************)
\* PowerScale and PowerFlex: validation unless it is skipped.
getApplyCertVolume(envs) ==
    Certs(LastOf(envs, "skip", 0),
          LastOf(envs, "count", IF envs = << >> \/ (Len(envs) = 1 /\ envs[1].name # "count")
                                  THEN 0 ELSE 1))

getApplyCertVolumePowerstore(envs) ==
    Certs(LastOf(envs, "skip", 1),
          LastOf(envs, "count", IF envs = << >> \/ (Len(envs) = 1 /\ envs[1].name # "count")
                                  THEN 0 ELSE 1))

getApplyCertVolumeUnity(envs) == Certs(LastOf(envs, "skip", 1), LastOf(envs, "count", 1))

\* The certificates of a PowerMax driver are optional; COSI has none.
CertVolume(cr) ==
    IF cr.common = << >> THEN {} ELSE
    Range(CASE cr.type \in {"powerscale", "powerflex"} -> getApplyCertVolume(Envs(cr))
            [] cr.type = "powerstore" -> getApplyCertVolumePowerstore(Envs(cr))
            [] cr.type = "unity"      -> getApplyCertVolumeUnity(Envs(cr))
            [] OTHER                  -> << >>)

\* The volume with the credentials: only PowerScale and PowerMax use authSecret.
DriverVolumes(cr) ==
    {IF cr.type \in {"powerscale", "powermax"} THEN Credentials(cr) ELSE Config}
    \cup (IF cr.type = "powermax" THEN {ProxyTLS} ELSE {})
    \cup (IF cr.type = "powerflex" /\ cr.metricsTLS THEN {MetricsTLS} ELSE {})

\* The authorization sidecar, injected into the controller and the nodes.
AuthVolumes(cr) ==
    IF "authorization" \notin Range(cr.modules) THEN {}
    ELSE {Tokens} \cup (IF cr.skipAuth THEN {} ELSE {RootCertificate})

Mounts(cr) == CertVolume(cr) \cup DriverVolumes(cr) \cup AuthVolumes(cr)

(***************************************************************************)
(* The reconciles.                                                         *)
(***************************************************************************)
VARIABLES
    cr,       \* the CR, without its version
    edited,   \* whether it was changed since the worker has read it
    secrets,  \* the objects the operator's cache shows
    content,  \* what the Secret of a PowerFlex driver holds
    worker,   \* << >> or <<the reconcile>>
    driver,   \* << >> or <<what the reconcile that deployed it had read>>
    changes, faults

own == <<cr, edited, secrets, content, worker, driver, changes, faults>>
allVars == <<vars, own>>

\* The objects that the checks of a CR look for.
NamesOf(r) == {c.name : c \in {x \in Range(Checks(r)) : x.kind # "upgrade"}}

\* And those of every CR of a driver type.
Names(t) == UNION {NamesOf(r) : r \in {x \in CRs : x.type = t}}

ChecksInit ==
    /\ Init
    /\ cr \in CRs /\ edited = FALSE
    /\ secrets = Names(cr.type) \/ \E s \in NamesOf(cr) : secrets = Names(cr.type) \ {s}
    /\ content \in IF cr.type = "powerflex" THEN Contents ELSE {<< >>}
    /\ worker = << >> /\ driver = << >> /\ changes = 0 /\ faults = 0

Change == changes < MaxChanges /\ changes' = changes + 1

\* The user changes the version in the CR, or the rest of it.
EditCR ==
    /\ Change
    /\ \/ EditVersion /\ UNCHANGED cr
       \/ cr' \in {r \in CRs \ {cr} : r.type = cr.type} /\ UNCHANGED vars
    /\ edited' = (worker # << >>)
    /\ UNCHANGED <<secrets, content, worker, driver, faults>>

\* The user creates or deletes an object, or changes the PowerFlex Secret.
ChangeSecrets ==
    /\ Change
    /\ \/ /\ \E s \in NamesOf(cr) : secrets' = IF s \in secrets THEN secrets \ {s}
                                                               ELSE secrets \cup {s}
          /\ UNCHANGED content
       \/ cr.type = "powerflex" /\ content' \in Contents \ {content} /\ UNCHANGED secrets
    /\ UNCHANGED <<vars, cr, edited, worker, driver, faults>>

Start_mut == \* bug: a version without an upgrade-path.yaml is not refused
    /\ worker = << >> /\ SpecAccepted(cr)
    /\ worker' = <<[version |-> wanted, todo |-> Checks(cr),
                    read |-> [cr |-> cr, found |-> {}, unread |-> {},
                              arrays |-> << >>, zones |-> << >>]]>>
    /\ edited' = FALSE
    /\ UNCHANGED <<vars, cr, secrets, content, driver, changes, faults>>

\* Reconcile reads the CR.  A CR refused for what it says, or a version
\* without an upgrade-path.yaml, ends the reconcile with nothing changed.
Start ==
    /\ worker = << >> /\ SpecAccepted(cr) /\ wanted \in Supported
    /\ worker' = <<[version |-> wanted, todo |-> Checks(cr),
                    read |-> [cr |-> cr, found |-> {}, unread |-> {},
                              arrays |-> << >>, zones |-> << >>]]>>
    /\ edited' = FALSE
    /\ UNCHANGED <<vars, cr, secrets, content, driver, changes, faults>>

Working == worker # << >> /\ worker[1].todo # << >>

Passes(w, c) ==
    CASE c.kind = "upgrade" -> annotation = << >> \/ IsValidUpgrade(annotation[1], w.version)
      [] c.kind = "get"     -> c.name \in secrets
      [] c.kind = "arrays"  -> c.name \in secrets /\ ArraysAccepted(content)
      [] c.kind = "zones"   -> c.name \in secrets /\ ZonesAccepted(content)

\* One check, which passes or ends the reconcile with an error.
RunCheck ==
    /\ Working
    /\ LET w == worker[1]
           c == Head(w.todo)
       IN  worker' = IF ~Passes(w, c) THEN << >>
                     ELSE <<[w EXCEPT
                               !.todo = Tail(@),
                               !.read.found = IF c.kind = "upgrade" THEN @ ELSE @ \cup {c.name},
                               !.read.arrays = IF c.kind = "arrays" THEN content ELSE @,
                               !.read.zones = IF c.kind = "zones" THEN content ELSE @]>>
    /\ UNCHANGED <<vars, cr, edited, secrets, content, driver, changes, faults>>

\* A Get fails with an error other than NotFound.  The check passes, unless
\* it needs what the Secret holds: GetSecret returns an empty one.
GetFails ==
    /\ Working /\ faults < MaxFaults /\ faults' = faults + 1
    /\ LET w == worker[1]
           c == Head(w.todo)
       IN  /\ c.kind # "upgrade"
           /\ worker' = IF c.kind # "get" THEN << >>
                        ELSE <<[w EXCEPT !.todo = Tail(@), !.read.unread = @ \cup {c.name}]>>
    /\ UNCHANGED <<vars, cr, edited, secrets, content, driver, changes>>

Passed == worker # << >> /\ worker[1].todo = << >>

Annotate_mut == \* bug: a conflict is not noticed
    /\ Passed /\ annotation # <<worker[1].version>>
    /\ annotation' = <<worker[1].version>> /\ previous' = annotation
    /\ UNCHANGED <<wanted, own>>

\* The version annotation is written: the API server refuses the update of a
\* CR that was changed since it was read.
Annotate ==
    /\ Passed /\ annotation # <<worker[1].version>>
    /\ IF edited
         THEN worker' = << >> /\ UNCHANGED <<annotation, previous>>
         ELSE annotation' = <<worker[1].version>> /\ previous' = annotation /\ UNCHANGED worker
    /\ UNCHANGED <<wanted, cr, edited, secrets, content, driver, changes, faults>>

\* SyncCSM: getDriverConfig makes the workloads, the applied configuration is
\* written to the CR, which may be refused likewise, and they are applied.
Sync ==
    /\ Passed /\ annotation = <<worker[1].version>>
    /\ LET read == worker[1].read
       IN  driver' = IF edited \/ (read.cr.type \notin {"powermax", "cosi"} /\ ~Parses(read.cr))
                       THEN driver ELSE <<read>>
    /\ worker' = << >>
    /\ UNCHANGED <<vars, cr, edited, secrets, content, changes, faults>>

ChecksNext == EditCR \/ ChangeSecrets \/ Start \/ RunCheck \/ GetFails \/ Annotate \/ Sync

ChecksSpec == ChecksInit /\ [][ChecksNext]_allVars

ReadType(r) ==
    /\ r.cr \in CRs /\ r.found \cup r.unread \subseteq NamesOf(r.cr)
    /\ {r.arrays, r.zones} \subseteq Contents

ChecksTypeOK ==
    /\ TypeOK
    /\ cr \in CRs /\ edited \in BOOLEAN /\ secrets \subseteq Names(cr.type) /\ content \in Contents
    /\ \A w \in Range(worker) : w.version \in Supported /\ IsSuffix(w.todo, Checks(w.read.cr))
    /\ \A r \in {w.read : w \in Range(worker)} \cup Range(driver) : ReadType(r)
    /\ changes \in 0..MaxChanges /\ faults \in 0..MaxFaults

(***************************************************************************)
(* Properties.                                                             *)
(***************************************************************************)
\* Pods that cannot start for want of a Secret are not deployed: the reconcile
\* that deployed the driver had looked for every Secret its pods mount, and
\* found it, or failed to read it.  The Secrets that are looked for and those
\* that are mounted are worked out from the CR in different functions of the
\* drivers, with different defaults.
MountedWereFound ==
    \A d \in Range(driver) : Mounts(d.cr) \subseteq d.found \cup d.unread

\* A PowerFlex driver is deployed only after its Secret had arrays with
\* different names, at most one default among them, and had, maybe at a later
\* moment, either no zone or a zone for every array with one label key: what
\* GetMDMFromSecret and ValidateZonesInSecret establish in one pass each.
ArraysUsable ==
    \A d \in Range(driver) : d.cr.type = "powerflex" =>
        LET a == d.arrays[1]
            z == d.zones[1]
        IN  /\ \A i, j \in DOMAIN a : i # j => a[i].id # a[j].id /\ ~(a[i].default /\ a[j].default)
            /\ \E key \in {z[i].key : i \in DOMAIN z} \cup {""} :
                 \A i \in DOMAIN z : z[i].key = key /\ (z[i].zone = "" <=> key = "")

\* The reconciles change the recorded version only as ConfigVersion says: to
\* the version the CR asks for at that moment, from one that may be upgraded
\* to it, although the check was made earlier and on an older copy of the CR.
VersionsAccepted == Spec
=============================================================================
