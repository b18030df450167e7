---------------------------- MODULE PodTemplates ----------------------------
(***************************************************************************)
(* How a CR becomes the pods of the driver's Deployment and DaemonSet: the *)
(* image of every container, the containers that are kept, and what the    *)
(* modules inject.  DriverPods runs these operators in the order of        *)
(* SyncCSM, between changes of the cluster.                                *)
(*                                                                         *)
(* An image is the sequence of the segments of its path.  A pod has its    *)
(* containers, init containers and volumes in order; a container has a     *)
(* name, an image, the volumes it mounts and its environment.  Sidecars    *)
(* the code treats alike are represented by one, volumes it never looks at *)
(* by the socket's directory.                                              *)
(***************************************************************************)
EXTENDS Naturals, SequencesExt

CONSTANT Domains  \* the path segments that hold a dot, or are "localhost"

When(cond, seq) == IF cond THEN seq ELSE << >>

Named(seq, name) == {i \in DOMAIN seq : seq[i].name = name}

Env(name, value) == [name |-> name, value |-> value]

Container(name, image, mounts, env) ==
    [name |-> name, image |-> image, mounts |-> mounts, env |-> env]

(***************************************************************************)
(* Images.  A CR gives a registry only together with spec.version, and     *)
(* images of its own only without it (the CEL rules of the CRD).           *)
(***************************************************************************)
Default(name) == <<"quay.io", "dell", "csm", name>>

ResolveImage_mut(image, cr) == \* bug: the domain stays
    IF cr.registry = << >> THEN image
    ELSE cr.registry \o (IF cr.retain THEN image ELSE <<Last(image)>>)

ResolveImage(image, cr) ==
    IF cr.registry = << >> THEN image
    ELSE cr.registry \o
         (IF ~cr.retain THEN <<Last(image)>>
          ELSE IF Len(image) > 1 /\ Head(image) \in Domains THEN Tail(image) ELSE image)

\* A second resolution changes nothing: the path of the image is not retained,
\* or the registry is a domain and nothing else.
SafeTwice(cr) == ~cr.retain \/ (Len(cr.registry) = 1 /\ Head(cr.registry) \in Domains)

\* ConfigMap, then registry, then the image of the CR, then the template's.
\* given is the image of the CR, << >> when it has none.
GetFinalImage(cr, matched, key, given, image) ==
    IF key \in DOMAIN matched THEN matched[key]
    ELSE IF cr.registry # << >> THEN ResolveImage(image, cr)
    ELSE IF given # << >> THEN given ELSE image

ReplaceAllApplyCustomEnvs(env, given) ==
    [i \in DOMAIN env |->
        IF env[i].name \in DOMAIN given THEN Env(env[i].name, given[env[i].name]) ELSE env[i]]

\* toBeApplied: the containers the CR lists, by name.
UpdateContainerApply(toBeApplied, c, cr, matched) ==
    IF c.name \in DOMAIN toBeApplied
    THEN LET given == toBeApplied[c.name]
         IN  [c EXCEPT !.image = GetFinalImage(cr, matched, c.name, given.image, c.image),
                       !.env = ReplaceAllApplyCustomEnvs(c.env, given.envs)]
    ELSE [c EXCEPT !.image = GetFinalImage(cr, matched, c.name, << >>, c.image)]

(***************************************************************************)
(* The templates.                                                          *)
(***************************************************************************)
ParamsVolume(driver) ==
    [powerflex |-> "vxflexos-config-params", powermax |-> "powermax-config-params",
     powerstore |-> "powerstore-config-params"][driver]

\* What the authorization sidecar takes for the volume of the driver's Secret.
ConfigVolume(driver) ==
    [powerflex |-> "vxflexos-config", powermax |-> "powermax-reverseproxy-secret",
     powerstore |-> "powerstore-config"][driver]

DriverVolumes(driver) ==
    <<"socket-dir", ParamsVolume(driver)>>
    \o (IF driver = "powermax" THEN <<"cert-dir">> ELSE <<ConfigVolume(driver)>>)

ControllerTemplate(driver) ==
    [containers |->
        <<Container("provisioner", Default("provisioner"), {"socket-dir"}, <<Env("ADDRESS", "default")>>),
          Container("external-health-monitor", Default("external-health-monitor"), {"socket-dir"},
                    <<Env("ADDRESS", "default")>>),
          Container("driver", Default(driver), ToSet(DriverVolumes(driver)),
                    <<Env("X_CSI_DEBUG", "default")>>)>>,
     init    |-> << >>,
     volumes |-> DriverVolumes(driver),
     rules   |-> {"driver"}]

NodeTemplate(driver) ==
    LET flex == driver = "powerflex"
        bin  == When(flex, <<"scaleio-path-bin">>)
    IN  [containers |->
            <<Container("driver", Default(driver), ToSet(DriverVolumes(driver) \o bin),
                        <<Env("X_CSI_DEBUG", "default")>>),
              Container("registrar", Default("registrar"), {"socket-dir"},
                        <<Env("ADDRESS", "default")>>)>>
            \o When(flex, <<Container("sdc-monitor", Default("sdc"), {"socket-dir"},
                                      <<Env("HOST_PID", "default")>>)>>),
         init    |-> When(flex,
            <<Container("mdm-container", Default(driver), {"vxflexos-config"}, << >>),
              Container("sdc", Default("sdc"), {"socket-dir", "sftp-keys"},
                        <<Env("REPO_USER", "default")>>)>>),
         volumes |-> DriverVolumes(driver) \o bin \o When(flex, <<"sftp-keys">>),
         rules   |-> {"driver"}]

(***************************************************************************)
(* GetController and GetNode.                                              *)
(***************************************************************************)
RemoveContainer(cr, name, offByDefault) ==
    IF name \in DOMAIN cr.sideCars /\ cr.sideCars[name].enabled # "unset"
    THEN cr.sideCars[name].enabled = "false"
    ELSE name \in offByDefault

AddEnv(c, names) ==
    LET new == SelectSeq(names, LAMBDA n : Named(c.env, n) = {})
    IN  [c EXCEPT !.env = @ \o [i \in DOMAIN new |-> Env(new[i], "set")]]

SetDriverMetrics(cr, c) ==
    IF cr.driver = "powerflex" /\ cr.metricsTLS
    THEN AddEnv([c EXCEPT !.mounts = @ \cup {"metrics-tls"}],
                <<"X_CSI_METRICS_TLS_CERT_FILE", "X_CSI_METRICS_TLS_KEY_FILE">>)
    ELSE c

DriverContainer(cr, matched, c) ==
    [c EXCEPT !.image = GetFinalImage(cr, matched, cr.driver, cr.image, c.image),
              !.env = ReplaceAllApplyCustomEnvs(c.env, cr.envs)]

GetController(cr, matched) ==
    LET t    == ControllerTemplate(cr.driver)
        kept == SelectSeq(t.containers,
                          LAMBDA c : ~RemoveContainer(cr, c.name, {"external-health-monitor"}))
    IN  [t EXCEPT
           !.containers = [i \in DOMAIN kept |->
                IF kept[i].name = "driver"
                THEN SetDriverMetrics(cr, DriverContainer(cr, matched, kept[i]))
                ELSE UpdateContainerApply(cr.sideCars, kept[i], cr, matched)],
           !.volumes = @ \o When(cr.driver = "powerflex" /\ cr.metricsTLS, <<"metrics-tls">>)]

\* The environment of a sidecar is updated in a copy that is dropped; its
\* image is written through a pointer both copies share.
NodeSideCar(cr, matched, c) ==
    [c EXCEPT !.image = UpdateContainerApply(cr.sideCars, c, cr, matched).image]

\* UpdateInitContainerApply has resolved the image already; mdm-container runs
\* the driver's image.
InitContainer(cr, matched, c) ==
    LET updated == UpdateContainerApply(cr.initContainers, c, cr, matched)
        mdm     == c.name = "mdm-container"
        key     == IF mdm THEN cr.driver ELSE c.name
        image   == IF mdm /\ cr.image # << >> THEN cr.image ELSE updated.image
    IN  [updated EXCEPT !.image = IF key \in DOMAIN matched THEN matched[key]
                                  ELSE ResolveImage(image, cr)]

GetNode(cr, matched) ==
    LET t    == NodeTemplate(cr.driver)
        kept == SelectSeq(t.containers, LAMBDA c : ~RemoveContainer(cr, c.name, {"sdc-monitor"}))
        init == SelectSeq(t.init, LAMBDA c : c.name # "sdc" \/ cr.sdc)
    IN  [t EXCEPT
           !.containers = [i \in DOMAIN kept |->
                IF kept[i].name = "driver" THEN DriverContainer(cr, matched, kept[i])
                                           ELSE NodeSideCar(cr, matched, kept[i])],
           !.init = [i \in DOMAIN init |-> InitContainer(cr, matched, init[i])]]
=============================================================================
