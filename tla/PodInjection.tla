---------------------------- MODULE PodInjection ----------------------------
(***************************************************************************)
(* What SyncCSM changes in the pods of GetController and GetNode: the      *)
(* credentials and the reverse proxy of PowerMax, the volumes PowerFlex    *)
(* can do without, and the sidecars of the modules with the rules their    *)
(* service account needs.                                                  *)
(***************************************************************************)
EXTENDS PodTemplates

\* The containers of a pod with the given names, changed by Op.
MapNamed(pod, names, Op(_)) ==
    [pod EXCEPT !.containers = [i \in DOMAIN @ |-> IF @[i].name \in names THEN Op(@[i]) ELSE @[i]]]

\* append(..., EnvVar), which does not look for the name first.
AppendEnv(pod, names) ==
    MapNamed(pod, {"driver"},
             LAMBDA c : [c EXCEPT !.env = @ \o [i \in DOMAIN names |-> Env(names[i], "set")]])

(***************************************************************************)
(* The image of a module's sidecar: as the component of the CR says; by    *)
(* name and without an image of the CR's if the CR lists no component; the *)
(* template's if it lists only others.                                     *)
(***************************************************************************)
Listed(cr, module, component) == component \in DOMAIN cr.components[module]

ComponentImage(cr, matched, module, component, key, image) ==
    IF Listed(cr, module, component)
    THEN GetFinalImage(cr, matched, key, cr.components[module][component].image, image)
    ELSE IF cr.components[module] = << >> THEN GetFinalImage(cr, matched, key, << >>, image)
    ELSE image

(***************************************************************************)
(* PowerMax: its credentials are mounted, or variables taken from a Secret.*)
(***************************************************************************)
CredentialVariables == <<"X_CSI_POWERMAX_USER", "X_CSI_POWERMAX_PASSWORD">>

SetPowermaxConfigContent(pod) ==
    MapNamed(pod, {"driver"}, LAMBDA c : AddEnv(c, CredentialVariables))

DynamicallyMountPowermaxContent(pod, cr) ==
    IF cr.useSecret
    THEN MapNamed([pod EXCEPT !.volumes = Append(@, "powermax-reverseproxy-secret")],
                  {"driver", "reverseproxy"},
                  LAMBDA c : AddEnv([c EXCEPT !.mounts = @ \cup {"powermax-reverseproxy-secret",
                                                                 "powermax-config-params"}],
                                    <<"X_CSI_REVPROXY_USE_SECRET">>))
    ELSE SetPowermaxConfigContent(pod)

setReverseProxyConfigMapMounts(pod) ==
    MapNamed(SetPowermaxConfigContent([pod EXCEPT !.volumes = Append(@, "configmap-volume")]),
             {"reverseproxy"}, LAMBDA c : [c EXCEPT !.mounts = @ \cup {"configmap-volume"}])

ReverseProxyInjectDeployment(pod, cr, matched) ==
    LET image == ComponentImage(cr, matched, "csireverseproxy", "csipowermax-reverseproxy",
                                "csipowermax-reverseproxy", Default("reverseproxy"))
        with  == AppendEnv([pod EXCEPT !.containers =
                              Append(@, Container("reverseproxy", image, {"cert-dir"}, << >>))],
                           <<"X_CSI_POWERMAX_SIDECAR_PROXY_PORT">>)
    IN  IF cr.useSecret THEN DynamicallyMountPowermaxContent(with, cr)
                        ELSE setReverseProxyConfigMapMounts(with)

AddReverseProxyServiceName(pod) == AppendEnv(pod, <<"X_CSI_POWERMAX_PROXY_SERVICE_NAME">>)

(***************************************************************************)
(* PowerFlex: a volume goes together with the first mount of it.           *)
(***************************************************************************)
\* field is "containers" (RemoveVolume) or "init" (RemoveInitVolume).
RemoveVolume(pod, field, volume) ==
    LET mounting == {i \in DOMAIN pod[field] : volume \in pod[field][i].mounts}
    IN  [pod EXCEPT
           !.volumes = SelectSeq(@, LAMBDA v : v # volume),
           ![field]  = [i \in DOMAIN @ |->
                          IF i \in mounting /\ \A j \in mounting : i <= j
                          THEN [@[i] EXCEPT !.mounts = @ \ {volume}] ELSE @[i]]]

\* Without node variables SFTP is off; with them, only if the variable says so.
SftpOff(cr) == cr.sftp \in {"no envs", "false"}

AdjustController(pod, cr, matched) ==
    IF cr.driver # "powermax" THEN pod
    ELSE IF cr.proxySidecar THEN ReverseProxyInjectDeployment(pod, cr, matched)
    ELSE DynamicallyMountPowermaxContent(AddReverseProxyServiceName(pod), cr)

AdjustNode_mut(pod, cr, openShift) == \* bug: the volume goes, its mount stays
    CASE cr.driver = "powermax" -> DynamicallyMountPowermaxContent(pod, cr)
      [] cr.driver = "powerflex" ->
           [pod EXCEPT !.volumes = SelectSeq(@, LAMBDA v : v # "sftp-keys")]
      [] OTHER -> pod

AdjustNode(pod, cr, openShift) ==
    CASE cr.driver = "powermax" -> DynamicallyMountPowermaxContent(pod, cr)
      [] cr.driver = "powerflex" ->
           LET host == IF openShift THEN RemoveVolume(pod, "containers", "scaleio-path-bin")
                                    ELSE pod
           IN  IF SftpOff(cr) THEN RemoveVolume(host, "init", "sftp-keys") ELSE host
      [] OTHER -> pod

(***************************************************************************)
(* Authorization.  cr.authEnvs are the two certificate variables of the    *)
(* CR, in its order; a missing SKIP_CERTIFICATE_VALIDATION is appended as  *)
(* true.  karavi: karavi-authorization-config is found by this read.       *)
(***************************************************************************)
AuthEnvs(cr) ==
    cr.authEnvs \o When(Named(cr.authEnvs, "SKIP_CERTIFICATE_VALIDATION") = {},
                        <<Env("SKIP_CERTIFICATE_VALIDATION", TRUE)>>)

\* The container looks at the last of the two variables, whichever it is.
SkipCertMount(cr) == Last(AuthEnvs(cr)).value

\* The volumes look at one of them only.
SkipCertVolume(cr) ==
    \A i \in Named(AuthEnvs(cr), "SKIP_CERTIFICATE_VALIDATION") : AuthEnvs(cr)[i].value

\* Not for versions before v2.4.0, which mount it whether it is there or not.
UsesDriverSecret(cr, karavi) == cr.driverSecret /\ ~karavi

getAuthApplyCR(cr, matched, karavi) ==
    Container("karavi-authorization-proxy",
              GetFinalImage(cr, matched, "karavi-authorization-proxy", << >>,
                            Default("karavi-authorization-proxy")),
              {ParamsVolume(cr.driver),
               IF UsesDriverSecret(cr, karavi) THEN ConfigVolume(cr.driver)
                                               ELSE "karavi-authorization-config"}
              \cup {v \in {"proxy-server-root-certificate"} : ~SkipCertMount(cr)},
              <<Env("PROXY_HOST", "default")>>)

getAuthApplyVolumes(cr, karavi) ==
    When(~UsesDriverSecret(cr, karavi), <<"karavi-authorization-config">>)
    \o When(~SkipCertVolume(cr), <<"proxy-server-root-certificate">>)

\* The sidecar as AuthInjectDeployment and AuthInjectDaemonset append it.
AuthContainer(cr, matched, karavi) ==
    UpdateContainerApply(cr.components["authorization"], getAuthApplyCR(cr, matched, karavi), cr, matched)

(***************************************************************************)
(* Resiliency and replication.                                             *)
(***************************************************************************)
Podmon(cr, matched, component) ==
    LET env == <<Env("X_CSI_PODMON_API_PORT", "default")>>
    IN  Container("podmon",
                  ComponentImage(cr, matched, "resiliency", component, "podmon", Default("podmon")),
                  {"socket-dir", ParamsVolume(cr.driver)},
                  IF Listed(cr, "resiliency", component)
                  THEN ReplaceAllApplyCustomEnvs(env, cr.components["resiliency"][component].envs)
                  ELSE env)

\* Both pods take the port of podmon-node.
PodmonPort(cr) ==
    /\ Listed(cr, "resiliency", "podmon-node")
    /\ "X_CSI_PODMON_API_PORT" \in DOMAIN cr.components["resiliency"]["podmon-node"].envs

InjectPodmon(pod, podmon, variables) ==
    AppendEnv([pod EXCEPT !.containers = <<podmon>> \o @, !.rules = @ \cup {"podmon"}], variables)

PodmonVariables == <<"X_CSI_PODMON_ENABLED", "X_CSI_PODMON_ARRAY_CONNECTIVITY_POLL_RATE">>

ResiliencyInjectDeployment(pod, cr, matched) ==
    InjectPodmon(pod, Podmon(cr, matched, "podmon-controller"),
                 PodmonVariables \o When(PodmonPort(cr), <<"X_CSI_PODMON_API_PORT">>))

\* The port is set even if it is empty.
ResiliencyInjectDaemonset(pod, cr, matched) ==
    InjectPodmon(pod, Podmon(cr, matched, "podmon-node"),
                 Append(PodmonVariables, "X_CSI_PODMON_API_PORT"))

ReplicationInjectDeployment(pod, cr, matched) ==
    LET image == ComponentImage(cr, matched, "replication", "dell-csi-replicator",
                                "dell-csi-replicator", Default("dell-csi-replicator"))
    IN  AppendEnv([pod EXCEPT
                     !.containers = Append(@, Container("dell-csi-replicator", image,
                                        {"socket-dir", ParamsVolume(cr.driver)}, << >>)),
                     !.rules = @ \cup {"replication"}],
                  <<"X_CSI_REPLICATION_CONTEXT_PREFIX", "X_CSI_REPLICATION_PREFIX">>)
=============================================================================
