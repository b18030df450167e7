---------------------------- MODULE MCDriverPods ----------------------------
(***************************************************************************)
(* Instances of DriverPods for TLC.                                        *)
(***************************************************************************)
EXTENDS DriverPods

NoComponents == [authorization |-> << >>, resiliency |-> << >>, replication |-> << >>,
                 csireverseproxy |-> << >>]

Item(image, envs) == [enabled |-> "unset", image |-> image, envs |-> envs]

Enabled(value, envs) == [enabled |-> value, image |-> << >>, envs |-> envs]

Proxy == [n \in {"karavi-authorization-proxy"} |-> Item(<< >>, << >>)]

WithAuthorization == [NoComponents EXCEPT !.authorization = Proxy]

Plain(driver) ==
    [driver |-> driver, version |-> TRUE, registry |-> << >>, retain |-> FALSE,
     image |-> << >>, envs |-> << >>, sideCars |-> << >>, initContainers |-> << >>,
     sdc |-> TRUE, metricsTLS |-> FALSE, modules |-> << >>, components |-> WithAuthorization,
     authEnvs |-> << >>, driverSecret |-> TRUE, useSecret |-> FALSE, proxySidecar |-> TRUE,
     sftp |-> "no envs"]

SkipCert(value) == Env("SKIP_CERTIFICATE_VALIDATION", value)

\* PowerFlex: a mirror with all modules and a sidecar turned off; images of the
\* user's own, with optional sidecars on and a port for podmon; a mirror below a
\* path, with a certificate.
PowerFlexCRs ==
    LET plain == Plain("powerflex")
    IN  {[plain EXCEPT !.registry = <<"mirror.io">>, !.retain = TRUE, !.sftp = "unset",
                       !.sideCars = [provisioner |-> Enabled("false", << >>)],
                       !.modules = <<"authorization", "resiliency", "replication">>],
         [plain EXCEPT !.version = FALSE, !.image = <<"my.io", "flex">>, !.metricsTLS = TRUE,
                       !.envs = [X_CSI_DEBUG |-> "true"], !.sftp = "true",
                       !.sideCars = [n \in {"provisioner", "external-health-monitor", "sdc-monitor"} |->
                            IF n = "provisioner" THEN Item(<<"my.io", n>>, [ADDRESS |-> "mine"])
                                                 ELSE Enabled("true", [HOST_PID |-> "1"])],
                       !.initContainers = [sdc |-> Item(<<"my.io", "sdc">>, << >>)],
                       !.modules = <<"resiliency">>,
                       !.components = [NoComponents EXCEPT !.resiliency =
                            [n \in {"podmon-controller", "podmon-node"} |->
                                Item(<<"my.io", n>>, [X_CSI_PODMON_API_PORT |-> "8083"])]]],
         [plain EXCEPT !.registry = <<"mirror.io", "csm">>, !.retain = TRUE, !.sdc = FALSE,
                       !.modules = <<"replication", "authorization">>,
                       !.authEnvs = <<SkipCert(FALSE), Env("INSECURE", TRUE)>>]}

\* PowerMax: mounted credentials, with the proxy as a sidecar and on its own,
\* there with a module that lists only one of its components; credentials in
\* variables, with an authorization sidecar, which then cannot be mounted.
PowerMaxCRs ==
    LET plain == Plain("powermax")
    IN  {[plain EXCEPT !.registry = <<"mirror.io">>, !.useSecret = TRUE,
                       !.modules = <<"authorization", "resiliency">>],
         [plain EXCEPT !.useSecret = TRUE, !.proxySidecar = FALSE, !.driverSecret = FALSE,
                       !.modules = <<"resiliency", "authorization">>,
                       !.components = [WithAuthorization EXCEPT !.resiliency =
                            [n \in {"podmon-node"} |-> Item(<< >>, << >>)]],
                       !.authEnvs = <<SkipCert(FALSE)>>],
         [plain EXCEPT !.modules = <<"authorization">>]}

AllCRs == PowerFlexCRs \cup PowerMaxCRs \cup
    {[Plain("powerstore") EXCEPT !.modules = <<"authorization", "replication">>,
                                 !.authEnvs = <<SkipCert(TRUE), Env("INSECURE", FALSE)>>]}

FromMap(keys, release) == [images |-> [k \in keys |-> <<"map.io", release, k>>], valid |-> TRUE]

\* A ConfigMap that has some drivers and podmon only; a later one that has the
\* authorization sidecar too; one with an empty image.
Maps ==
    {FromMap({"powerflex", "powermax", "podmon"}, "r1"),
     FromMap({"sdc", "karavi-authorization-proxy"}, "r2"),
     [FromMap({"karavi-authorization-proxy"}, "r3") EXCEPT !.valid = FALSE]}

\* A registry below a path, with retainImageRegistryPath.
MirrorCRs == {c \in PowerFlexCRs : c.registry = <<"mirror.io", "csm">>}
             \cup {[Plain("powerflex") EXCEPT !.registry = <<"mirror.io", "csm">>, !.retain = TRUE]}

NoMap == {FromMap({}, "r1")}

DomainSegments == {"quay.io", "mirror.io", "my.io", "map.io"}
=============================================================================
