-------------------------- MODULE MCAuthorization --------------------------
(***************************************************************************)
(* Instances of AuthorizationServer for TLC.                               *)
(***************************************************************************)
EXTENDS AuthorizationServer

Sample ==
    [v25 |-> TRUE, comps |-> {"cert-manager", "proxy-server", "nginx-gateway-fabric"},
     config |-> "blank", creds |-> TRUE, custom |-> 0, force |-> TRUE]

\* The sample of v2.4 with a SecretProviderClass, its upgrade under the old
\* component name, the sample of v2.5, and that sample with both kinds of
\* storage credentials.
Upgrades ==
    {[Sample EXCEPT !.v25 = FALSE, !.comps = {"cert-manager", "proxy-server", "nginx"},
                      !.config = "spc"],
     [Sample EXCEPT !.comps = {"cert-manager", "proxy-server", "nginx"}, !.config = "none",
                      !.custom = 2],
     Sample, [Sample EXCEPT !.creds = FALSE]}

\* The user has a gateway.
WithOwnGateway == {[Sample EXCEPT !.comps = {"cert-manager", "proxy-server"}]}
=============================================================================
