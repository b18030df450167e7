-------------------------- MODULE MCOperatorProcess --------------------------
(***************************************************************************)
(* Instances of OperatorProcess for TLC.                                   *)
(***************************************************************************)
EXTENDS OperatorProcess

CR(listed, sidecar, force) ==
    [listed |-> listed, sidecar |-> sidecar, forceRemoveDriver |-> force]

\* Every CR lists the module and says how to deploy the proxy; a driver with a
\* proxy Deployment may be kept on deletion.
Explicit == {CR(TRUE, "true", TRUE), CR(TRUE, "bad", FALSE),
             CR(TRUE, "false", TRUE), CR(TRUE, "false", FALSE)}

\* The full manifest, or the minimal manifest, which leaves the module out.
WithMinimal == {CR(TRUE, "true", TRUE), CR(TRUE, "false", TRUE),
                CR(FALSE, "unset", TRUE)}

\* The module is listed, with or without the DeployAsSidecar variable.
WithDefault == {CR(TRUE, "unset", TRUE), CR(TRUE, "true", TRUE), CR(TRUE, "false", TRUE)}
=============================================================================
