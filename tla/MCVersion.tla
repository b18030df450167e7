----------------------------- MODULE MCVersion -----------------------------
(***************************************************************************)
(* Instances of ConfigVersion for TLC, with the tables of operatorconfig.  *)
(***************************************************************************)
EXTENDS ConfigVersion

V(a, b, c) == [major |-> a, minor |-> b, patch |-> c]

\* driverconfig: the minimum is two releases back.  Releases 2.15 to 2.17 are
\* the shipped ones; 2.14, of an earlier operator, is added by the same rule,
\* so that a change can be too long.
DriverMinPath ==
    [v \in {V(2, 14, 0), V(2, 15, 0), V(2, 16, 0), V(2, 16, 1), V(2, 17, 0)} |->
        V(2, v.minor - 2, 0)]

\* And a release without an upgrade-path.yaml.
DriverVersions == DOMAIN DriverMinPath \cup {V(2, 12, 0)}

\* moduleconfig/authorization.
AuthMinPath ==
    [v \in {V(2, 3, 0), V(2, 4, 0), V(2, 5, 0)} |-> V(2, IF v.minor = 3 THEN 1 ELSE 2, 0)]

\* Version 1.14 was shipped by earlier operators.
AuthVersions == DOMAIN AuthMinPath \cup {V(1, 14, 0)}
=============================================================================
