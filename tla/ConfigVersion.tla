--------------------------- MODULE ConfigVersion ---------------------------
(***************************************************************************)
(* Which changes of a component's config version the operator accepts: the *)
(* version comparison, the upgrade paths of operatorconfig, the check that *)
(* PreChecks makes, and the annotation that records the accepted version.  *)
(***************************************************************************)
EXTENDS Integers

CONSTANTS
    Versions,   \* the versions a CR may ask for
    MinPath,    \* minUpgradePath of the versions that have an upgrade-path.yaml
    AuthServer  \* whether the CR is an authorization proxy server

VersionType == [major : Nat, minor : Nat, patch : Nat]

Supported == DOMAIN MinPath

SameRelease(v, w) == v.major = w.major /\ v.minor = w.minor

\* The shipped tables: a minimum is the first version of a release, and the
\* patches of a release have the same one.
ASSUME TablesAssumption ==
    /\ Versions \subseteq VersionType /\ Supported \subseteq VersionType
    /\ AuthServer \in BOOLEAN
    /\ \A v \in Supported : MinPath[v] \in VersionType /\ MinPath[v].patch = 0
    /\ \A v, w \in Supported : SameRelease(v, w) => MinPath[v] = MinPath[w]

\* MinVersionCheck parses the major and the minor number only.
MinVersionCheck(min, v) ==
    v.major > min.major \/ (v.major = min.major /\ v.minor >= min.minor)

\* getUpgradeInfo, then the comparison with its result.
AtLeastMinPath(v, other) == v \in Supported /\ MinVersionCheck(MinPath[v], other)

IsValidUpgrade_mut(old, new) == \* bug: always the table of the new version
    old = new \/ AtLeastMinPath(new, old)

IsValidUpgrade(old, new) ==
    \/ old = new
    \/ IF MinVersionCheck(old, new) THEN AtLeastMinPath(new, old)
                                    ELSE AtLeastMinPath(old, new)

(***************************************************************************)
(* The CR.  Absent is a CR without the annotation; an annotation found at  *)
(* the start was written by an earlier release of the operator.            *)
(***************************************************************************)
VARIABLES
    wanted,     \* the config version the spec asks for
    annotation, \* << >> or <<version>>
    previous    \* history: the annotation before the last change

vars == <<wanted, annotation, previous>>

Init ==
    /\ wanted \in Versions
    /\ annotation \in {<< >>} \cup {<<v>> : v \in Versions}
    /\ previous = << >>

EditVersion ==
    /\ wanted' \in Versions \ {wanted}
    /\ UNCHANGED <<annotation, previous>>

SwitchesMajor(old, new) == {old.major, new.major} = {1, 2}

\* checkUpgrade returns an error, or false for a switch between the
\* authorization majors; PreChecks returns no error for the latter.
UpgradeAccepted ==
    annotation # << >> =>
        \/ AuthServer /\ SwitchesMajor(annotation[1], wanted)
        \/ IsValidUpgrade(annotation[1], wanted)

\* A reconcile whose PreChecks pass: applyConfigVersionAnnotations.
Accept ==
    /\ UpgradeAccepted
    /\ annotation # <<wanted>>
    /\ annotation' = <<wanted>> /\ previous' = annotation
    /\ UNCHANGED wanted

Next == EditVersion \/ Accept

Spec == Init /\ [][Next]_vars

TypeOK ==
    /\ wanted \in Versions
    /\ annotation \in {<< >>} \cup {<<v>> : v \in Versions}
    /\ previous \in {<< >>} \cup {<<v>> : v \in Versions}

(***************************************************************************)
(* Reference definitions.                                                  *)
(***************************************************************************)
\* Semantic versioning's order, patches included.
NotNewer(v, w) ==
    \/ v.major < w.major
    \/ v.major = w.major /\ v.minor < w.minor
    \/ SameRelease(v, w) /\ v.patch <= w.patch

\* A change, in either direction, is valid when the older version is not
\* below the minimum of the newer one.
ValidChange(v, w) ==
    v = w \/ IF NotNewer(v, w) THEN NotNewer(MinPath[w], v) ELSE NotNewer(MinPath[v], w)

(***************************************************************************)
(* Properties.                                                             *)
(***************************************************************************)
\* A change of the version the operator has accepted is one the upgrade
\* tables allow by the full version order, although IsValidUpgrade compares
\* no patch numbers and looks up the table of the old version for a
\* downgrade and of the new one otherwise.
AcceptedIsValid ==
    previous # << >> /\ {previous[1], annotation[1]} \subseteq Supported
        /\ ~AuthServer => ValidChange(previous[1], annotation[1])

\* An accepted change can be undone: IsValidUpgrade takes the CR back to the
\* version it had, so that an upgrade that went wrong can be rolled back.
Undoable ==
    previous # << >> /\ {previous[1], annotation[1]} \subseteq Supported
        /\ ~AuthServer => IsValidUpgrade(annotation[1], previous[1])

(***************************************************************************)
(* Claims of comments and messages in the code.                            *)
(***************************************************************************)
\* "Cannot switch between Authorization v1 and v2".
NoMajorSwitch ==
    [][AuthServer /\ annotation # << >> /\ annotation' # annotation
         => ~SwitchesMajor(annotation[1], annotation'[1])]_vars

\* "True if the version meets or exceeds the minimum required version, false
\* otherwise", for versions "in the format vA.B.C".
MinVersionCheckIsOrder ==
    annotation # << >> /\ MinVersionCheck(wanted, annotation[1]) =>
        NotNewer(wanted, annotation[1])
=============================================================================
