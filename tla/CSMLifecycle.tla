---------------------------- MODULE CSMLifecycle ----------------------------
(***************************************************************************)
(* What the operator promises about one ContainerStorageModule (CR) and    *)
(* the objects it is answerable for, without queue, caches or worker:      *)
(* objects are applied only while the finalizer holds the CR, a deletion   *)
(* is never taken back, and the CR goes away only after its objects.       *)
(***************************************************************************)
CONSTANT Objs   \* the objects of the driver

VARIABLES
    phase,      \* of the CR
    objs        \* the objects the operator still has to remove some day

vars == <<phase, objs>>

\* "open": the CR exists without finalizer; "held": with it.
Phases == {"absent", "open", "held", "deleting"}

Init == phase = "absent" /\ objs = {}

Create == phase = "absent" /\ phase' = "open" /\ UNCHANGED objs

Hold == phase = "open" /\ phase' = "held" /\ UNCHANGED objs

\* kubectl delete: immediate unless the finalizer is there.
Delete ==
    /\ \/ phase = "open" /\ phase' = "absent"
       \/ phase = "held" /\ phase' = "deleting"
    /\ UNCHANGED objs

\* A sync that began before the deletion may still be applying objects.
Apply ==
    /\ phase \in {"held", "deleting"}
    /\ \E o \in Objs : objs' = objs \cup {o}
    /\ UNCHANGED phase

\* Objects are removed, or given up where the code says so.
Remove == objs' \in SUBSET objs /\ UNCHANGED phase

Release ==
    /\ phase = "deleting" /\ objs = {}
    /\ phase' = "absent"
    /\ UNCHANGED objs

Next == Create \/ Hold \/ Delete \/ Apply \/ Remove \/ Release

Spec == Init /\ [][Next]_vars
=============================================================================
