---------------------------- MODULE MCReconciler ----------------------------
(***************************************************************************)
(* Instances of CSMReconciler for TLC.                                     *)
(***************************************************************************)
EXTENDS CSMReconciler

Plain == [ver |-> 1, force |-> "unset", modules |-> {}, dr |-> "off", metrics |-> {}]

\* Modules on and off; on PowerStore the DR CRD is applied or taken away too.
ModuleSpecs ==
    {[Plain EXCEPT !.dr = "remove"],
     [Plain EXCEPT !.modules = {"replication", "observability"}, !.dr = "apply"]}

\* Modules off with metrics on (PowerFlex), and the other way round.
MetricsSpecs ==
    {[Plain EXCEPT !.metrics = {"service", "monitor"}],
     [Plain EXCEPT !.modules = {"replication", "observability"}]}

ForceSpecs == {Plain, [Plain EXCEPT !.force = "false"]}

\* Three versions; 1 -> 2 and 2 -> 3 are valid upgrades, 1 -> 3 is not.
VersionSpecs == {[Plain EXCEPT !.ver = v] : v \in 1..3}

AllPairs == (1..3) \X (1..3)

StepwisePairs == {<<1, 2>>, <<2, 3>>, <<2, 1>>, <<3, 2>>}
=============================================================================
