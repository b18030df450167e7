--------------------------- MODULE MCContentWatch ---------------------------
(***************************************************************************)
(* An instance of ContentWatch for TLC; OperatorProcess has the other one.  *)
(***************************************************************************)
EXTENDS ContentWatch

\* Two CSMs with the same name in different namespaces.
SameName == {[name |-> "isilon", ns |-> "isilon"], [name |-> "isilon", ns |-> "isilon-2"]}
=============================================================================
