----------------------------- MODULE MCCluster -----------------------------
(***************************************************************************)
(* Instances of Cluster for TLC.                                           *)
(***************************************************************************)
EXTENDS Cluster

OneStock == {"BBCA"}
Hash1    == [s \in OneStock |-> 1]

=============================================================================
