-------------------------- MODULE MCClusterCreators --------------------------
(* Two concurrent restores and one example program, over the two cluster  *)
(* names the examples use and one backup.                                  *)
EXTENDS ClusterCreators, TLC

CONSTANTS i1, i2, p1, b1

MCInvocations == {i1, i2}
MCClusters    == {"mysql-cluster1", "redis-cluster"}
MCBackups     == {b1}

\* the command lines: a generated name; a given name; no --backup
MCFlagChoices ==
  { [backup |-> b1, name |-> NoName],
    [backup |-> b1, name |-> "mysql-cluster1"],
    [backup |-> NoName, name |-> "mysql-cluster1"] }
=============================================================================
