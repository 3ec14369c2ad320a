--------------------------- MODULE ClusterCreators ---------------------------
(***************************************************************************)
(* Two clients of the generic create flow (spec 4.1) against one API      *)
(* server: `kbcli cluster restore` (BackupRestore), whose OpsRequest has   *)
(* the ops controller create the cluster, and the example programs        *)
(* (ExampleCreate), which submit a Cluster directly.  They share the set  *)
(* of existing clusters: a restore's generated name is checked against    *)
(* clusters an example may create a moment later, and an example's        *)
(* submission is refused for a cluster a restore created.                 *)
(***************************************************************************)
CONSTANTS Invocations, Clusters, Backups, NoName, FlagChoices, Procs

VARIABLES
  rpc, flags, name, clusterRef, opsName, backup, ops, phaseAtSubmit, takenAtSubmit,
  epc, example, calls,
  clusters   \* API server: existing clusters, shared

restoreVars == <<rpc, flags, name, clusterRef, opsName, backup, ops, phaseAtSubmit,
                 takenAtSubmit>>
exampleVars == <<epc, example, calls>>
vars == <<restoreVars, exampleVars, clusters>>

Restore == INSTANCE BackupRestore WITH pc <- rpc
Example == INSTANCE ExampleCreate WITH pc <- epc

Init == Restore!Init /\ Example!Init

Next ==
  \/ Restore!Next /\ UNCHANGED exampleVars
  \/ Example!Next /\ UNCHANGED restoreVars

Spec == Init /\ [][Next]_vars

-----------------------------------------------------------------------------
\* BackupRestore's RestoreCreatesNewCluster, with the example programs
\* creating clusters between a restore's Validate and its Run.
RestoreCreatesNewCluster == Restore!RestoreCreatesNewCluster
=============================================================================
