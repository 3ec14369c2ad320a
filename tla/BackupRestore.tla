---------------------------- MODULE BackupRestore ----------------------------
(***************************************************************************)
(* `kbcli cluster restore [NAME] --backup B`                               *)
(* (src/unnamed/part_001, CreateRestoreOptions, lines 518-583).            *)
(*                                                                         *)
(* o.Name is the new cluster's name, args[0] when given (set by the        *)
(* generic CreateOptions.Complete).  Validate requires --backup and, with  *)
(* no name, asks generateClusterName for one: that helper is not in the    *)
(* repository and is modelled as a lookup of the existing clusters that    *)
(* returns a name none of them has, or fails.  Validate then sets          *)
(* ClusterRef and OpsRequestName to o.Name, and CreateOptions.Run (spec    *)
(* 4.1) creates the restore OpsRequest of that name.                       *)
(*                                                                         *)
(* Between the steps the backup controller moves backups through their    *)
(* phases, the ops controller creates the cluster a restore OpsRequest     *)
(* names, and other clients create and delete clusters.                    *)
(***************************************************************************)
EXTENDS Naturals, FiniteSets

CONSTANTS
  Invocations,   \* concurrent kbcli cluster restore invocations
  Clusters,      \* cluster names (given, or generated)
  Backups,       \* backup names
  NoName,        \* an absent argument or flag ("")
  FlagChoices    \* command lines: [backup, name]

Phases == {"Absent", "Running", "Completed", "Failed"}

ASSUME FlagChoices \subseteq [backup : Backups \cup {NoName}, name : Clusters \cup {NoName}]

VARIABLES
  pc,             \* pc[i]: step of invocation i
  flags,          \* flags[i]: its command line
  name,           \* name[i]: o.Name
  clusterRef,     \* clusterRef[i]: o.ClusterRef
  opsName,        \* opsName[i]: o.OpsRequestName
  clusters,       \* API server: existing clusters
  backup,         \* API server: backup[b], its phase
  ops,            \* API server: restore OpsRequests, [name, clusterRef, backup]
  phaseAtSubmit,  \* phaseAtSubmit[i]: the phase of --backup when Run created
                  \* the OpsRequest (history)
  takenAtSubmit   \* takenAtSubmit[i]: a cluster named o.Name existed when Run
                  \* created the OpsRequest (history)

vars == <<pc, flags, name, clusterRef, opsName, clusters, backup, ops, phaseAtSubmit,
          takenAtSubmit>>

\* the assignments that end Validate (part_001 544-546)
SetRefs(i, n) ==
  /\ clusterRef' = [clusterRef EXCEPT ![i] = n]
  /\ opsName' = [opsName EXCEPT ![i] = n]

\* Validate up to generateClusterName: --backup is required; a given name
\* goes straight to the closing assignments.
Validate(i) ==
  /\ pc[i] = "validate"
  /\ \/ flags[i].backup = NoName /\ pc' = [pc EXCEPT ![i] = "failed"]
        /\ UNCHANGED <<clusterRef, opsName>>
     \/ flags[i].backup # NoName /\ name[i] = NoName
        /\ pc' = [pc EXCEPT ![i] = "generate"]
        /\ UNCHANGED <<clusterRef, opsName>>
     \/ flags[i].backup # NoName /\ name[i] # NoName
        /\ SetRefs(i, name[i]) /\ pc' = [pc EXCEPT ![i] = "run"]
  /\ UNCHANGED <<flags, name, clusters, backup, ops, phaseAtSubmit, takenAtSubmit>>

\* Validate, from the generateClusterName call on: an error or "" fails;
\* otherwise the generated name becomes o.Name, then ClusterRef and
\* OpsRequestName.
ValidateGenerated(i) ==
  /\ pc[i] = "generate"
  /\ \/ \E n \in Clusters \ clusters :
          /\ name' = [name EXCEPT ![i] = n]
          /\ SetRefs(i, n)
          /\ pc' = [pc EXCEPT ![i] = "run"]
     \/ pc' = [pc EXCEPT ![i] = "failed"] /\ UNCHANGED <<name, clusterRef, opsName>>
  /\ UNCHANGED <<flags, clusters, backup, ops, phaseAtSubmit, takenAtSubmit>>

\* CreateOptions.Run: create the OpsRequest o.OpsRequestName; a name that
\* is taken fails (AlreadyExists).
Run(i) ==
  /\ pc[i] = "run"
  /\ \/ \E o \in ops : o.name = opsName[i]
        /\ pc' = [pc EXCEPT ![i] = "failed"] /\ UNCHANGED <<ops, phaseAtSubmit, takenAtSubmit>>
     \/ (\A o \in ops : o.name # opsName[i])
        /\ ops' = ops \cup {[name |-> opsName[i], clusterRef |-> clusterRef[i],
                             backup |-> flags[i].backup]}
        /\ phaseAtSubmit' = [phaseAtSubmit EXCEPT ![i] = backup[flags[i].backup]]
        /\ takenAtSubmit' = [takenAtSubmit EXCEPT ![i] = name[i] \in clusters]
        /\ pc' = [pc EXCEPT ![i] = "done"]
  /\ UNCHANGED <<flags, name, clusterRef, opsName, clusters, backup>>

-----------------------------------------------------------------------------
(* Environment.                                                            *)
ReconcileRestore(o) ==
  /\ o.clusterRef \notin clusters
  /\ clusters' = clusters \cup {o.clusterRef}
  /\ UNCHANGED <<pc, flags, name, clusterRef, opsName, backup, ops, phaseAtSubmit, takenAtSubmit>>

BackupPhase(b, ph) ==
  /\ ph # backup[b]
  /\ backup' = [backup EXCEPT ![b] = ph]
  /\ UNCHANGED <<pc, flags, name, clusterRef, opsName, clusters, ops, phaseAtSubmit, takenAtSubmit>>

OtherCluster(c) ==
  /\ clusters' = IF c \in clusters THEN clusters \ {c} ELSE clusters \cup {c}
  /\ UNCHANGED <<pc, flags, name, clusterRef, opsName, backup, ops, phaseAtSubmit, takenAtSubmit>>

Init ==
  /\ pc = [i \in Invocations |-> "validate"]
  /\ flags \in [Invocations -> FlagChoices]
  /\ name = [i \in Invocations |-> flags[i].name]
  /\ clusterRef = [i \in Invocations |-> NoName]
  /\ opsName = [i \in Invocations |-> NoName]
  /\ clusters \in SUBSET Clusters
  /\ backup \in [Backups -> Phases]
  /\ ops = {}
  /\ phaseAtSubmit = [i \in Invocations |-> "Absent"]
  /\ takenAtSubmit = [i \in Invocations |-> FALSE]

Next ==
  \/ \E i \in Invocations : Validate(i) \/ ValidateGenerated(i) \/ Run(i)
  \/ \E o \in ops : ReconcileRestore(o)
  \/ \E b \in Backups, ph \in Phases : BackupPhase(b, ph)
  \/ \E c \in Clusters : OtherCluster(c)

Spec == Init /\ [][Next]_vars

-----------------------------------------------------------------------------
(* `restore` is "Restore a new cluster from backup" (part_001:569), and   *)
(* when Run succeeds it prints "Cluster <name> created" (customOutPut,     *)
(* 552-555): a restore that succeeds submitted its OpsRequest while no     *)
(* cluster of that name existed.                                           *)
RestoreCreatesNewCluster ==
  \A i \in Invocations : pc[i] = "done" => ~takenAtSubmit[i]

(* Spec 4.1 and 5: Validate rejects a Create whose referenced parent is    *)
(* not Completed; a restore OpsRequest is only submitted for a backup that *)
(* was Completed at the time.                                              *)
RestoreFromCompletedBackup ==
  \A i \in Invocations : pc[i] = "done" => phaseAtSubmit[i] = "Completed"
=============================================================================
