---------------------------- MODULE BackupCreate ----------------------------
(***************************************************************************)
(* `kbcli cluster backup NAME [--name B] [--policy P] [--method M]        *)
(*  [--retention-period R] [--parent-backup PB]`                           *)
(* (src/unnamed/part_001, CreateBackupOptions, lines 150-298).             *)
(*                                                                         *)
(* Each invocation in Invocations runs CompleteBackup, then Validate with  *)
(* its API round trips (Get cluster, List policies, Get policy, Get parent *)
(* backup) as separate steps, then CreateOptions.Run, which creates the    *)
(* OpsRequest named o.OpsRequestName.  Between the steps the backup        *)
(* controller reconciles OpsRequests into Backups, other clients delete    *)
(* backups and change which policy is the default, and the clock ticks.   *)
(*                                                                         *)
(* Data abstraction: a generated backup name                               *)
(* "backup-<ns>-<cluster>-<yyyymmddhhmmss>" is the pair <<cluster, now>>;  *)
(* one namespace; the retention period is only valid or invalid.           *)
(***************************************************************************)
EXTENDS Naturals, FiniteSets

CONSTANTS
  Invocations,   \* concurrent kbcli cluster backup invocations
  Clusters,      \* cluster names
  Policies,      \* backup policy names
  NamedBackups,  \* backup names a user may pass with --name/--parent-backup
  NoName,        \* an absent positional argument or flag ("")
  FlagChoices,   \* the flag combinations a user may give (subset of Flags)
  AnnValues,     \* values of the default-policy annotation (one for absent)
  MaxTime        \* last second of the clock (format resolution of the name)

\* A generated name (CompleteBackup, line 156).
GenName(c, t) == <<c, t>>

BackupNames == NamedBackups \cup {GenName(c, t) : c \in Clusters \cup {NoName}, t \in 0..MaxTime}

Phases == {"Running", "Completed", "Failed"}

Flags == [cluster : Clusters \cup {NoName},           \* args[0]
          name : NamedBackups \cup {NoName},          \* --name
          policy : Policies \cup {NoName},            \* --policy
          method : BOOLEAN,                           \* --method given
          retention : {"none", "valid", "invalid"},   \* --retention-period
          parent : NamedBackups \cup {NoName}]        \* --parent-backup

ASSUME FlagChoices \subseteq Flags

VARIABLES
  pc,          \* pc[i]: step of invocation i
  flags,       \* flags[i]: the command line of invocation i
  backupName,  \* backupName[i]: o.BackupSpec.BackupName after CompleteBackup
  policyName,  \* policyName[i]: o.BackupSpec.BackupPolicyName
  now,         \* the wall clock, in seconds
  clusters,    \* API server: existing clusters
  policy,      \* API server: policy[p] = [exists, cluster, ann], ann the
               \* value of the default-policy annotation
  backup,      \* API server: backup[b] = [exists, cluster, phase]
  ops          \* API server: OpsRequests, records [name, cluster, policy, parent]

vars == <<pc, flags, backupName, policyName, now,
          clusters, policy, backup, ops>>

NoBackup == [exists |-> FALSE, cluster |-> NoName, phase |-> "Running"]

Pcs == {"complete", "validate", "getCluster", "listPolicies", "getPolicy",
        "getParent", "run", "done", "failed"}

Goto(i, s) == pc' = [pc EXCEPT ![i] = s]

-----------------------------------------------------------------------------
(* CompleteBackup: o.Complete() takes NAME from args, the backup name      *)
(* defaults to backup-<ns>-<name>-<now>, OpsRequestName = BackupName.      *)
CompleteBackup(i) ==
  /\ pc[i] = "complete"
  /\ backupName' = [backupName EXCEPT ![i] =
                      IF flags[i].name = NoName THEN GenName(flags[i].cluster, now)
                      ELSE flags[i].name]
  /\ Goto(i, "validate")
  /\ UNCHANGED <<flags, policyName, now, clusters, policy,
                 backup, ops>>

(* Validate, up to the first API call: a missing cluster name fails; with  *)
(* no --policy the default one is looked up first.                         *)
Validate(i) ==
  /\ pc[i] = "validate"
  /\ Goto(i, IF flags[i].cluster = NoName THEN "failed"
             ELSE IF policyName[i] = NoName THEN "getCluster"
             ELSE "getPolicy")
  /\ UNCHANGED <<flags, backupName, policyName, now,
                 clusters, policy, backup, ops>>

(* getDefaultBackupPolicy, first round trip: Get the cluster.             *)
getDefaultBackupPolicyGet(i) ==
  /\ pc[i] = "getCluster"
  /\ Goto(i, IF flags[i].cluster \in clusters THEN "listPolicies" ELSE "failed")
  /\ UNCHANGED <<flags, backupName, policyName, now,
                 clusters, policy, backup, ops>>

(* getDefaultBackupPolicy, second round trip: List the policies labelled   *)
(* with the cluster; exactly one of them may carry the default annotation *)
(* (completeDefaultBackupPolicy stores it in BackupPolicyName).            *)
ClusterPolicies(c) == {p \in Policies : policy[p].exists /\ policy[p].cluster = c}
TrueValue == "true"
DefaultPolicies(c) == {p \in ClusterPolicies(c) : policy[p].ann = TrueValue}

getDefaultBackupPolicyList(i) ==
  LET c == flags[i].cluster IN
  /\ pc[i] = "listPolicies"
  /\ IF ClusterPolicies(c) = {} \/ Cardinality(DefaultPolicies(c)) # 1
     THEN /\ Goto(i, "failed")
          /\ UNCHANGED policyName
     ELSE /\ policyName' = [policyName EXCEPT ![i] = CHOOSE p \in DefaultPolicies(c) : TRUE]
          /\ Goto(i, "getPolicy")
  /\ UNCHANGED <<flags, backupName, now, clusters, policy, backup, ops>>

(* Validate: Get the policy, then the local checks on --method and        *)
(* --retention-period; a parent backup is fetched next.                    *)
ValidatePolicy(i) ==
  /\ pc[i] = "getPolicy"
  /\ Goto(i, IF ~policy[policyName[i]].exists \/ ~flags[i].method
                \/ flags[i].retention = "invalid" THEN "failed"
             ELSE IF flags[i].parent = NoName THEN "run"
             ELSE "getParent")
  /\ UNCHANGED <<flags, backupName, policyName, now,
                 clusters, policy, backup, ops>>

(* Validate: the parent backup must exist, be Completed and carry the     *)
(* app.kubernetes.io/instance label of the cluster.                        *)
ValidateParent(i) ==
  LET b == backup[flags[i].parent] IN
  /\ pc[i] = "getParent"
  /\ Goto(i, IF b.exists /\ b.phase = "Completed" /\ b.cluster = flags[i].cluster
             THEN "run" ELSE "failed")
  /\ UNCHANGED <<flags, backupName, policyName, now, clusters, policy,
                 backup, ops>>

(* CreateOptions.Run: create the OpsRequest o.OpsRequestName; the API      *)
(* server refuses a name that is already taken.                            *)
\* Mutant: the OpsRequest is rendered from the --policy flag instead of the
\* policy Validate completed.
RunWithFlagPolicy(i) ==
  /\ pc[i] = "run"
  /\ IF \E o \in ops : o.name = backupName[i]
     THEN /\ Goto(i, "failed")
          /\ UNCHANGED ops
     ELSE /\ ops' = ops \cup {[name |-> backupName[i], cluster |-> flags[i].cluster,
                               policy |-> flags[i].policy, parent |-> flags[i].parent]}
          /\ Goto(i, "done")
  /\ UNCHANGED <<flags, backupName, policyName, now,
                 clusters, policy, backup>>

Run(i) ==
  /\ pc[i] = "run"
  /\ IF \E o \in ops : o.name = backupName[i]
     THEN /\ Goto(i, "failed")
          /\ UNCHANGED ops
     ELSE /\ ops' = ops \cup {[name |-> backupName[i], cluster |-> flags[i].cluster,
                               policy |-> policyName[i], parent |-> flags[i].parent]}
          /\ Goto(i, "done")
  /\ UNCHANGED <<flags, backupName, policyName, now,
                 clusters, policy, backup>>

-----------------------------------------------------------------------------
(* Environment.  The controller turns a backup OpsRequest into a Backup    *)
(* of its name and finishes it; other clients delete backups and move the  *)
(* default annotation; the clock advances.                                 *)
ReconcileOps(o) ==
  /\ ~backup[o.name].exists
  /\ backup' = [backup EXCEPT ![o.name] =
                  [exists |-> TRUE, cluster |-> o.cluster, phase |-> "Running"]]
  /\ UNCHANGED <<pc, flags, backupName, policyName, now,
                 clusters, policy, ops>>

FinishBackup(b) ==
  /\ backup[b].exists /\ backup[b].phase = "Running"
  /\ \E ph \in {"Completed", "Failed"} : backup' = [backup EXCEPT ![b].phase = ph]
  /\ UNCHANGED <<pc, flags, backupName, policyName, now,
                 clusters, policy, ops>>

DeleteBackup(b) ==
  /\ backup[b].exists
  /\ backup' = [backup EXCEPT ![b] = NoBackup]
  /\ UNCHANGED <<pc, flags, backupName, policyName, now,
                 clusters, policy, ops>>

Annotate(p, a) ==
  /\ a # policy[p].ann
  /\ policy' = [policy EXCEPT ![p].ann = a]
  /\ UNCHANGED <<pc, flags, backupName, policyName, now,
                 clusters, backup, ops>>

DeleteCluster(c) ==
  /\ c \in clusters
  /\ clusters' = clusters \ {c}
  /\ UNCHANGED <<pc, flags, backupName, policyName, now,
                 policy, backup, ops>>

Tick ==
  /\ now < MaxTime
  /\ now' = now + 1
  /\ UNCHANGED <<pc, flags, backupName, policyName,
                 clusters, policy, backup, ops>>

-----------------------------------------------------------------------------
Init ==
  /\ pc = [i \in Invocations |-> "complete"]
  /\ flags \in [Invocations -> FlagChoices]
  /\ backupName = [i \in Invocations |-> NoName]
  /\ policyName = [i \in Invocations |-> flags[i].policy]
  /\ now = 0
  /\ clusters = Clusters
  /\ policy \in [Policies -> [exists : {TRUE}, cluster : Clusters, ann : AnnValues]]
  /\ backup \in [BackupNames -> {NoBackup}]
       \cup {[b \in BackupNames |-> IF b \in NamedBackups THEN r ELSE NoBackup] :
               r \in [exists : {TRUE}, cluster : Clusters, phase : Phases]}
  /\ ops = {}

Next ==
  \/ \E i \in Invocations :
       \/ CompleteBackup(i) \/ Validate(i) \/ getDefaultBackupPolicyGet(i)
       \/ getDefaultBackupPolicyList(i) \/ ValidatePolicy(i)
       \/ ValidateParent(i) \/ Run(i)
  \/ \E o \in ops : ReconcileOps(o)
  \/ \E b \in BackupNames : FinishBackup(b) \/ DeleteBackup(b)
  \/ \E p \in Policies, a \in AnnValues : Annotate(p, a)
  \/ \E c \in Clusters : DeleteCluster(c)
  \/ Tick

Spec == Init /\ [][Next]_vars

-----------------------------------------------------------------------------
TypeOK ==
  /\ pc \in [Invocations -> Pcs]
  /\ flags \in [Invocations -> Flags]
  /\ backupName \in [Invocations -> BackupNames \cup {NoName}]
  /\ policyName \in [Invocations -> Policies \cup {NoName}]
  /\ now \in 0..MaxTime
  /\ clusters \subseteq Clusters
  /\ policy \in [Policies -> [exists : BOOLEAN, cluster : Clusters, ann : AnnValues]]
  /\ backup \in [BackupNames -> [exists : BOOLEAN, cluster : Clusters \cup {NoName},
                                 phase : Phases]]
  /\ ops \subseteq [name : BackupNames, cluster : Clusters, policy : Policies,
                   parent : NamedBackups \cup {NoName}]

(* Spec 8: a backup requested with a generated name succeeds.  Two         *)
(* invocations that both pass Validate with generated names must not ask  *)
(* for the same OpsRequest name.                                           *)
GeneratedNamesDistinct ==
  \A i, j \in Invocations :
    (i # j /\ pc[i] \in {"run", "done"} /\ pc[j] \in {"run", "done"}
       /\ flags[i].name = NoName /\ flags[j].name = NoName)
      => backupName[i] # backupName[j]

=============================================================================
