----------------------------- MODULE BackupQuery -----------------------------
(***************************************************************************)
(* The read-only backup commands of src/unnamed/part_001:                  *)
(*   list-backups          NewListBackupCmd, PrintBackupList    364-456    *)
(*   list-backup-policy    NewListBackupPolicyCmd,                         *)
(*                         PrintBackupPolicyList                585-657    *)
(*   describe-backup-policy  DescribeBackupPolicyOptions        899-1022   *)
(* Each handler makes one List call, so each is one step over the API     *)
(* server's state; other clients act in between.  describe-backup, which   *)
(* makes a call per name, is BackupDescribe.                               *)
(*                                                                         *)
(* JSON/YAML output goes to the generic ListOptions.Run, which is not in   *)
(* the repository; it is modelled from spec 4.2: the objects the selector  *)
(* matches, restricted to the include-names when some are given.  Sorting  *)
(* and column layout are left out: the properties are about which objects  *)
(* are shown.  A cluster list `args` becomes the selector                  *)
(* app.kubernetes.io/instance in (args), none selects everything.          *)
(***************************************************************************)
EXTENDS Naturals, Sequences, SequencesExt, FiniteSets

CONSTANTS
  Clusters,       \* cluster names
  Backups,        \* backup names
  Policies,       \* backup policy names
  AnnValues,      \* values of the default-policy annotation, incl. Missing
  Missing,        \* the annotation is absent
  ListCmds,       \* list-backups command lines: [args, name]
  PolicyCmds      \* describe-backup-policy command lines: [args, names]

VARIABLES
  backup,     \* API server: backup[b] = [exists, cluster]
  policy,     \* API server: policy[p] = [exists, cluster, ann]
  listOut,    \* the last table printed by list-backups or list-backup-policy
  descOut     \* the policies the last describe-backup-policy printed

vars == <<backup, policy, listOut, descOut>>

\* the objects a List with the instance selector built from cl returns
Selected(objs, cl) ==
  {o \in DOMAIN objs : objs[o].exists /\ (cl = << >> \/ objs[o].cluster \in ToSet(cl))}

\* PrintBackupList, table mode: o.Names is [--name] when given; an empty
\* List prints "not found", otherwise a row per backup whose name is in
\* o.Names (every backup when o.Names is empty)
TableRows(cmd) ==
  LET names == IF cmd.name = "" THEN {} ELSE {cmd.name}
      items == Selected(backup, cmd.args)
  IN IF items = {} THEN {} ELSE {b \in items : names = {} \/ b \in names}

ListBackups(cmd) ==
  /\ listOut' = [kind |-> "backups", notFound |-> Selected(backup, cmd.args) = {},
                 rows |-> {[name |-> b, default |-> ""] : b \in TableRows(cmd)}]
  /\ UNCHANGED <<backup, policy, descOut>>

\* Mutant: the DEFAULT column says "true" for any annotated policy.
DefaultColumnPresence(p) == IF policy[p].ann = Missing THEN "false" ELSE "true"

\* PrintBackupPolicyList, table mode (o.Names is reset to nil): the DEFAULT
\* column is the annotation's value, "false" when it is absent
DefaultColumn(p) == IF policy[p].ann = Missing THEN "false" ELSE policy[p].ann

ListBackupPolicies(cl) ==
  /\ listOut' = [kind |-> "policies", notFound |-> Selected(policy, cl) = {},
                 rows |-> {[name |-> p, default |-> DefaultColumn(p)] : p \in Selected(policy, cl)}]
  /\ UNCHANGED <<backup, policy, descOut>>

\* Mutant: a policy counts as default when the annotation is present, as
\* the DEFAULT column of list-backup-policy reads it.
DescribedPoliciesByPresence(cmd) ==
  {p \in Selected(policy, cmd.args) :
     /\ cmd.names # {} => p \in cmd.names
     /\ cmd.names = {} => policy[p].ann # Missing}

\* DescribeBackupPolicyOptions.Run: of the listed policies, those named by
\* --name, or with no --name those whose annotation is "true"
DescribedPolicies(cmd) ==
  {p \in Selected(policy, cmd.args) :
     /\ cmd.names # {} => p \in cmd.names
     /\ cmd.names = {} => policy[p].ann = "true"}

\* describe-backup-policy: Validate wants a cluster or a --name
DescribeBackupPolicy(cmd) ==
  /\ descOut' = IF cmd.args = << >> /\ cmd.names = {} THEN "error"
                ELSE DescribedPolicies(cmd)
  /\ UNCHANGED <<backup, policy, listOut>>

\* environment: backups and policies are created and deleted, the default
\* annotation is set, changed or removed
ToggleBackup(b) ==
  /\ backup' = [backup EXCEPT ![b].exists = ~@]
  /\ UNCHANGED <<policy, listOut, descOut>>

Annotate(p, a) ==
  /\ policy[p].exists /\ a # policy[p].ann
  /\ policy' = [policy EXCEPT ![p].ann = a]
  /\ UNCHANGED <<backup, listOut, descOut>>

Init ==
  /\ backup \in [Backups -> [exists : BOOLEAN, cluster : Clusters]]
  /\ policy \in [Policies -> [exists : BOOLEAN, cluster : Clusters, ann : AnnValues]]
  /\ listOut = [kind |-> "none", notFound |-> FALSE, rows |-> {}]
  /\ descOut = {}

Next ==
  \/ \E cmd \in ListCmds : ListBackups(cmd)
  \/ \E cl \in {<< >>} \cup {<< c >> : c \in Clusters} : ListBackupPolicies(cl)
  \/ \E cmd \in PolicyCmds : DescribeBackupPolicy(cmd)
  \/ \E b \in Backups : ToggleBackup(b)
  \/ \E p \in Policies, a \in AnnValues : Annotate(p, a)

Spec == Init /\ [][Next]_vars

-----------------------------------------------------------------------------
\* The reader of the same annotation in `kbcli cluster backup`
\* (getDefaultBackupPolicy, part_001:254), translated in BackupCreate.  Only
\* its operator DefaultPolicies(c), a function of the policies, is used
\* here; the rest of that module's state is given empty values.
Create == INSTANCE BackupCreate WITH
  Invocations <- {}, NamedBackups <- {}, NoName <- "", FlagChoices <- {},
  MaxTime <- 0, pc <- <<>>, flags <- <<>>, backupName <- <<>>,
  policyName <- <<>>, now <- 0, clusters <- Clusters, backup <- <<>>,
  ops <- {}

\* `describe-backup-policy CLUSTER` (the literal "true" at part_001:961)
\* shows as default exactly the policies that `backup CLUSTER` without
\* --policy counts as default (TrueValue at part_001:254): the one it shows
\* is the one a backup would use, and several shown mean a backup fails.
DescribedDefaultIsBackupDefault ==
  \A c \in Clusters :
    DescribedPolicies([args |-> << c >>, names |-> {}]) = Create!DefaultPolicies(c)

\* The DEFAULT column of `list-backup-policy` (the raw annotation value,
\* part_001:640-647) reads "true" for exactly the policies `backup` takes
\* as its cluster's default, whatever other value the annotation holds.
DefaultColumnAgreesWithBackup ==
  \A p \in Policies : policy[p].exists =>
    (DefaultColumn(p) = "true" <=> p \in Create!DefaultPolicies(policy[p].cluster))
=============================================================================
