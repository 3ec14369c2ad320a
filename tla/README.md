# TLA+ models of kbcli

kbcli is the command-line client of KubeBlocks. Each command is one short,
single-threaded process: it parses flags, runs `Complete`, `Validate` and
`Run`, and makes a few blocking calls to the Kubernetes API server. It has no
threads, no retries and no state of its own between invocations.

What can go wrong therefore lies *between* its API calls. A command reads
objects (a policy, a parent backup, a cluster), decides, and writes later.
Meanwhile other kbcli invocations, other API clients and the KubeBlocks
controllers change the same objects. The models treat every API round trip as
its own step. They also model the API server's state and the other actors as
environment actions, and check what the command guarantees under every
interleaving.

## Inventory

Sources are under `src/`. `part_001` holds `pkg/cmd/cluster/dataprotection.go`
(lines 1-1172) followed by an accounts test (1192-1297).

| Component | Source | State it keeps / reads | Operations | Interacts with |
|---|---|---|---|---|
| Create backup | part_001:123-362 | options: cluster, backup name, policy, method, retention, parent; reads Cluster, BackupPolicy, Backup | CompleteBackup, Validate (Get cluster, List policies, Get policy, Get parent), Run (create OpsRequest) | API server; backup controller turns the OpsRequest into a Backup |
| Edit backup policy | part_001:659-897 | options: name, values, original, target; the fetched policy | complete, Get policy, editor, applyChanges (per-row updateFunc with a repo Get), Update | API server (optimistic concurrency); other writers; `$EDITOR` |
| Delete backup | part_001:479-516 | DeleteOptions: Names, LabelSelector, ConfirmedNames, Force | completeForDeleteBackup, DeleteOptions.Run | API server |
| List backups / policies | part_001:364-456, 585-657 | ListOptions: Names, LabelSelector, Format | PrintBackupList, PrintBackupPolicyList | API server (List) |
| Describe backup / policy | part_001:899-1172 | names, namespace | Complete, Validate, Run, printBackupObj, enhancePrintFailureReason | API server (Get, List jobs/pods, logs, events) |
| Restore | part_001:518-583 | RestoreSpec, cluster name | Validate, Run (create OpsRequest) | API server |
| Account base options | accounts/base.go | cluster, component, pod names | Validate(args), Complete (Get pod, infer component/pod) | API server |
| Migration terminate | migration/terminate.go | DeleteOptions | deleteMigrationTask | API server |
| Class list | class/list.go | cluster definition | run, printClass, normalizeMemory | API server; pure formatting |
| Version detection | util/version.go | Version{KubeBlocks, Kubernetes, Cli} | GetVersionInfo, GetK8sVersion, GetKubeBlocksDeploy, GetDataProtectionDeploy, GetDockerVersion | API server discovery; `docker` process |
| Examples | example/*.go, part_000 | a cluster CreateOptions | Complete, Complete, Validate, Run | generic create flow |
| Infrastructure template | part_002:1-108 | template values | createClusterWithOptions, buildTemplateParams | template engine |
| Mock client (tests) | part_002:109-248 | objects, kind lists, handler | Get, List, Create, ... | tests |
| Release workflow | part_003 | GitHub Actions jobs | job graph | CI |
| Tests | alert/config_smtpserver_test.go, kubeblocks/install_test.go, part_001:1173-1297 | - | - | - |

### Hard behaviour

* **Stale reads.** Several commands read an object and write much later.
  Edit reads the policy, opens an editor (minutes), then sends an Update.
  Create-backup checks the parent backup and the default policy, then creates
  the OpsRequest. Another writer can act in between.
* **Optimistic concurrency.** The edit's Update sends the object it fetched,
  so its resource version goes with it. The API server rejects a stale one.
  Without that, the edit would silently revert other writers' fields.
* **Partial failure.** `applyChanges` applies rows one by one and stops at the
  first bad one. Delete and describe stop at the first failing name.
* **Names from the clock.** A backup name defaults to
  `backup-<ns>-<cluster>-<yyyymmddhhmmss>`, which has one-second resolution.
  The OpsRequest gets the same name.
* **Flag interplay.** delete-backup assigns `--force` and `--name` to
  `ConfirmedNames` in an order that overwrites one with the other (spec,
  section 9). The `--set` flag help promises comma splitting, but the flag
  type does not split.

### What makes each component correct

* Create backup: generated names do not collide.
* Edit: no lost update. Fail fast with no partial write. No write when nothing
  changed.
* Describe backup: the first failed Get or Search ends the command, and a
  failed backup's Failure Reason is shown.
* Restore: the cluster a restore names is a new one, and the backup it
  restores from is Completed.
* Account commands: when Complete succeeds, the cluster and component it
  settles on are the cluster argument and the `--component` the user typed,
  where they typed them. With `--instance` alone they come from the pod's
  labels, and a pod without a component label gets the cluster's first
  component (a hazard, not a checked property).
* Version: a KubeBlocks version is reported only from the one KubeBlocks
  deployment.
* Class list: the printed memory is the class's memory, rounded.
* Describe policy: with no `--name`, the policies shown are the ones
  create-backup would take as the cluster's default, and the DEFAULT column
  of list-backup-policy says the same.

## Modules

Every command is one process with a program counter `pc` (one per
invocation where several run at once). Every API round trip is one action.
Between actions, environment actions change the API server's state: other
kbcli invocations, other clients and the KubeBlocks controllers. Code that
kbcli calls but that is not in the repository (`action.CreateOptions.Run`,
`action.DeleteOptions.Run`, the generic `ListOptions.Run`,
`generateClusterName`, `FillCompInfoByName`, `InferPodName`, the class
`GetManager` and `ByClassResource`) is modelled from spec 3 and 4.1-4.3 and
from how the repository uses it. PROJECT.json marks these
definitions `spec_modelled`. Each module starts with a comment that gives its
abstraction of the data. `map` in PROJECT.json gives the source lines of every
definition.

### BackupPolicyEdit (part_001:659-897)

Each invocation in `Editors` is one process with program counter `pc[e]`.
The actions follow the code's steps:

| Action | Code |
|---|---|
| `complete` | `complete(args)`, 706-756 |
| `runEditBackupPolicy` | Get of the policy, 758-776 |
| `runWithEditor` | `buildEditorContent` fills `o.original`; the editor returns rows or fails, 778-858 |
| `applyRow` | one iteration of the loop in `applyChanges`, 862-881 |
| `applyChanges` | the `original == target` comparison and the Update, 882-896 |

The API server keeps `policy[p] = [exists, repo, other, rv]`. Here `other`
stands for the fields written by other clients. It is a counter that only
they increase. The environment actions are `OtherWrite`, `DeletePolicy` and
`ToggleRepo` (repo create/delete). A row of text is a record
`[val, quoted]`, or one of the model values `Comment`, `Malformed` and
`UnknownKey`.

### BackupCreate (part_001:150-305)

Each invocation runs these steps: `CompleteBackup` → `Validate` → (no
`--policy`: `getDefaultBackupPolicyGet` → `getDefaultBackupPolicyList`) →
`ValidatePolicy` → (with `--parent-backup`: `ValidateParent`) → `Run`.
`Run` creates the OpsRequest named `o.OpsRequestName`, and the API server
refuses a name that is taken. The environment has these actions:

* the backup controller: `ReconcileOps` and `FinishBackup`;
* other clients: `DeleteBackup`, `Annotate` (sets a policy's default-policy
  annotation to any value of `AnnValues`) and `DeleteCluster`;
* the clock: `Tick`.

A generated name is the pair `<<cluster, second>>`. `DefaultPolicies(c)`
is the set `getDefaultBackupPolicy` selects from: the policies of cluster
`c` whose annotation is the string `"true"` (line 254).

### BackupRestore (part_001:518-583)

`Validate` fails without `--backup`. If the name is missing it moves to
`ValidateGenerated`, the `generateClusterName` round trip, which returns a
name no existing cluster has or fails. Both paths end in `SetRefs`
(`ClusterRef = OpsRequestName = o.Name`, lines 544-546). `Run` creates the
restore OpsRequest. The environment moves backups through their phases
(`BackupPhase`), creates the cluster of a restore OpsRequest
(`ReconcileRestore`), and creates or deletes clusters (`OtherCluster`). The
history variables `phaseAtSubmit` and `takenAtSubmit` record the phase of
the backup, and whether a cluster of the target name existed, when the
OpsRequest was created.

### BackupDelete (part_001:479-516, migration/terminate.go:34-57)

Each invocation is `delete-backup` or `migration terminate`:

1. `completeForDeleteBackup` or `deleteMigrationTask` fills `o.Names`,
   `o.LabelSelector` (the set `selector` of instance labels) and
   `o.ConfirmedNames`.
2. `Run` resolves the targets: the names, else the objects the selector
   matches, else an error.
3. `deleteOne` is one Delete call. A NotFound aborts the batch.
4. `finish` ends the invocation.

Other clients create and delete objects between the calls
(`OtherCreate`, `OtherDelete`). No property of the delete side is checked;
the module is here because delete-backup changes the state that
describe-backup reads.

### BackupDescribe (part_001:458-477, 1023-1172)

describe-backup, one process per describer, one action per API call:

1. `Complete` fails without a name, or when the clients cannot be made.
2. `getBackup` is the Get of the next name. A missing backup ends the
   command. The Get also tells whether the backup's Status has a
   FailureReason. If it has none, `enhancePrintFailureReason` returns at once.
3. `listJobs`, `listPods` and `getLogs` are the three calls of
   `enhancePrintFailureReason`. Each may fail, and a failure returns before
   the reason is printed. A List may also find no failed Job, or no Pod; the
   reason is then printed alone. `SetReason` records what was printed.
4. `searchEvents` is the events Search. Its error ends the command;
   otherwise Run goes on with the next name.

`shown[i]` is the history of what was printed per backup: its name, and
whether the reason was absent, pending, printed alone or printed with the
logs. Jobs and Pods are not state of the model. Controllers change them at
any time, so each List's result is that step's own nondeterministic outcome.

### BackupDeleteDescribe (composition)

BackupDelete and BackupDescribe over the one shared `exists`:
`Delete == INSTANCE BackupDelete`, and
`Describe == INSTANCE BackupDescribe WITH pc <- dpc, args <- dargs, cursor <- dcursor`.
A describe may Get a backup that a delete-backup has just removed. The
environment is BackupDelete's (`OtherCreate`, `OtherDelete`).

### BackupQuery (part_001:364-456, 585-657, 899-1022)

`ListBackups`, `ListBackupPolicies` and `DescribeBackupPolicy` each make a
single List, so each is one step over the server state. Each step records
what was printed: the rows of the table, and whether "not found" was shown.
`TableRows` is the table path of `PrintBackupList`; the JSON/YAML path
hands `o.Names` to `ListOptions.Run`, outside the repository, and is not
modelled. `ToggleBackup` and `Annotate` change the server in between.
Sorting and column layout are left out. The module instantiates
BackupCreate (`Create == INSTANCE BackupCreate WITH ...`, its variables
other than the policies given dummy values) only to compare
describe-backup-policy and the DEFAULT column with `Create!DefaultPolicies`,
the selection create-backup makes.

### AccountOptions (accounts/base.go:60-144)

`Validate` applies the argument table. `execComplete` may fail. Then either
`getPodByName` (with `--instance`: take the cluster and component from the
pod's labels) or `fillCompInfo` → `inferPodName` → `getInferredPod`.
`PodChurn` deletes and re-creates pods under their names (StatefulSet pods)
between the calls. The pods include one with no labels and one (`p5`) with
a cluster label and no component label, as a job's pod has.

### VersionInfo (util/version.go:40-148)

`Start` → `GetK8sVersion` (discovery) → `getKubeBlocksVersion` (List of
KubeBlocks deployments, then `GetKubeBlocksDeploy`'s checks on their number
and labels). A deployment of the KubeBlocks chart carries its
`app.kubernetes.io/component` label (`apps` or `dataprotection`, lines
40-45). The List of `GetKubeBlocksDeploy` selects `apps`, and that of
`GetDataProtectionDeploy` selects `dataprotection` (`Selected(comp)`).
Both then apply the same checks, `SoleDeploy`: no item, more than one, or
the one item. `versionLabel` reads the one deployment's labels: nil labels
or a missing version label is an error (lines 82-91). Nothing in the repository calls `GetDataProtectionDeploy`, so
it is an operator and no action uses it. The environment takes the API server up and down
(`ToggleAPI`), upgrades it (`UpgradeServer`), and installs, upgrades,
relabels or removes deployments (`ChangeDeploy`). `listed` records what the
List returned.

### NormalizeMemory (class/list.go:96-120)

This module has operators only. `normalizeMemory(m)` is a set-valued
operator over the MilliValue `m`. It picks the case (`UnitIndex`), computes
the `%.3f` digits in integer thousandths (`Thousandths`), and applies
`TrimRight(..., "0")` (`TrimZeros`, RECURSIVE). It is a set because a
quotient that lies exactly halfway may round either way in float64.
`WithinRounding(t, m)` is the reference definition: it reads the text back
with its unit and compares it with the exact value.

### ClassList (class/list.go:41-94)

`kbcli class list`: `Start` (cobra refuses a missing `--cluster-definition`),
then `complete` (the dynamic client may fail), then `run`. `run` is either a
failing `GetManager` or the whole printout: one table per component that has
classes, in any order (Go map iteration). Each table is `printClass`: the
classes in an order `sort.Sort(ByClassResource)` may leave them in (CPU,
then memory, not stable), with a MEMORY text from `normalizeMemory`.
`GetManager` and `ByClassResource` are outside the repository. The classes
on the server are any subset of a few fixed ones, plus one "probe" class
whose memory is any of the inputs. That way every input is printed by a real
listing.

### ExampleCreate (example/*.go, part_000)

There are four example programs. Each `main` fills in one cluster
(`ExampleCreate`, `ExampleMysql`, `ExampleRedis`, `ExamplePostgres`; the
first two create the same cluster) and calls `Driver`: CreateOptions.Complete,
Complete, Validate and Run, each through `CheckErr`, which exits on an error
(`main`). `NewCreateOptions` sets the hooks (`Init`). The generic `Run` is
outside the repository and is modelled from spec 3 and 4.1. `runHooks` calls
CreateDependencies, then PreCreate. `runCreate` is the submission, refused
when the name is taken. `runCleanUp` is CleanUp after a refused submission.
`calls[i]` is the history of the calls process `i` made.

### ClusterCreators (composition)

This module composes BackupRestore and ExampleCreate over one shared
variable, the set of existing clusters. It uses `INSTANCE ... WITH` and
renames each `pc`. A restore's generated name is checked against clusters
that an example may create a moment later. An example's submission may be
refused because a restore's OpsRequest made the ops controller create that
cluster. Each step is a step of one side, and the other side's variables
are unchanged.

### PolicyRegister (abstract specification of edit-backup-policy)

This is what an edit promises, with its steps, resource versions and editor
session hidden. An edit prepares a request (the policy and the intents of
its text's rows). It then ends either without a write (`Finish`) or with one
atomic `Commit` that sets `backupRepoName` to what the text asks for. The
last key row wins, an empty value clears the field, and a text with a bad
row never commits. Every other field keeps the value the server has at that
moment. `BackupPolicyEdit` implements it under the refinement mapping at the
end of that module:

* the policy, without its resource version, maps to the policy;
* an editor's `pc` maps to `editing`, `done` or `failed`;
* its policy name and rows map to the request (`TextIntents`, with comment
  rows dropped).

`ImplementsPolicyRegister == Register!Spec` is checked as a PROPERTY of the
`edit` run. This is where the resource version shows its worth. Without it
(mutant `UpdateRequestUnversioned`), a write carries stale other fields,
which no step of the abstract specification allows.

## Runs

| Run | What it checks | Result |
|---|---|---|
| `edit` | `TypeOK`, `FailFastNoPartialWrite`, `NoLostUpdate`, `ImplementsPolicyRegister` (refinement): two concurrent edits of one policy, with another writer, a repo that comes and goes, and texts of ≤ 2 rows | passes, 2.98M distinct states |
| `edit_nochange` | `NoWriteWhenUnchanged` | **violated**: `--set backupRepoName=<its current value>` sends an Update, because `o.original` is only built on the editor path (line 819) |
| `create` | `TypeOK`: two concurrent backups, two clusters, two policies whose default-policy annotation other clients set and clear, a parent backup that the controller finishes or that is deleted. It exercises every path of Validate, the default-policy lookup and Run; the one property this component earns, name uniqueness, is the `create_names` run | passes, 3.18M distinct states |
| `create_names` | `GeneratedNamesDistinct` | **violated**: two backups of the same cluster requested in the same second generate the same name, and the second OpsRequest is refused |
| `restore_new` | `RestoreCreatesNewCluster` on the ClusterCreators composition: two concurrent restores with a given or generated name, and one example program creating any of its clusters, while other clients create and delete clusters | **violated**: a given cluster name is never checked, so `restore` submits an OpsRequest for a cluster that already exists and prints "Cluster ... created"; with a generated name, another client can take the name between `generateClusterName` and the Create |
| `restore_completed` | `RestoreFromCompletedBackup` | **violated**: Validate never reads the backup, so the OpsRequest is submitted for a Running, Failed or absent backup, against spec 4.1/5 |
| `delete_describe` | `DescribeStopsAtFirstFailure` on the BackupDeleteDescribe composition: two concurrent delete-backup / terminate invocations over seven command lines and one describe-backup of `b1, b2` (or of no name), with objects created and deleted between the calls | passes, 605K distinct states |
| `describe_reason` | `FailureReasonShown` on the same composition | **violated**: a failed List of Jobs or Pods, or a failed GetLogs, drops the backup's Failure Reason, while the caller's comment says only the error is ignored (part_001:1088-1089, spec 4.4) |
| `query` | `DescribedDefaultIsBackupDefault` (describe-backup-policy without `--name` shows exactly `Create!DefaultPolicies`) and `DefaultColumnAgreesWithBackup` (the DEFAULT column of list-backup-policy is "true" exactly for those policies), over every server state of two clusters, two backups and two policies with annotation values `"true"`, `"false"` and absent | passes, 63K distinct states |
| `accounts` | `FlagsRespected`: every command line over two clusters, five pods (one unlabelled, one with a cluster label and no component label) and pod churn | passes, 7.6K distinct states |
| `version` | `KubeBlocksVersionFromSoleDeployment` (which includes "never from the DataProtection deployment"), with two deployments of either component whose version label is 0.7.0, 0.8.0 or empty, a flapping API server and relabelling | passes, 67K distinct states |
| `normalize` | `PrintedWithinRounding` on ClassList: listings of two components whose probe class takes every input in 0..2100 and in windows around each case threshold and the largest input | passes, 582K distinct states |

Every property of a passing run has a mutant in PROJECT.json: a changed
form of a mapped definition (a dropped guard, a value read from the wrong
place, a check done with presence instead of value), and the run's cfg finds
it violated.

### Other observations

class list prints a memory that rounds to a whole unit with a bare point:
1023.6 bytes is `1.Ki`. `TrimRight(Sprintf("%.3f", v), "0")` strips every
fractional digit and leaves the point (list.go:120). `PrintedWithinRounding`
shows that the value is still right, and no run checks the cosmetic point.

The `--method` completion of `backup` (part_001:348-353) ignores the error
of the List and then ranges over `objs.Items`. When the List fails, `objs`
is nil and the completion panics. Completion is not modelled (see below).

The editor header of edit-backup-policy (part_001:789-790) says that an
empty file aborts the edit and that a failed save reopens the file. The code
does neither. An empty text skips every row and sends an Update of the
unchanged policy, and an error ends the command. Spec 4.5 compares texts,
and these texts differ, so no run checks the header's promise.

`delete-backup c1 --name b2` deletes `b2` even when it belongs to cluster
`c2`. The cluster argument is checked for being exactly one, but it is not
used on the `--name` path (line 510). The spec is silent on scoping, so no
run checks this. It is listed as a hazard.

list-backup-policy prints its rows in the order the List returns them
(part_001:637-654). Spec 4.2 says that tabular mode sorts by creation time,
and list-backups does sort. The order is the API server's, so a unit test
with two policies shows it. No run is spent on it, and it is listed as a
hazard.

The `--method` help of `backup` (part_001:299) promises a default method.
Validate instead refuses an empty method (line 189). It never checks that a
given method belongs to the policy. `BackupCreate` keeps the guard as the
code has it, and this is listed as a hazard.

### Bounds

* Two invocations are enough for every race between two commands. More would
  only repeat the same pairs.
* One policy (edit) is enough: a race needs two editors on the same object.
* Edit texts have at most two rows. That is the smallest length where a row
  can follow a bad row.
* `MaxWrites = 1` other write is enough to land between a Get and an Update.
* A clock of two seconds (`MaxTime = 1`) holds both a same-second collision
  and distinct seconds.
* Create: annotation values `"true"` and `""`. `getDefaultBackupPolicy`
  compares the annotation with the string `"true"` and treats every other
  value alike, so one other value is enough.
* Delete: two clusters with one backup each, plus a migration task. This is
  the smallest setting where a selector can match the wrong cluster and a
  batch has a second name to abort. One describer of `b1, b2` is enough for
  a delete to land between its two Gets, and between a Get and the reason.
* Restore with examples: two cluster names (those the mysql and redis
  examples create), so a generated name can be taken while another is free,
  and an example can collide with a restore. One example process is enough
  to race the two restores.
* Class list: one cluster definition with two components (so the map order
  matters). Two fixed classes (one with more CPU), plus a probe class with
  the CPU of the first and any memory of the inputs. That gives ties, both
  memory orders and the CPU order.
* Query: argument lists of length 0-2 and annotation values true, false and
  absent cover every branch of the selection code, and the case where a
  policy is annotated but is not a default (`"false"`).
* Accounts: five pods, among them one with no labels and one (`p5`) with a
  cluster label and no component label, the two cases where the pod's labels
  do not name a component.
* Version: the version label is `0.7.0`, `0.8.0` or empty, so a deployment
  whose label is present but empty is reached.
* NormalizeMemory: inputs stay below 2^30 (TLC's integers are 32-bit, and
  the quotients are computed without overflow). The windows sit around
  1023488 (rounding to 1.000 Ki), 1024000 (the Ki→Mi threshold), 104857600,
  1048051712 (rounding to 1.000 Mi) and 1048576000 (the Mi→Gi threshold)
  milli-bytes. 1073741823 is the largest input.

### Fairness

No run checks a liveness property, and no specification assumes fairness.
kbcli has no loop that waits or retries: each command is straight-line code
over a bounded list of names, so whether it ends depends only on whether the
API calls return, which is the API server's business, not kbcli's. Every
property checked is a safety property, and a safety run lets a process stop
after any step, which also covers a kbcli process killed between two calls.

## Plan

Done: BackupPolicyEdit with its abstract specification PolicyRegister,
BackupCreate, BackupRestore composed with ExampleCreate, BackupDelete (with
migration terminate) composed with BackupDescribe (including the failure
diagnosis), BackupQuery (checked against BackupCreate's default-policy
selection), ClassList with NormalizeMemory, AccountOptions, VersionInfo.

Properties of delete-backup (scoping of `--force`, abort at the first
failure) are not checked: the cluster of a backup is fixed in the model, so
a scoping property would hold by construction, and the batch order is the
code's own loop. Making a backup's cluster label a variable that other
clients change is the next step there.

Every operation of the repository's code that changes state is an action
of some module. What remains is listed under "Not modelled", and none of it
changes state. Two items could still be done:

1. A crash of a kbcli process between two calls. This matters for delete
   (a partly deleted batch) and for create (dependencies left without
   CleanUp). No process keeps state across runs, so a crash is a process
   that stops. The models already allow an invocation to stop after any step
   in a safety run, so no separate crash action is needed.
2. The confirmation prompt of `DeleteOptions.Run` that reads
   `ConfirmedNames` (part_001:514). It is outside the repository, and spec
   4.3 does not describe it.

## Not modelled

* The infrastructure template (part_002:1-108): pure template rendering.
* The mock client (part_002:109-248): a test helper.
* The release workflow (part_003): CI configuration, not program behaviour.
* What cluster.CreateOptions' Complete, Validate and hooks do inside the
  examples: that code is not in the repository. Only the call order and
  the submission are modelled.
* Shell completion functions (part_001:310-362): read-only, and their results
  are only suggestions.
* Printing and formatting (the fields `printBackupObj` prints, table layout
  and sort order), except the MEMORY column of class list and whether
  describe-backup prints the Failure Reason.
* `GetDockerVersion`: runs an external process, pure I/O.
* The print helpers of accounts/base.go (146-176): they only print, and nothing outside them calls them.
* The creation-time sort of list-backups (it is in `unstructuredList`,
  outside the repository), and the missing sort of list-backup-policy (see
  Other observations).
