---------------------------- MODULE BackupDelete ----------------------------
(***************************************************************************)
(* The generic delete flow as kbcli drives it from two commands:           *)
(*   `kbcli cluster delete-backup CLUSTER [--name B,...] [--force]`        *)
(*     (completeForDeleteBackup, src/unnamed/part_001 479-516)             *)
(*   `kbcli migration terminate NAME...`                                   *)
(*     (deleteMigrationTask, src/pkg/cmd/migration/terminate.go 34-57)     *)
(* followed by action.DeleteOptions.Run.  That code is not in the          *)
(* repository; it is modelled from spec 4.3 and 7: delete the explicit     *)
(* names, or with none, every object matching the label selector; with     *)
(* neither, fail; the first failing delete aborts the rest of the batch.   *)
(*                                                                         *)
(* Each delete is its own API call, so other clients (creating and         *)
(* deleting objects) interleave between them.  Backups carry their         *)
(* cluster as the app.kubernetes.io/instance label, fixed at creation.     *)
(***************************************************************************)
EXTENDS Naturals, Sequences, SequencesExt, FiniteSets

CONSTANTS
  Invocations,   \* concurrent kbcli delete-backup / terminate processes
  Clusters,      \* cluster names (positional argument of delete-backup)
  Backups,       \* backup names
  Tasks,         \* migration task names
  clusterOf,     \* clusterOf[b]: the instance label of backup b
  FlagChoices    \* command lines: [verb, args, names, force]

Objects == Backups \cup Tasks

ASSUME clusterOf \in [Backups -> Clusters]

VARIABLES
  pc,              \* pc[i]: step of invocation i
  flags,           \* flags[i]: its command line
  names,           \* names[i]: o.Names
  selector,        \* selector[i]: clusters in o.LabelSelector (instance in (...))
  confirmedNames,  \* confirmedNames[i]: o.ConfirmedNames
  targets,         \* targets[i]: the objects DeleteOptions.Run deletes, in order
  cursor,          \* cursor[i]: index of the next target
  exists           \* API server: exists[o]

vars == <<pc, flags, names, selector, confirmedNames, targets, cursor, exists>>

Pcs == {"init", "run", "delete", "done", "failed"}

Seqs(S) == BoundedSeq(S, 2)

Flags == [verb : {"delete-backup", "terminate"}, args : Seqs(Clusters \cup Tasks),
          names : Seqs(Backups), force : BOOLEAN]

ASSUME FlagChoices \subseteq Flags

\* the checks on the cluster argument: missing, or more than one, is an error
oneClusterArg(args) == Len(args) = 1

\* completeForDeleteBackup: exactly one cluster argument; --name or --force.
\* With --force and no --name the selector is built from the cluster
\* argument and ConfirmedNames set to args, then overwritten by o.Names.
completeForDeleteBackup(i) ==
  LET o == flags[i] IN
  /\ pc[i] = "init" /\ o.verb = "delete-backup"
  /\ \/ /\ \/ ~oneClusterArg(o.args)
           \/ ~o.force /\ names[i] = << >>
        /\ pc' = [pc EXCEPT ![i] = "failed"]
        /\ UNCHANGED <<selector, confirmedNames>>
     \/ /\ oneClusterArg(o.args)
        /\ o.force \/ names[i] # << >>
        /\ selector' = [selector EXCEPT ![i] =
                          IF o.force /\ names[i] = << >> THEN ToSet(o.args) ELSE @]
        /\ confirmedNames' = [confirmedNames EXCEPT ![i] = names[i]]
        /\ pc' = [pc EXCEPT ![i] = "run"]
  /\ UNCHANGED <<flags, names, targets, cursor, exists>>

\* deleteMigrationTask: the CRD check before it only prints; with no
\* argument it fails, otherwise the arguments become o.Names.
deleteMigrationTask(i) ==
  LET o == flags[i] IN
  /\ pc[i] = "init" /\ o.verb = "terminate"
  /\ \/ Len(o.args) = 0 /\ pc' = [pc EXCEPT ![i] = "failed"] /\ UNCHANGED names
     \/ Len(o.args) > 0 /\ names' = [names EXCEPT ![i] = o.args]
                        /\ pc' = [pc EXCEPT ![i] = "run"]
  /\ UNCHANGED <<flags, selector, confirmedNames, targets, cursor, exists>>

\* the objects a List with the instance selector returns
Matching(sel) == {b \in Backups : exists[b] /\ clusterOf[b] \in sel}

\* DeleteOptions.Run, resolving what to delete: the names, else the
\* selector's matches, else an error.
Run(i) ==
  /\ pc[i] = "run"
  /\ \/ names[i] # << >> /\ targets' = [targets EXCEPT ![i] = names[i]]
                         /\ pc' = [pc EXCEPT ![i] = "delete"]
     \/ names[i] = << >> /\ selector[i] # {}
        /\ targets' = [targets EXCEPT ![i] = SetToSeq(Matching(selector[i]))]
        /\ pc' = [pc EXCEPT ![i] = "delete"]
     \/ names[i] = << >> /\ selector[i] = {} /\ pc' = [pc EXCEPT ![i] = "failed"]
                         /\ UNCHANGED targets
  /\ UNCHANGED <<flags, names, selector, confirmedNames, cursor, exists>>

\* one Delete call of the batch; NotFound aborts the remaining names
deleteOne(i) ==
  LET t == targets[i][cursor[i]] IN
  /\ pc[i] = "delete" /\ cursor[i] <= Len(targets[i])
  /\ \/ exists[t] /\ exists' = [exists EXCEPT ![t] = FALSE]
                  /\ cursor' = [cursor EXCEPT ![i] = @ + 1]
                  /\ UNCHANGED pc
     \/ ~exists[t] /\ pc' = [pc EXCEPT ![i] = "failed"]
                   /\ UNCHANGED <<exists, cursor>>
  /\ UNCHANGED <<flags, names, selector, confirmedNames, targets>>

\* the loop of DeleteOptions.Run ends after the last target
finish(i) ==
  /\ pc[i] = "delete" /\ cursor[i] > Len(targets[i])
  /\ pc' = [pc EXCEPT ![i] = "done"]
  /\ UNCHANGED <<flags, names, selector, confirmedNames, targets, cursor, exists>>

\* environment: other clients and controllers create and delete objects
OtherCreate(o) ==
  /\ ~exists[o] /\ exists' = [exists EXCEPT ![o] = TRUE]
  /\ UNCHANGED <<pc, flags, names, selector, confirmedNames, targets, cursor>>

OtherDelete(o) ==
  /\ exists[o] /\ exists' = [exists EXCEPT ![o] = FALSE]
  /\ UNCHANGED <<pc, flags, names, selector, confirmedNames, targets, cursor>>

\* the steps of one kbcli process
Step(i) ==
  \/ completeForDeleteBackup(i) \/ deleteMigrationTask(i) \/ Run(i)
  \/ deleteOne(i) \/ finish(i)

Init ==
  /\ pc = [i \in Invocations |-> "init"]
  /\ flags \in [Invocations -> FlagChoices]
  /\ names = [i \in Invocations |-> flags[i].names]
  /\ selector = [i \in Invocations |-> {}]
  /\ confirmedNames = [i \in Invocations |-> << >>]
  /\ targets = [i \in Invocations |-> << >>]
  /\ cursor = [i \in Invocations |-> 1]
  /\ exists \in [Objects -> BOOLEAN]

Next ==
  \/ \E i \in Invocations : Step(i)
  \/ \E o \in Objects : OtherCreate(o) \/ OtherDelete(o)

Spec == Init /\ [][Next]_vars

=============================================================================
