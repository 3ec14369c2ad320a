------------------------ MODULE MCBackupDeleteDescribe ------------------------
(* Two delete/terminate invocations and one describe-backup, over two      *)
(* clusters with one backup each and one migration task.                   *)
EXTENDS BackupDeleteDescribe, TLC

CONSTANTS i1, i2, d1, c1, c2, b1, b2, t1

MCInvocations == {i1, i2}
MCDescribers  == {d1}
MCClusters    == {c1, c2}
MCBackups     == {b1, b2}
MCTasks       == {t1}
MCClusterOf   == (b1 :> c1) @@ (b2 :> c2)

Cmd(v, a, n, f) == [verb |-> v, args |-> a, names |-> n, force |-> f]

\* the command lines: --force on one cluster; --name naming a backup of
\* each cluster; --force on two clusters; no cluster; neither --name nor
\* --force; terminate with and without a task name
MCFlagChoices ==
  { Cmd("delete-backup", << c1 >>, << >>, TRUE),
    Cmd("delete-backup", << c1 >>, << b1, b2 >>, FALSE),
    Cmd("delete-backup", << c1, c2 >>, << >>, TRUE),
    Cmd("delete-backup", << >>, << b1 >>, FALSE),
    Cmd("delete-backup", << c1 >>, << >>, FALSE),
    Cmd("terminate", << t1 >>, << >>, FALSE),
    Cmd("terminate", << >>, << >>, TRUE) }

\* no name, and both backups in order
MCDescribeArgs == {<< >>, << b1, b2 >>}
=============================================================================
