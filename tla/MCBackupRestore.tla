---------------------------- MODULE MCBackupRestore ----------------------------
(* Two concurrent restores, two cluster names, one backup.                 *)
EXTENDS BackupRestore, TLC

CONSTANTS i1, i2, c1, c2, b1

MCInvocations == {i1, i2}
MCClusters    == {c1, c2}
MCBackups     == {b1}

\* the command lines: a generated name; a given name; no --backup
MCFlagChoices ==
  { [backup |-> b1, name |-> NoName],
    [backup |-> b1, name |-> c1],
    [backup |-> NoName, name |-> c1] }
=============================================================================
