------------------------- MODULE BackupDeleteDescribe -------------------------
(***************************************************************************)
(* delete-backup and terminate (BackupDelete) running beside               *)
(* describe-backup (BackupDescribe) against one API server: they share     *)
(* which backups exist, so a describe may Get a backup a delete has just   *)
(* removed, and a delete may find a name gone that another client removed. *)
(* Other clients create and delete objects as in BackupDelete.            *)
(***************************************************************************)
CONSTANTS Invocations, Clusters, Backups, Tasks, clusterOf, FlagChoices,
          Describers, DescribeArgs

VARIABLES
  pc, flags, names, selector, confirmedNames, targets, cursor,
  dpc, dargs, dcursor, shown,
  exists   \* API server: exists[o], shared

deleteVars == <<pc, flags, names, selector, confirmedNames, targets, cursor>>
describeVars == <<dpc, dargs, dcursor, shown>>
vars == <<deleteVars, describeVars, exists>>

Delete == INSTANCE BackupDelete
Describe == INSTANCE BackupDescribe WITH pc <- dpc, args <- dargs, cursor <- dcursor

Init == Delete!Init /\ Describe!InitDescribe

Next ==
  \/ Delete!Next /\ UNCHANGED describeVars
  \/ \E i \in Describers : Describe!Step(i) /\ UNCHANGED deleteVars

Spec == Init /\ [][Next]_vars

-----------------------------------------------------------------------------
\* describe-backup prints its names in order and stops at the first one a
\* delete has removed.
DescribeStopsAtFirstFailure == Describe!DescribeStopsAtFirstFailure

\* The failure reason of a described backup is printed (violated: a failed
\* List or GetLogs drops it).
FailureReasonShown == Describe!FailureReasonShown
=============================================================================
