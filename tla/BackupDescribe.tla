--------------------------- MODULE BackupDescribe ---------------------------
(***************************************************************************)
(* `kbcli cluster describe-backup NAME...` (DescribeBackupOptions,         *)
(* src/unnamed/part_001 1023-1172).  Complete wants at least one name.     *)
(* Run Gets each name in turn and prints it; printBackupObj calls          *)
(* enhancePrintFailureReason, which, for a backup with a FailureReason,    *)
(* Lists the backup's Jobs, then the Pods of the first failed Job, then    *)
(* Gets the first Pod's log tail, and only then prints "Failure Reason";   *)
(* printBackupObj ignores its error.  Last it Searches the backup's        *)
(* events, whose error ends the command.  Every API call is a step, and    *)
(* may fail; other clients delete and re-create backups in between.       *)
(*                                                                         *)
(* What each call reads is its own outcome: the Get whether the backup's  *)
(* Status has a FailureReason, the List of Jobs whether one has failed,    *)
(* the List of Pods whether that Job has one; controllers change these at  *)
(* any time.  The printed fields other than the failure reason are left    *)
(* out.                                                                    *)
(***************************************************************************)
EXTENDS Naturals, Sequences, SequencesExt

CONSTANTS
  Describers,    \* concurrent describe-backup processes
  Backups,       \* backup names
  DescribeArgs   \* the argument lists describe-backup is given

VARIABLES
  pc,       \* pc[i]: the next call of process i, or "done"/"failed"
  args,     \* args[i]: o.names
  cursor,   \* cursor[i]: index in o.names of the backup being described
  shown,    \* shown[i]: the backups printed, [name, reason] (history)
  exists    \* API server: exists[b]

describeVars == <<pc, args, cursor, shown>>
vars == <<describeVars, exists>>

\* shown[i][k].reason: "none" no FailureReason, "pending" not printed yet,
\* "plain" printed alone, "logs" printed with the Pod's log tail
Reasons == {"none", "pending", "plain", "logs"}

Current(i) == args[i][cursor[i]]

Goto(i, l) == pc' = [pc EXCEPT ![i] = l]

SetReason(i, r) == shown' = [shown EXCEPT ![i][Len(shown[i])].reason = r]

\* DescribeBackupOptions.Complete: a name is required; creating the clients
\* and reading the namespace may fail
Complete(i) ==
  /\ pc[i] = "complete"
  /\ \/ args[i] = << >> /\ Goto(i, "failed")
     \/ args[i] # << >> /\ \E ok \in BOOLEAN : Goto(i, IF ok THEN "get" ELSE "failed")
  /\ UNCHANGED <<args, cursor, shown, exists>>

\* Mutant: a backup that cannot be got is skipped and the loop goes on.
getBackupSkipMissing(i) ==
  /\ pc[i] = "get"
  /\ \/ exists[Current(i)]
        /\ \E failed \in BOOLEAN :
             /\ shown' = [shown EXCEPT ![i] = Append(@, [name |-> Current(i),
                            reason |-> IF failed THEN "pending" ELSE "none"])]
             /\ Goto(i, IF failed THEN "jobs" ELSE "events")
        /\ UNCHANGED cursor
     \/ ~exists[Current(i)] /\ UNCHANGED shown
        /\ cursor' = [cursor EXCEPT ![i] = @ + 1]
        /\ Goto(i, IF cursor[i] = Len(args[i]) THEN "done" ELSE "get")
  /\ UNCHANGED <<args, exists>>

\* Run: GetK8SClientObject of the next name; its error ends the command.
\* printBackupObj prints the object; enhancePrintFailureReason returns at
\* once when the FailureReason is empty.
getBackup(i) ==
  /\ pc[i] = "get"
  /\ \/ exists[Current(i)]
        /\ \E failed \in BOOLEAN :
             /\ shown' = [shown EXCEPT ![i] = Append(@, [name |-> Current(i),
                            reason |-> IF failed THEN "pending" ELSE "none"])]
             /\ Goto(i, IF failed THEN "jobs" ELSE "events")
     \/ ~exists[Current(i)] /\ Goto(i, "failed") /\ UNCHANGED shown
  /\ UNCHANGED <<args, cursor, exists>>

\* enhancePrintFailureReason: List the Jobs labelled with the backup name;
\* an error returns before anything is printed, and printBackupObj goes on;
\* no Job with Status.Failed > 0: the reason is printed alone; else the
\* first failed Job's Pods are listed.
listJobs(i) ==
  /\ pc[i] = "jobs"
  /\ \/ Goto(i, "events") /\ UNCHANGED shown
     \/ SetReason(i, "plain") /\ Goto(i, "events")
     \/ Goto(i, "pods") /\ UNCHANGED shown
  /\ UNCHANGED <<args, cursor, exists>>

\* List the Pods of the failed Job (controller-uid); an error returns
\* unprinted; no Pod: the reason is printed alone; else its logs are got
listPods(i) ==
  /\ pc[i] = "pods"
  /\ \/ Goto(i, "events") /\ UNCHANGED shown
     \/ SetReason(i, "plain") /\ Goto(i, "events")
     \/ Goto(i, "logs") /\ UNCHANGED shown
  /\ UNCHANGED <<args, cursor, exists>>

\* GetLogs(TailLines 5) of the first Pod; an error returns unprinted,
\* otherwise the reason is printed with the log tail appended
getLogs(i) ==
  /\ pc[i] = "logs"
  /\ SetReason(i, "logs") \/ UNCHANGED shown
  /\ Goto(i, "events")
  /\ UNCHANGED <<args, cursor, exists>>

\* printBackupObj: Search the backup's events; an error ends the command,
\* otherwise Run goes on with the next name
searchEvents(i) ==
  /\ pc[i] = "events"
  /\ \/ Goto(i, "failed") /\ UNCHANGED cursor
     \/ cursor' = [cursor EXCEPT ![i] = @ + 1]
        /\ Goto(i, IF cursor[i] = Len(args[i]) THEN "done" ELSE "get")
  /\ UNCHANGED <<args, shown, exists>>

\* the steps of one describe-backup process
Step(i) ==
  \/ Complete(i) \/ getBackup(i) \/ listJobs(i) \/ listPods(i)
  \/ getLogs(i) \/ searchEvents(i)

\* environment: other clients delete and re-create backups
OtherToggle(b) ==
  /\ exists' = [exists EXCEPT ![b] = ~@]
  /\ UNCHANGED describeVars

\* the process variables, as a describe-backup command starts
InitDescribe ==
  /\ pc = [i \in Describers |-> "complete"]
  /\ args \in [Describers -> DescribeArgs]
  /\ cursor = [i \in Describers |-> 1]
  /\ shown = [i \in Describers |-> << >>]

Init == InitDescribe /\ exists \in [Backups -> BOOLEAN]

Next ==
  \/ \E i \in Describers : Step(i)
  \/ \E b \in Backups : OtherToggle(b)

Spec == Init /\ [][Next]_vars

-----------------------------------------------------------------------------
Names(s) == [k \in DOMAIN s |-> s[k].name]

\* Spec 7: describe-backup prints the names in order and stops at the first
\* one it cannot get, whatever other clients delete meanwhile; a command
\* that ends without error printed every name.
DescribeStopsAtFirstFailure ==
  \A i \in Describers :
    /\ IsPrefix(Names(shown[i]), args[i])
    /\ pc[i] = "done" => Names(shown[i]) = args[i]

\* Spec 4.4 and the comment at part_001:1088 ("print failure reason,
\* ignore error"): a described backup with a FailureReason has it printed
\* once enhancePrintFailureReason has returned, with or without the logs.
FailureReasonShown ==
  \A i \in Describers : \A k \in DOMAIN shown[i] :
    shown[i][k].reason = "pending" =>
      k = Len(shown[i]) /\ pc[i] \in {"jobs", "pods", "logs"}
=============================================================================
