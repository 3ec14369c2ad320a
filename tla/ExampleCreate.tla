---------------------------- MODULE ExampleCreate ----------------------------
(***************************************************************************)
(* The example programs (src/example/*.go, src/unnamed/part_000): each    *)
(* main builds a cluster.CreateOptions with the hooks PreCreate,           *)
(* CreateDependencies and CleanUp set, fills in one cluster, then calls,   *)
(* each through CheckErr (which exits the process on an error),           *)
(* CreateOptions.Complete, the cluster's Complete, Validate and Run.       *)
(*                                                                         *)
(* Complete, Validate and the generic Run are outside the repository and   *)
(* are modelled from spec 2, 3 and 4.1: each call may fail; Run calls      *)
(* CreateDependencies, then PreCreate, then submits the Cluster (refused   *)
(* when one of that name exists), and on a failed submission calls CleanUp *)
(* and returns the submission's error.  Several examples may run at once,  *)
(* and other clients delete clusters.                                      *)
(*                                                                         *)
(* calls[i] is the history of the calls process i made: [op, ok].          *)
(***************************************************************************)
EXTENDS Naturals, Sequences, SequencesExt

CONSTANTS Procs

\* 1_cluster_create.go and 1_cluster_create_mysql.go create the same cluster
ExampleCreate == [name |-> "mysql-cluster1", clusterDef |-> "apecloud-mysql"]
ExampleMysql  == [name |-> "mysql-cluster1", clusterDef |-> "apecloud-mysql"]
ExampleRedis  == [name |-> "redis-cluster", clusterDef |-> "redis"]
ExamplePostgres == [name |-> "postgresql-1", clusterDef |-> "postgresql"]

Examples == {ExampleCreate, ExampleMysql, ExampleRedis, ExamplePostgres}

\* the calls main makes through CheckErr, in order
Driver == <<"CreateOptions.Complete", "Complete", "Validate", "Run">>

VARIABLES
  pc,        \* pc[i]: the next call of process i, a Run step, or "exit"/"done"
  example,   \* example[i]: the cluster it creates
  calls,     \* calls[i]: the calls it made, [op, ok] (history)
  clusters   \* API server: names of existing clusters

vars == <<pc, example, calls, clusters>>

Record(i, op, ok) == calls' = [calls EXCEPT ![i] = Append(@, [op |-> op, ok |-> ok])]

\* main: the first three calls, each of which may fail and end the process
main(i) ==
  \E k \in 1..3, ok \in BOOLEAN :
    /\ pc[i] = Driver[k]
    /\ Record(i, Driver[k], ok)
    /\ pc' = [pc EXCEPT ![i] = IF ok THEN Driver[k + 1] ELSE "exit"]
    /\ UNCHANGED <<example, clusters>>

\* Run up to the submission: CreateDependencies, then PreCreate; an error
\* is returned before anything is submitted
runHooks(i) ==
  \E k \in 1..2, ok \in BOOLEAN :
    LET steps == <<"Run", "CreateDependencies", "Create">>
        hook == <<"CreateDependencies", "PreCreate">>
    IN /\ pc[i] = steps[k]
       /\ Record(i, hook[k], ok)
       /\ pc' = [pc EXCEPT ![i] = IF ok THEN steps[k + 1] ELSE "exit"]
       /\ UNCHANGED <<example, clusters>>

\* the submission: AlreadyExists, or any other error, goes to CleanUp
runCreate(i) ==
  LET n == example[i].name
  IN /\ pc[i] = "Create"
     /\ \/ n \notin clusters /\ clusters' = clusters \cup {n}
           /\ Record(i, "Create", TRUE) /\ pc' = [pc EXCEPT ![i] = "done"]
        \/ Record(i, "Create", FALSE) /\ pc' = [pc EXCEPT ![i] = "CleanUp"]
           /\ UNCHANGED clusters
     /\ UNCHANGED example

\* CleanUp; its own result is not returned, the submission's error is
runCleanUp(i) ==
  /\ pc[i] = "CleanUp"
  /\ \E ok \in BOOLEAN : Record(i, "CleanUp", ok)
  /\ pc' = [pc EXCEPT ![i] = "exit"]
  /\ UNCHANGED <<example, clusters>>

OtherDelete(n) ==
  /\ n \in clusters
  /\ clusters' = clusters \ {n}
  /\ UNCHANGED <<pc, example, calls>>

Init ==
  /\ pc = [i \in Procs |-> Driver[1]]
  /\ example \in [Procs -> Examples]
  /\ calls = [i \in Procs |-> << >>]
  /\ clusters \in SUBSET {e.name : e \in Examples}

Next ==
  \/ \E i \in Procs : main(i) \/ runHooks(i) \/ runCreate(i) \/ runCleanUp(i)
  \/ \E n \in {e.name : e \in Examples} : OtherDelete(n)

Spec == Init /\ [][Next]_vars

=============================================================================
