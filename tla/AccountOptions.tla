--------------------------- MODULE AccountOptions ---------------------------
(***************************************************************************)
(* How the account commands pick the pod they exec into:                   *)
(* AccountBaseOptions.Validate and Complete                                *)
(* (src/pkg/cmd/accounts/base.go 72-144).                                  *)
(*                                                                         *)
(* `kbcli cluster <account-cmd> [CLUSTER] [--component C] [--instance P]`  *)
(* either names a pod, whose cluster and component labels then define the *)
(* target, or a cluster (and optionally a component), from which a pod is  *)
(* inferred.  Each API call of Complete is its own step; meanwhile the     *)
(* workload controller deletes pods and re-creates them under the same     *)
(* name and labels (StatefulSet pods).                                     *)
(*                                                                         *)
(* FillCompInfoByName and InferPodName live outside the repository; they   *)
(* are modelled from their names and arguments: the first is a Get of the  *)
(* cluster that resolves the component (the first one when none is given), *)
(* the second picks a pod of that component.                               *)
(***************************************************************************)
EXTENDS Naturals, Sequences, SequencesExt

CONSTANTS
  Clusters,     \* clusters in the namespace
  Pods,         \* pod names
  compsOf,      \* compsOf[c]: the component names of cluster c, in spec order
  labelsOf,     \* labelsOf[p]: [cluster, comp] labels of pod p ("" if absent)
  FlagChoices   \* command lines: [args, component, instance]

VARIABLES
  pc,             \* step of the invocation
  flags,          \* its command line
  clusterName,    \* o.ClusterName
  componentName,  \* o.ComponentName
  podName,        \* o.PodName
  pod,            \* o.Pod: the name of the pod last fetched, or ""
  podExists       \* API server: podExists[p]

vars == <<pc, flags, clusterName, componentName, podName, pod, podExists>>

\* Mutant: an --instance given together with a cluster name is accepted.
ValidateKeepArgs ==
  LET a == flags.args IN
  /\ pc = "validate"
  /\ \/ /\ \/ Len(a) > 1
           \/ podName # "" /\ componentName # ""
           \/ podName = "" /\ Len(a) = 0
        /\ pc' = "failed" /\ UNCHANGED clusterName
     \/ /\ Len(a) <= 1
        /\ ~(podName # "" /\ componentName # "")
        /\ podName # "" \/ Len(a) = 1
        /\ clusterName' = IF Len(a) = 1 THEN a[1] ELSE clusterName
        /\ pc' = "execComplete"
  /\ UNCHANGED <<flags, componentName, podName, pod, podExists>>

\* Validate(args): at most one cluster; --instance excludes --component and
\* the cluster argument; without --instance the cluster is required.
Validate ==
  LET a == flags.args IN
  /\ pc = "validate"
  /\ \/ /\ \/ Len(a) > 1
           \/ podName # "" /\ (componentName # "" \/ Len(a) > 0)
           \/ podName = "" /\ Len(a) = 0
        /\ pc' = "failed" /\ UNCHANGED clusterName
     \/ /\ Len(a) <= 1
        /\ podName = "" => Len(a) = 1
        /\ podName # "" => componentName = "" /\ Len(a) = 0
        /\ clusterName' = IF Len(a) = 1 THEN a[1] ELSE clusterName
        /\ pc' = "execComplete"
  /\ UNCHANGED <<flags, componentName, podName, pod, podExists>>

\* ExecOptions.Complete (client configuration), which can fail
execComplete ==
  /\ pc = "execComplete"
  /\ pc' \in {IF podName # "" THEN "getPod" ELSE "fillCompInfo", "failed"}
  /\ UNCHANGED <<flags, clusterName, componentName, podName, pod, podExists>>

\* --instance: Get the pod, then take cluster and component from its labels
getPodByName ==
  /\ pc = "getPod"
  /\ \/ podExists[podName] /\ pod' = podName
        /\ clusterName' = labelsOf[podName].cluster
        /\ componentName' = labelsOf[podName].comp
        /\ pc' = "fillCompInfo"
     \/ ~podExists[podName] /\ pc' = "failed"
        /\ UNCHANGED <<pod, clusterName, componentName>>
  /\ UNCHANGED <<flags, podName, podExists>>

\* FillCompInfoByName: the cluster must exist and have the component; an
\* empty component name is filled with the cluster's first component
CompResolvable(c, comp) == c \in Clusters /\ comp \in ToSet(compsOf[c]) \cup {""}

fillCompInfo ==
  /\ pc = "fillCompInfo"
  /\ \/ /\ CompResolvable(clusterName, componentName)
        /\ componentName' = IF componentName = "" THEN Head(compsOf[clusterName])
                            ELSE componentName
        /\ pc' = IF podName = "" THEN "inferPod" ELSE "done"
     \/ ~CompResolvable(clusterName, componentName)
        /\ pc' = "failed" /\ UNCHANGED componentName
  /\ UNCHANGED <<flags, clusterName, podName, pod, podExists>>

\* compInfo.InferPodName: a pod of the component, or an error if it has none
PodsOf(c, comp) == {p \in Pods : labelsOf[p] = [cluster |-> c, comp |-> comp]}

inferPodName ==
  /\ pc = "inferPod"
  /\ \/ \E p \in PodsOf(clusterName, componentName) : podName' = p /\ pc' = "getInferredPod"
     \/ PodsOf(clusterName, componentName) = {} /\ pc' = "failed" /\ UNCHANGED podName
  /\ UNCHANGED <<flags, clusterName, componentName, pod, podExists>>

\* the Get of the inferred pod, which may be gone by now
getInferredPod ==
  /\ pc = "getInferredPod"
  /\ \/ podExists[podName] /\ pod' = podName /\ pc' = "done"
     \/ ~podExists[podName] /\ pc' = "failed" /\ UNCHANGED pod
  /\ UNCHANGED <<flags, clusterName, componentName, podName, podExists>>

\* environment: a pod is deleted, or re-created under its name and labels
PodChurn(p) ==
  /\ podExists' = [podExists EXCEPT ![p] = ~@]
  /\ UNCHANGED <<pc, flags, clusterName, componentName, podName, pod>>

Init ==
  /\ flags \in FlagChoices
  /\ pc = "validate"
  /\ clusterName = "" /\ componentName = flags.component /\ podName = flags.instance
  /\ pod = ""
  /\ podExists \in [Pods -> BOOLEAN]

Next ==
  \/ Validate \/ execComplete \/ getPodByName \/ fillCompInfo \/ inferPodName
  \/ getInferredPod
  \/ \E p \in Pods : PodChurn(p)

Spec == Init /\ [][Next]_vars

-----------------------------------------------------------------------------
\* When Complete succeeds, the target is the one the user typed: a cluster
\* argument is the cluster of the pod, and a --component its component.
\* (An --instance with a cluster argument is refused by Validate; were it
\* accepted, the pod's labels would silently replace the argument.)
FlagsRespected ==
  pc = "done" =>
    /\ flags.args # << >> => clusterName = flags.args[1]
    /\ flags.component # "" => componentName = flags.component
=============================================================================
