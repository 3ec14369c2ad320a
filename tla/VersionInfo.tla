----------------------------- MODULE VersionInfo -----------------------------
(***************************************************************************)
(* GetVersionInfo (src/pkg/util/version.go 54-129): the CLI version, then  *)
(* the Kubernetes server version through discovery, then the KubeBlocks    *)
(* version from the version label of the one KubeBlocks deployment.  Two   *)
(* API calls, between which the cluster may change: KubeBlocks installed,  *)
(* upgraded (briefly two deployments), relabelled or removed, and the API  *)
(* server reachable or not.                                                *)
(*                                                                         *)
(* A deployment of the KubeBlocks chart is a name with its                *)
(* app.kubernetes.io/component label (the KubeBlocks and the               *)
(* DataProtection deployments share the chart's name label) and its other *)
(* labels: a version, or one of the model values NoLabels (GetLabels() is  *)
(* nil) and NoVersionLabel.  A version string that is empty is "".         *)
(***************************************************************************)
EXTENDS Naturals, FiniteSets

CONSTANTS
  Deploys,          \* names of deployments of the KubeBlocks chart
  KBVersions,       \* values of the app.kubernetes.io/version label
  K8sVersions,      \* GitVersions the server reports
  NoLabels,         \* a deployment without labels
  NoVersionLabel,   \* a deployment without the version label
  Absent            \* no deployment of that name

Labels == KBVersions \cup {NoLabels, NoVersionLabel}

\* the app.kubernetes.io/component values of the chart's deployments
kubeblocksAppComponent == "apps"
dataprotectionAppComponent == "dataprotection"

Deployment ==
  [comp : {kubeblocksAppComponent, dataprotectionAppComponent}, labels : Labels]

VARIABLES
  pc,            \* step of GetVersionInfo
  clientNil,     \* client == nil
  v,             \* the Version being filled: [kubernetes, kubeblocks]
  err,           \* an error was returned
  apiUp,         \* API server: reachable
  serverVersion, \* API server: ServerVersion() body, a GitVersion or "nil"
  deploy,        \* API server: deploy[d], a Deployment or Absent
  listed         \* listed[d]: labels of each deployment the List returned (history)

vars == <<pc, clientNil, v, err, apiUp, serverVersion, deploy, listed>>

Start ==
  /\ pc = "start"
  /\ pc' = IF clientNil THEN "done" ELSE "k8s"
  /\ UNCHANGED <<clientNil, v, err, apiUp, serverVersion, deploy, listed>>

\* GetK8sVersion: a failed call returns the error, a nil body "" (a
\* clientset's Discovery() is never nil once the client is not)
GetK8sVersion ==
  /\ pc = "k8s"
  /\ \/ ~apiUp /\ err' = TRUE /\ pc' = "done" /\ UNCHANGED v
     \/ apiUp /\ pc' = "kb" /\ UNCHANGED err
        /\ v' = [v EXCEPT !.kubernetes = IF serverVersion = "nil" THEN "" ELSE serverVersion]
  /\ UNCHANGED <<clientNil, apiUp, serverVersion, deploy, listed>>

\* the deployments a List with the chart's name and component comp returns
Selected(comp) == {d \in Deploys : deploy[d] # Absent /\ deploy[d].comp = comp}

\* Mutant: the selector of GetKubeBlocksDeploy lacks the component.
GetKubeBlocksDeployAnyComponent == {d \in Deploys : deploy[d] # Absent}

\* the List of GetKubeBlocksDeploy
GetKubeBlocksDeploy == Selected(kubeblocksAppComponent)

\* Mutant: GetKubeBlocksDeploy returns the first item of any non-empty list.
SoleDeployFirst(S) == IF S = {} THEN "none" ELSE CHOOSE d \in S : TRUE

\* the checks after the List: no item is nil without error, more than one
\* is an error, else the one item
SoleDeploy(S) ==
  IF S = {} THEN "none" ELSE IF Cardinality(S) > 1 THEN "multiple" ELSE CHOOSE d \in S : TRUE

\* GetDataProtectionDeploy: the same List and checks with the DataProtection
\* component; nothing in the repository calls it
GetDataProtectionDeploy == SoleDeploy(Selected(dataprotectionAppComponent))

\* the labels of the one deployment: nil labels and a missing version
\* label are errors, else the version label's value
versionLabel(l) == IF l \in KBVersions THEN l ELSE "error"

\* getKubeBlocksVersion with GetKubeBlocksDeploy: a failed List is an
\* error, no deployment is "" without error, more than one is an error,
\* and the one deployment must carry labels and the version label.
getKubeBlocksVersion ==
  /\ pc = "kb"
  /\ \/ ~apiUp /\ err' = TRUE /\ UNCHANGED <<v, listed>>
     \/ apiUp /\ listed' = [d \in GetKubeBlocksDeploy |-> deploy[d]]
        /\ LET r == SoleDeploy(GetKubeBlocksDeploy) IN
           \/ r = "none" /\ UNCHANGED <<v, err>>
           \/ r = "multiple" /\ err' = TRUE /\ UNCHANGED v
           \/ r \in Deploys /\ versionLabel(deploy[r].labels) # "error"
              /\ v' = [v EXCEPT !.kubeblocks = versionLabel(deploy[r].labels)]
              /\ UNCHANGED err
           \/ r \in Deploys /\ versionLabel(deploy[r].labels) = "error"
              /\ err' = TRUE /\ UNCHANGED v
  /\ pc' = "done"
  /\ UNCHANGED <<clientNil, apiUp, serverVersion, deploy>>

\* environment: the API server goes up and down, is upgraded; KubeBlocks
\* deployments are installed, relabelled and removed
ToggleAPI ==
  /\ apiUp' = ~apiUp
  /\ UNCHANGED <<pc, clientNil, v, err, serverVersion, deploy, listed>>

UpgradeServer ==
  /\ serverVersion' \in K8sVersions \ {serverVersion}
  /\ UNCHANGED <<pc, clientNil, v, err, apiUp, deploy, listed>>

ChangeDeploy(d) ==
  /\ deploy' \in {[deploy EXCEPT ![d] = l] : l \in (Deployment \cup {Absent}) \ {deploy[d]}}
  /\ UNCHANGED <<pc, clientNil, v, err, apiUp, serverVersion, listed>>

Init ==
  /\ pc = "start"
  /\ clientNil \in BOOLEAN
  /\ v = [kubernetes |-> "", kubeblocks |-> ""]
  /\ err = FALSE
  /\ apiUp \in BOOLEAN
  /\ serverVersion \in K8sVersions \cup {"nil"}
  /\ deploy \in [Deploys -> Deployment \cup {Absent}]
  /\ listed = [d \in {} |-> Absent]

Next ==
  \/ Start \/ GetK8sVersion \/ getKubeBlocksVersion
  \/ ToggleAPI \/ UpgradeServer \/ \E d \in Deploys : ChangeDeploy(d)

Spec == Init /\ [][Next]_vars

-----------------------------------------------------------------------------
\* A KubeBlocks version is reported only when the List found exactly one
\* deployment, a KubeBlocks (component "apps") one, and it is that
\* deployment's version label: during an upgrade with two deployments the
\* result is an error, not either one, and the DataProtection deployment of
\* the same chart never supplies it.
KubeBlocksVersionFromSoleDeployment ==
  pc = "done" /\ v.kubeblocks # "" =>
    \E d \in DOMAIN listed :
      /\ DOMAIN listed = {d}
      /\ listed[d] = [comp |-> kubeblocksAppComponent, labels |-> v.kubeblocks]
=============================================================================
