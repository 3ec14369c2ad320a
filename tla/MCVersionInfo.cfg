CONSTANTS
  d1 = d1
  d2 = d2
  NoLabels = NoLabels
  NoVersionLabel = NoVersionLabel
  Absent = Absent
  Deploys <- MCDeploys
  KBVersions <- MCKBVersions
  K8sVersions <- MCK8sVersions

SPECIFICATION Spec
INVARIANT KubeBlocksVersionFromSoleDeployment
