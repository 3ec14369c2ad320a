CONSTANTS
  i1 = i1
  i2 = i2
  p1 = p1
  b1 = b1
  NoName = NoName
  Invocations <- MCInvocations
  Clusters <- MCClusters
  Backups <- MCBackups
  FlagChoices <- MCFlagChoices
  Procs = {p1}

SPECIFICATION Spec
INVARIANT RestoreCreatesNewCluster
