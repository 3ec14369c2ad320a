CONSTANTS
  i1 = i1
  i2 = i2
  c1 = c1
  c2 = c2
  b1 = b1
  NoName = NoName
  Invocations <- MCInvocations
  Clusters <- MCClusters
  Backups <- MCBackups
  FlagChoices <- MCFlagChoices

SPECIFICATION Spec
INVARIANT RestoreFromCompletedBackup
