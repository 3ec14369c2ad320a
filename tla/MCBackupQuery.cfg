CONSTANTS
  c1 = c1
  c2 = c2
  b1 = b1
  b2 = b2
  bp1 = bp1
  bp2 = bp2
  Missing = Missing
  Clusters <- MCClusters
  Backups <- MCBackups
  Policies <- MCPolicies
  AnnValues <- MCAnnValues
  ListCmds <- MCListCmds
  PolicyCmds <- MCPolicyCmds

SPECIFICATION Spec
INVARIANT DefaultColumnAgreesWithBackup
INVARIANT DescribedDefaultIsBackupDefault
