CONSTANTS
  i1 = i1
  i2 = i2
  c1 = c1
  c2 = c2
  bp1 = bp1
  bp2 = bp2
  b1 = b1
  NoName = NoName
  Invocations <- MCInvocations
  Clusters <- MCClusters
  Policies <- MCPolicies
  NamedBackups <- MCBackups
  FlagChoices <- MCFlagChoices
  MaxTime = 1
  AnnValues <- MCAnnValues

SPECIFICATION Spec

INVARIANT TypeOK
