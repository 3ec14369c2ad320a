CONSTANTS
  i1 = i1
  i2 = i2
  d1 = d1
  c1 = c1
  c2 = c2
  b1 = b1
  b2 = b2
  t1 = t1
  Invocations <- MCInvocations
  Describers <- MCDescribers
  Clusters <- MCClusters
  Backups <- MCBackups
  Tasks <- MCTasks
  clusterOf <- MCClusterOf
  FlagChoices <- MCFlagChoices
  DescribeArgs <- MCDescribeArgs

SPECIFICATION Spec
INVARIANT FailureReasonShown
