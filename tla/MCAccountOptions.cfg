CONSTANTS
  Clusters <- MCClusters
  Pods <- MCPods
  compsOf <- MCCompsOf
  labelsOf <- MCLabelsOf
  FlagChoices <- MCFlagChoices

SPECIFICATION Spec
INVARIANT FlagsRespected
