CONSTANTS
  Inputs <- MCInputs
  ClassChoices <- MCClassChoices
  Probe <- MCProbe
  ClusterDefs = {"apecloud-mysql"}
  Components = {"mysql", "proxy"}
  NoName = NoName

SPECIFICATION Spec
CHECK_DEADLOCK FALSE
INVARIANT PrintedWithinRounding
