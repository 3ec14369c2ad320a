CONSTANTS
  e1 = e1
  e2 = e2
  p1 = p1
  r1 = r1
  None = None
  Comment = Comment
  Malformed = Malformed
  UnknownKey = UnknownKey
  Editors <- MCEditors
  Policies <- MCPolicies
  Repos <- MCRepos
  RowChoices <- MCRowChoices
  MaxRows = 2
  MaxWrites = 1

SPECIFICATION Spec

INVARIANT NoWriteWhenUnchanged
