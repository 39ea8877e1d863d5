SPECIFICATION FairSpec
CONSTANTS
  c1 = c1
  c2 = c2
  p1 = p1
  NoFile = NoFile
  Calls = {c1, c2}
  Patterns = {p1}
  Command <- Same
  Policies <- MCPolicies
  Forwarded = {c1}
  MaxEdits = 1
  MaxLosses = 1
CHECK_DEADLOCK FALSE
INVARIANTS
  TypeOK
  OneDecision
  EntriesWereAllowed
PROPERTIES
  EndsAreLearnt
