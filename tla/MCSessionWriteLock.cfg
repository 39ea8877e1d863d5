SPECIFICATION FairSpec
CONSTANTS
  p1 = p1
  p2 = p2
  c1 = c1
  c2 = c2
  c3 = c3
  Nobody = Nobody
  Processes = {p1, p2}
  Callers = {c1, c2, c3}
  Gateways = {p1}
  Reentrant = {c2, c3}
  Home <- MCHome
CHECK_DEADLOCK FALSE
INVARIANTS
  Exclusive
PROPERTIES
  WaitersGetIn
