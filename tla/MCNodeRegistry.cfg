SPECIFICATION NodesSpec
CONSTANTS
  n1 = n1
  n2 = n2
  k1 = k1
  k2 = k2
  k3 = k3
  k4 = k4
  i1 = i1
  i2 = i2
  i3 = i3
  NoConn = NoConn
  Nodes = {n1, n2}
  Conns = {k1, k2, k3, k4}
  Invokes = {i1, i2, i3}
  NodeOf <- MCNodeOf
  Target <- MCTarget
CHECK_DEADLOCK FALSE
INVARIANTS
  SessionIsCurrent
PROPERTIES
  KeepsPromises
