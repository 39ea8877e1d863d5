CONSTANTS
  n1 = n1
  n2 = n2
  n3 = n3
  t1 = t1
  Nodes = {n1, n2, n3}
  Tasks = {t1}
  MaxStarts = 2
SPECIFICATION Spec
INVARIANTS AtMostOnce
PROPERTIES DirectTasksRun
CHECK_DEADLOCK FALSE
