CONSTANTS
  ta = ta
  tb = tb
  q1 = q1
  q2 = q2
  Targets = {ta, tb}
  Priorities = {1, 3}
  Delays = {0, 1}
  CoalesceDelay = 1
  RetryDelay = 2
  Requests = {q1, q2}
  MaxHandlers = 2
SPECIFICATION WakeSpec
INVARIANTS NoneForgotten NoneStranded OneBatch
PROPERTIES WakesAreTaken
CHECK_DEADLOCK FALSE
