SPECIFICATION FairSpec
CONSTANTS
  p1 = p1
  p2 = p2
  t1 = t1
  t2 = t2
  t3 = t3
  None = None
  Processes = {p1, p2}
  Tasks = {t1, t2, t3}
  Loaders = {p1}
  Unreadable = {p2}
  Vanishing = {p2}
  Patches = {t2}
  Enforces = TRUE
  MaxTick = 2
  Home <- MCHome
CHECK_DEADLOCK FALSE
INVARIANTS
  TypeOK
  CacheIsFresh
  SavedStays
PROPERTIES
  TasksSettle
