SPECIFICATION Spec
CONSTANTS
  r1 = r1
  r2 = r2
  parent = parent
  child = child
  Main = Main
  NoRun = NoRun
  Runs = {r1, r2}
  Sessions = {parent, child}
  Requester <- MCRequester
  Labelled = {r2}
  Channelled = {parent}
  Plans <- MCPlans
  MaxRetry = 2
  MaxStarts <- MCMaxStarts
  MaxSetbacks = 1
CHECK_DEADLOCK FALSE
INVARIANTS
  AnnouncedOnce
  SilencedStaySilent
  FlowOwnsCleanup
  NoneStranded
PROPERTIES
  NoPrematureVerdict
