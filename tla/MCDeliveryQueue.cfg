CONSTANTS
  e1 = e1
  e2 = e2
  Entries = {e1, e2}
  NPayloads = 2
  MaxRetries = 2
  Backoff <- ShortBackoff
  Budget = 12
  Modes = {"strict", "bestEffort"}
  Recovery = Recovery
  MaxCrashes = 1
SPECIFICATION Spec
INVARIANTS NothingLost RetriesBounded
PROPERTIES FailedIsFinal
SYMMETRY EntrySymmetry
CHECK_DEADLOCK FALSE
