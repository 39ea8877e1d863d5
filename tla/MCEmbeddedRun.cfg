SPECIFICATION FairSpec
CONSTANTS
  r1 = r1
  r2 = r2
  a = a
  b = b
  NoProfile = NoProfile
  Runs = {r1, r2}
  Profiles = {a, b}
  Preferred <- MCPreferred
  Locked = {r2}
  Fallbacks = {r1}
  Levels <- MCLevels
  Long = {r2}
  Initial = "off"
  MaxOverflow = 1
  Backoff <- MCBackoff
  Billing <- MCBilling
  Window = 0
  Billed = {b}
  MaxNow = 2
  Resets = {r1}
  Lockless = {r1}
CHECK_DEADLOCK FALSE
INVARIANTS
  TypeOK
  CooldownsHeeded
PROPERTIES
  CallsBounded
  CooldownsKept
  AbortsStick
  RunsEnd
