SPECIFICATION FairSpec
CONSTANTS
  Items = {1, 2}
  Length <- Script
  Fragile = {1}
  Unawaited = {2}
  Permits = 1
  Scripts <- Edits
  MaxLaunches = 2
  MaxFailures = 1
  MaxCrashes = 1
INVARIANTS
  PermitsKept
  JournalSound
PROPERTY
  EndsWhenKilled
CHECK_DEADLOCK FALSE
