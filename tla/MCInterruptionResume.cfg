SPECIFICATION Spec
CONSTANTS
  r1 = r1
  r2 = r2
  Requests <- MCTwo
  Length = 4
  MinLength = 2
  MaxCuts = 3
  Enabled = TRUE
  Instructed = TRUE
  Alone = TRUE
INVARIANTS
  Contiguous
  SnapshotIsTail
  CachedToTheEnd
\* Every request ends.
CHECK_DEADLOCK FALSE
