SPECIFICATION Spec
CONSTANTS
  Pool = 2
  MaxAttempts = 4
  MaxLines = 2
  MaxBeats = 1
CONSTRAINT LastIsShort
INVARIANTS
  EndsOnce
  EmptyUnseen
  OneStream
  CachedWasWhole
PROPERTIES
  ExitEndsAttempts
