SPECIFICATION Spec
CONSTANTS
  Base = 3
  Messages <- MCLarge
  LegalSizes <- MCLegalSizes
  MaxSent = 2
  MaxInFlight = 11
INVARIANT CompleteIsFound
CHECK_DEADLOCK FALSE
