SPECIFICATION FairSpec
CONSTANTS
  Base = 3
  Messages <- MCMessages
  LegalSizes <- MCLegalSizes
  MaxSent = 3
  MaxInFlight = 8
INVARIANT TypeOK
INVARIANT InSync
PROPERTY AllReceived
CHECK_DEADLOCK FALSE
