SPECIFICATION FairSpec
INVARIANT TypeOK
INVARIANT NoOrphan
INVARIANT NothingLeftRunning
INVARIANT NoExitMissed
PROPERTY LaunchAndCloseEnd
CHECK_DEADLOCK FALSE
