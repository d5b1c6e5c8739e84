SPECIFICATION FairSpec
CONSTANTS
  c1 = c1
  c2 = c2
  A = A
  Right = 1
  Calls = {c1, c2}
  Buttons = {A}
  HardwareCranks <- MCCranks
  NoInject <- MCNoInject
  MaxCommands = 8
  Scripts <- MCScripts
INVARIANT TypeOK
INVARIANT OwnReply
INVARIANT QueryGuardHolds
INVARIANT CrankInSync
PROPERTY CallsLastTheirFrames
PROPERTY EveryCallEnds
CHECK_DEADLOCK FALSE
