SPECIFICATION FairSpec
CONSTANTS
  Buttons = {A}
  Cranks = {NoInject}
  NoInject = NoInject
  MaxCommands = 3
INVARIANT TypeOK
INVARIANT NeverWaitsInVain
INVARIANT NoInjectedEdgeLost
INVARIANT EveryCommandAccountedFor
PROPERTY EdgesMatchFrames
PROPERTY Settles
PROPERTY CommandsDispatched
