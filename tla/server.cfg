SPECIFICATION FairSysSpec
CONSTANTS
  Calls = {c1, c2}
  MsgTypes = {PONG, VALUE}
  MaxMessages = 3
INVARIANT TypeOK
INVARIANT NoMatchMissed
INVARIANT OneOutcomePerCall
INVARIANT HandedInOrder
INVARIANT NoMessageLost
PROPERTY EveryReceiveSettles
