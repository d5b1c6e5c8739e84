SPECIFICATION FairSpec
CONSTANTS
  f1 = f1
  f2 = f2
  title = title
  Flows = {f1, f2}
  Names = {title}
  NoFile = NoFile
  Truncated = Truncated
  Nothing = Nothing
  Height = 2
  BytesPerRow = 1
  RowSize = 2
  Bits = 2
  SettleFrames = 2
  MaxPolls = 3
  Displays <- MCDisplays
  Scripts <- MCScripts
INVARIANT TypeOK
INVARIANT VerdictIsXor
INVARIANT WaitsTellTheTruth
INVARIANT NoTornReference
PROPERTY ReferencesKept
PROPERTY EveryCallEnds
