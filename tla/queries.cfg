SPECIFICATION FairSpec
CONSTANTS
  score = score
  title = title
  Names = {n1, n2}
  Variables = {score, title}
  Callbacks = {cb}
  NoSource = NoSource
  TypeOf <- MCTypeOf
  MaxExposedStates = 2
  MaxStateString = 3
  Numbers = {0}
  StringLengths = {1, 2}
  Word = 8
  MaxPolls = 2
INVARIANT TypeOK
INVARIANT ExposedIsFound
PROPERTY PromiseKept
PROPERTY EveryQueryEnds
