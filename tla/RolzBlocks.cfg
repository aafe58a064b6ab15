SPECIFICATION FairSpec
CONSTANTS
  NumBytes = 3
  mtfinit <- MCMtfInit
  mtfnext <- MCMtfNext
  BucketItemSize = 2
  MatchMinLen = 4
  MatchMaxLen = 4
  MatchGap = 2
  BlockSizeRolz = 4
  BlockSizeIn = 10
  BucketItemHash = 2
  MatchMinLenEnableLazy = 5
  Levels <- MCOneLevel
  HashContext <- MCHashCollide
  Blocks <- MCBlocks
  MaxBlocks = 2
INVARIANTS RoundTrip
PROPERTIES IsLosslessCopy
