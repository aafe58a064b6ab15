SPECIFICATION FairSpec
CONSTANTS
  NumBytes = 2
  mtfinit <- MCMtfInit
  mtfnext <- MCMtfNext
  BucketItemSize = 2
  MatchMinLen = 4
  MatchMaxLen = 5
  MatchGap = 2
  BlockSizeRolz = 4
  BlockSizeIn = 13
  BucketItemHash = 2
  MatchMinLenEnableLazy = 5
  Levels <- MCTwoLevels
  HashContext <- MCHashContext
  Blocks <- MCLongBlocks
  MaxBlocks = 1
INVARIANTS IInv TokensInRange DecoderTracksEncoder CopySourceBehind
PROPERTIES SearchGoesBack AllBlocksDone
