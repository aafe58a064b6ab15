SPECIFICATION TablesSpec
CONSTANTS
  BucketItemSize <- MCBucketItemSize
  HuffmanMaxLen1 = 15
  HuffmanMaxLen2 = 8
  RefillBits = 32
INVARIANTS DistanceComesBack TablesFit RanksAreRanks
