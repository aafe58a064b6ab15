SPECIFICATION Spec
CONSTANTS
  InSizes <- MCInSizes
  Levels <- MCLevels
  BlockSizeIn = 2
  BlockSizeRolz = 2
  BlockSizeHuffman = 2
  DistanceByte = 2
  IntRange = 8
INVARIANTS FileRoundTrip StreamInOrder OnlyLastBlockSpoiled DecoderAligned  HandlersHearAll NoTwoEmptyChunks
PROPERTIES BothReturn
