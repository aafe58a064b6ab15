SPECIFICATION ChunkSpec
CONSTANTS
  FirstMatch = 6
  NumCodes1 = 8
  MaxLen1 = 4
  FastLen1 = 2
  NumCodes2 = 4
  MaxLen2 = 2
  matchidx_blen <- MCBlen
  ByteBits = 2
  FetchBytes = 4
  CodebufBits = 16
  TokenBuffers <- MCTokenBuffers
  StaleBytes <- MCStaleBytes
  BlockSizeHuffman = 40
INVARIANTS OutputFits
PROPERTIES IsEntropyStream
