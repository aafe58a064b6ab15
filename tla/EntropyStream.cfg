SPECIFICATION Spec
CONSTANTS
  FirstMatch = 4
  NumCodes1 = 6
  MaxLen1 = 3
  FastLen1 = 2
  NumCodes2 = 4
  MaxLen2 = 2
  matchidx_blen <- MCBlen
  ByteBits = 2
  FetchBytes = 4
  CodebufBits = 16
  TokenBuffers <- MCTokenBuffers
  StaleBytes <- MCStaleBytes
INVARIANTS CodebufFits StreamRoundTrip FetchBounded
