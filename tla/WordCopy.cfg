SPECIFICATION Spec
CONSTANTS
  MemSize = 28
  WordBytes = 4
  Copies <- MCCopies
INVARIANTS CopiesEveryByte OverrunBounded
