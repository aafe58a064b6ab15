SPECIFICATION CompareSpec
CONSTANTS
  MaxLen = 11
  Agreements <- MCAgreements
INVARIANTS ExactLength
