SPECIFICATION Spec
CONSTANTS
  NumCodes = 8
  MaxCodeLen = 4
  FastLen = 2
  FreqTables <- MCFreqTables
INVARIANTS LengthsAdmissible TwoLevelLookup NoWorseThanFixed RescaledSeldom
PROPERTIES Terminates
