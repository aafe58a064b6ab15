SPECIFICATION FileSpec
CONSTANTS
  ByteBits = 1
  Digits = 3
  Scripts <- MCScripts
INVARIANTS LossIsTold HoleIsShort WhatIsWholeComesBack
