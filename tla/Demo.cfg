SPECIFICATION Spec
CONSTANTS
  Files <- MCFiles
  Contents <- MCContents
INVARIANTS StatusIsTrue TargetFate
PROPERTIES OnlyTargetChanges
