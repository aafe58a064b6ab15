SPECIFICATION Spec
CONSTANTS
  MaxLeaves <- MCMaxLeaves
  MaxTrees <- MCMaxTrees
INVARIANTS FreedOnce OnlyHalfTreesLeak
