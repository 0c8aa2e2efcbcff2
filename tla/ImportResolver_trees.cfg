SPECIFICATION Spec

CONSTANTS
  Files <- TreeFiles
  NoFile = "nowhere"
  NoAlias = ""
  Disks <- TreeDisks
  MaxCalls = 2

INVARIANTS
  ContextFree
  DiamondsMergeOnce
  ExtensionsReachTheirTypeInTrees

CHECK_DEADLOCK FALSE
