SPECIFICATION Spec

CONSTANTS
  Files <- TreeFiles
  NoFile = "nowhere"
  NoAlias = ""
  Disks <- OneBase
  MaxCalls = 1

INVARIANT ExtensionsReachTheirType

CHECK_DEADLOCK FALSE
