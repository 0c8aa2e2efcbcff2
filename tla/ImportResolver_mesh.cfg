SPECIFICATION FairSpec

CONSTANTS
  Files <- MeshFiles
  NoFile = "nowhere"
  NoAlias = ""
  Disks <- MeshDisks
  MaxCalls = 2

INVARIANTS
  TypeOK
  NoReentry
  MarksAreInProgress
  CircularMeansRing

PROPERTY ResolveReturns

CHECK_DEADLOCK FALSE
