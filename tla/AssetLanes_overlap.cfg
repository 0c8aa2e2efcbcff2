SPECIFICATION Spec

CONSTANTS
  r1 = r1
  r2 = r2
  r3 = r3
  p1 = p1
  Runs = {r1, r2, r3}
  PullRequests = {p1}
  NumAssets = 2
  MaxActive = 2
  MaxVersions = 1
  Expiring = FALSE
  MaxFaults = 1
  None = None

SYMMETRY Symmetry

INVARIANTS
  ReleasedFromItsTree
  CompleteLanesHaveAssets
  LatestIsComplete

CHECK_DEADLOCK FALSE
