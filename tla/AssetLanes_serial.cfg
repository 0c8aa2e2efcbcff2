SPECIFICATION Spec

CONSTANTS
  r1 = r1
  r2 = r2
  r3 = r3
  r4 = r4
  p1 = p1
  p2 = p2
  Runs = {r1, r2, r3, r4}
  PullRequests = {p1, p2}
  NumAssets = 2
  MaxActive = 1
  MaxVersions = 2
  Expiring = FALSE
  MaxFaults = 1
  None = None

SYMMETRY Symmetry

INVARIANT ManifestIsTrue

PROPERTIES
  ReadLanesAreImmutable
  PublishedWhenComplete

CHECK_DEADLOCK FALSE
