SPECIFICATION FairSpec

CONSTANTS
  r1 = r1
  r2 = r2
  r3 = r3
  p1 = p1
  Runs = {r1, r2, r3}
  PullRequests = {p1}
  NumAssets = 2
  MaxActive = 1
  MaxVersions = 1
  Expiring = TRUE
  MaxFaults = 1
  None = None

INVARIANT RerunHeals

PROPERTY ReleaseIsPublished

CHECK_DEADLOCK FALSE
