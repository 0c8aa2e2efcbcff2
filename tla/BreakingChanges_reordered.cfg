SPECIFICATION ReleasesSpec

CONSTANTS
  Absent = Absent
  Malformed = Malformed
  MaxItems = 2
  Specs <- MCReorderedSpecs
  TypeExpressions <- MCTypeExpressions

INVARIANT OldMessagesAreRead

CHECK_DEADLOCK FALSE
