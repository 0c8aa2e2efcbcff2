SPECIFICATION MCSpec

CONSTANTS
  Files <- MCFiles

  p1 = p1
  p2 = p2
  p3 = p3
  Threads = {t1, t2}
  MainThread = t1
  SearchPath <- MCSearchPath
  Names = {g, h}
  Registered = g
  Conforming <- MCConforming
  Memory = 12
  FirstOffset = 2
  Padding = 1
  InputSizes = {2, 6}
  CacheTtl = 2
  MaxCacheSize = 1
  None = None
  MaxVersions = 2
  MaxOps = 3

  Outputs <- MCOutputs
  SchemaPath <- MCSchemaPath
  MaxInvocations = 2
  MaxFaults = 2

  Absent = Absent
  Malformed = Malformed
  MaxItems = 2
  Specs <- MCSpecs
  TypeExpressions <- MCTypeExpressions

INVARIANTS
  AnalysisIsExact
  DescriptorAfterFiles
  ExitTellsWhatIsOnDisk
  ReloadSeesNewFile
  RefusedOnlyWhenSpent
  OldMessagesAreRead
  OrdinalsKeepTheirMeaning

CHECK_DEADLOCK FALSE
