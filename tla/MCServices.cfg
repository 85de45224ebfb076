CONSTANTS
  p1 = p1
  p2 = p2
  p3 = p3
  v1 = v1
  m1 = m1
  Proc = {p1, p2}
  Values = {v1}
  Default = v1
  Status = {"active"}
  None = None
  MayFail = TRUE
  MaxCommits = 3
  LockTtl = 3
  FnTicks = 2
  Attempts = 2
  MaxData = 2
  MaxStops = 1
  Name = {"a", "b"}
  Pattern = {"x", "y"}
  MaxBoots = 3
  Message = {m1}
  MAX_RETRY = 3
  MaxFailures = 5
  MaxOffset = 3
  MaxCrashes = 2
  Req = {m1}
  MaxRows = 3
  MaxFaults = 2
  ListedCode = {"a", "b"}
  Trees <- MCTrees
  MaxStarts = 3
  Critical = {"redis"}
  Optional = {"biz"}
  CacheTtl = 2
  CheckTimeout = 1
  MaxChanges = 1
SPECIFICATION ServicesSpec
CHECK_DEADLOCK FALSE
SYMMETRY MCSymmetry
INVARIANTS
  TypeOK ServesCommitted ReadsSeeReturnedWritesAlone
  SingleFlight QueuesFollowTheCode MessagesSettled LogsKept
  ListedCodesTranslate HealthIsReported GuardsAdmitAndRefuse
PROPERTIES VersionFallsOnlyByStaleSave SerialPromises
