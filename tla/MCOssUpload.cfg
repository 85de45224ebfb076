CONSTANTS
  p1 = p1
  p2 = p2
  n1 = n1
  n2 = n2
  o1 = o1
  None = None
  Proc = {p1, p2}
  Part = {n1, n2}
  MayFail = TRUE
  MaxTasks = 2
  MaxUploads = 2
  MaxCreated = 4
  LocalPart = {1}
  MaxFiles = 2
  Retries = 1
  MaxRuns = 2
  MaxPauses = 1
  MaxErrors = 2
  MaxWrites = 3
  Bucket = {"b1", "b2"}
  PartNumber = {1, 2}
  MaxEdits = 1
  Overlapping = {"metadata"}
SPECIFICATION UploadsSpec
CHECK_DEADLOCK FALSE
CONSTRAINT Explored
SYMMETRY MCSymmetry
INVARIANTS
  TypeOK CompletedHasObject SerialUploads LocalUploadSafe BrowserUploadSafe CopiesFollowRows
PROPERTIES EndedStaysEnded StoreFollowsConfig
