CONSTANTS
  p1 = p1
  p2 = p2
  v1 = v1
  Proc = {p1, p2}
  Values = {v1}
  Default = v1
  Status = {"active"}
  MayFail = TRUE
  None = None
  MaxCommits = 2
  Attempts = 2
  MaxData = 2
  MaxStops = 1
  MaxRuns = 2
  MaxPauses = 1
  MaxErrors = 1
  Retries = 1
SPECIFICATION ProgressSpec
CHECK_DEADLOCK FALSE
PROPERTIES Converges AnsweredTaskRuns RunEnds
