SPECIFICATION WaitsSpec
CONSTANTS
  RunCmds = {"WorkerJoin", "ControlPlaneInit"}
  MaxChunks = 0
  MaxRuns = 1
  NumFiles = 2
  NumEntries = 1
  NumContainers = 2
  WaitTimeout = 2
  CrashDelay = 1
  ProbeTimeout = 3
  Attempt = 2
  Backoff = 1
INVARIANTS WaitsTypeOK OkMeansCreated FreshOk CallBounded OkMeansAllUp SuccessNeedsEveryWait
PROPERTY WaitsEnd
CHECK_DEADLOCK FALSE
