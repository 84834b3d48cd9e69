SPECIFICATION Spec
CONSTANTS
  RunCmds = {"WorkerJoin"}
  MaxChunks = 0
  MaxRuns = 2
INVARIANT LockExcludes
CHECK_DEADLOCK FALSE
