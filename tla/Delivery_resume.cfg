SPECIFICATION Spec
CONSTANTS
  None = None
  MaxStarts = 2
  MaxChanges = 1
  MaxOps = 0
  MaxCommits = 1
  MaxRuns = 1
  MaxIterations = 2
  MaxRollovers = 1
  MaxFailures = 2
  MaxNoProgress = 1
  MaxRounds = 1
INVARIANT FailureIsResumable
CHECK_DEADLOCK FALSE
