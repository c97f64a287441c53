SPECIFICATION FairSpec
CONSTANTS
  None = None
  MaxStarts = 1
  MaxChanges = 1
  MaxOps = 1
  MaxCommits = 2
  MaxRuns = 2
  MaxIterations = 2
  MaxRollovers = 2
  MaxFailures = 2
  MaxNoProgress = 2
  MaxRounds = 2
PROPERTY EveryRunEnds
CHECK_DEADLOCK FALSE
