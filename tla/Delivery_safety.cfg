SPECIFICATION Spec
CONSTANTS
  None = None
  MaxStarts = 3
  MaxChanges = 1
  MaxOps = 1
  MaxCommits = 2
  MaxRuns = 2
  MaxIterations = 2
  MaxRollovers = 1
  MaxFailures = 2
  MaxNoProgress = 1
  MaxRounds = 1
INVARIANTS
  TypeOK
  OperatorFilesStay
  PushedIsValidated
  SuccessIsOnGitHub
  NothingIsLost
  InterruptionIsResumed
  OnceFailureIsResumable
PROPERTY KeepsPromise
CHECK_DEADLOCK FALSE
