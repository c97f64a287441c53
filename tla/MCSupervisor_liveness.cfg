SPECIFICATION FairSpec
CONSTANTS
  None = None
  Bad = Bad
  Unknown = Unknown
  NoBlock = NoBlock
  NoWorkflow = NoWorkflow
  Workflows = {"CI"}
  Responses <- BranchResponses
  Evidence <- EvidenceArrives
  FirstPhase = "VALIDATION"
  MaxCommit = 1
  MaxRun = 1
  Limits = {0, 1}
  MaxNoProgress = 2
  TurnCap = 2
PROPERTIES
  EveryRunEnds
  StalledRunEnds
