SPECIFICATION Spec
CONSTANTS
  None = None
  Bad = Bad
  Unknown = Unknown
  NoBlock = NoBlock
  NoWorkflow = NoWorkflow
  Workflows = {"CI"}
  Responses <- MixedResponses
  Evidence <- EvidenceArrives
  FirstPhase = "VALIDATION"
  MaxCommit = 1
  MaxRun = 2
  Limits = {2}
  MaxNoProgress = 1
  TurnCap = 3
INVARIANTS
  TypeOK
  AgentWorksOnPersistedPhase
  PassReportIsReal
  SyncedBeforePrompt
  OverrunOnlyAfterIncompletePhase
PROPERTIES
  VerifiedAdvance
  DoneIsVerified
  AuditTrail
