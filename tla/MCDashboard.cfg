SPECIFICATION Spec
CONSTANTS
  None = None
  Empty = Empty
  Torn = Torn
  Thread = {t1, t2}
  Milestone = {m1}
  Operation = {"start", "stop", "lifecycle", "create_milestone", "start_milestone", "edit", "create"}
  FromShell = TRUE
  Evident = {3, 5, 6}
  FirstPhase = 6
  MaxProc = 2
  MaxRequest = 3
  MaxRestart = 1
INVARIANTS
  TypeOK
  OneWorker
  Visible
  ConfigLoads
  NoStandstill
PROPERTIES
  PhasesAreNotSkipped
SYMMETRY Threads
CHECK_DEADLOCK FALSE
