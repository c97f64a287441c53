SPECIFICATION Spec
CONSTANTS
  None = None
  Empty = Empty
  Torn = Torn
  Thread = {t1}
  Milestone = {m1}
  Operation = {"start", "lifecycle"}
  FromShell = FALSE
  Evident = {5, 6}
  FirstPhase = 6
  MaxProc = 1
  MaxRequest = 2
  MaxRestart = 0
PROPERTY PhaseIsNotTakenBack
CHECK_DEADLOCK FALSE
