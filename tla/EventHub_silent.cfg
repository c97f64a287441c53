SPECIFICATION Spec
CONSTANTS
  None = None
  Client = {c1}
  QueueSize = 1
  MaxChange = 3
CHECK_DEADLOCK FALSE
PROPERTY UpdatesComeByEvent
