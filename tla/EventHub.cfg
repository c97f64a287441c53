SPECIFICATION Spec
CONSTANTS
  None = None
  Client = {c1}
  QueueSize = 2
  MaxChange = 3
INVARIANTS
  TypeOK
  ChangesAreTold
PROPERTIES
  EveryChangeIsTold
  StreamsEnd
CHECK_DEADLOCK FALSE
