SPECIFICATION Spec
CONSTANTS
  None = None
  Corrupt = Corrupt
  MaxSave = 4
  MaxDamage = 1
PROPERTIES
  RecoveryIsKept
CHECK_DEADLOCK FALSE
