SPECIFICATION Spec
CONSTANTS
  None = None
  Corrupt = Corrupt
  MaxSave = 4
  MaxDamage = 2
INVARIANTS
  TypeOK
  IdleIsDurable
PROPERTIES
  ImplementsRegister
CHECK_DEADLOCK FALSE
