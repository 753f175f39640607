\* The lines of one ENUM answer arrive one by one.
SPECIFICATION Spec
CONSTANTS
  NULL = null
  Tokens = {0, 1}
  DeviceNames <- MCNames
  SmartNames <- MCSmart
  Discoveries <- MCBus
CHECK_DEADLOCK FALSE
INVARIANT EnumComplete
