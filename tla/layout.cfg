SPECIFICATION Spec
CONSTANTS
  HALF = 131072
  CSM = 256
  Devices <- MCDevices
CHECK_DEADLOCK FALSE
INVARIANTS
SmallApart SmallCovered BlocksOnDevice
