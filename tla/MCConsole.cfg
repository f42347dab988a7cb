SPECIFICATION Spec
CONSTANTS
  Fields = {0, 46, 54, 65}
  Half <- SmallIntegers
  EnvLengths = {94, 95, 96}
  None = None
  ServerLines <- TypedAtServer
  ClientLines <- TypedAtClient
  MaxLines <- Bounds
  MaxFlight = 1
INVARIANTS IndInv TypeOK OneCommandPerLine OperatorSeesChanges NameFits
CHECK_DEADLOCK FALSE
