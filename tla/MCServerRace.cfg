SPECIFICATION Spec
CONSTANTS
  Usages = {ic}
  Conns = {c1}
  ClientNum = 1
  None = None
  PipeFd = PipeFd
  SysFail = {}
  SigpipeIgnored = FALSE
  BufCap = 1
  MaxStarts = 1
  MaxSends = 0
  MaxCrashes = 0
INVARIANTS StartedServerHasThread
CHECK_DEADLOCK FALSE
