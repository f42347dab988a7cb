SPECIFICATION FairSpec
CONSTANTS
  Usages = {ic}
  Conns = {c1}
  ClientNum = 1
  None = None
  PipeFd = PipeFd
  SysFail = {}
  SigpipeIgnored = FALSE
  BufCap = 1
  MaxStarts = 2
  MaxSends = 0
  MaxCrashes = 0
PROPERTIES StartReturns
CHECK_DEADLOCK FALSE
