SPECIFICATION FairSpec
CONSTANTS
  Usages = {ic}
  Conns = {c1, c2}
  ClientNum = 1
  None = None
  PipeFd = PipeFd
  SysFail = {}
  SigpipeIgnored = FALSE
  BufCap = 1
  MaxStarts = 1
  MaxSends = 2
  MaxCrashes = 0
PROPERTIES StopReturns SendReturns ClientIsAnswered LeaverIsClosed
CHECK_DEADLOCK FALSE
