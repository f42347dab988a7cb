SPECIFICATION FairSystem
CONSTANTS
  Usages = {ic}
  Conns = {c1, c2}
  Own = {c1}
  ClientNum = 1
  None = None
  PipeFd = PipeFd
  SysFail = {}
  SigpipeIgnored = FALSE
  BufCap = 1
  MaxStarts = 1
  MaxSends = 1
  MaxCrashes = 0
  Fields = {1, 2}
  Watched = {1}
  Values = {0, 1, 2}
  Zero = 0
  Junk = Junk
  Data <- TwoStructures
  MaxPipe = 2
  MaxServers = 1
  Quits = {}
  OtherServer = FALSE
INVARIANTS EndsAgree
PROPERTIES BroadcastArrives HangupReachesClient
CHECK_DEADLOCK FALSE
