SPECIFICATION SystemSpec
CONSTANTS
  Usages = {ic}
  Conns = {c1}
  Own = {c1}
  ClientNum = 1
  None = None
  PipeFd = PipeFd
  SysFail = {"write"}
  SigpipeIgnored = FALSE
  BufCap = 1
  MaxStarts = 1
  MaxSends = 2
  MaxCrashes = 0
  Fields = {1, 2}
  Watched = {1}
  Values = {0, 1, 2}
  Zero = 0
  Junk = Junk
  Data <- TwoStructures
  MaxPipe = 2
  MaxServers = 1
  Quits = {"server", "client"}
  OtherServer = TRUE
INVARIANTS EndToEndInv
PROPERTIES PoolFollowsBroadcasts
CHECK_DEADLOCK FALSE
