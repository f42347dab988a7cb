SPECIFICATION Spec
CONSTANTS
  Usages = {ic}
  Conns = {c1, c2, c3}
  ClientNum = 2
  None = None
  PipeFd = PipeFd
  SysFail = {"write"}
  SigpipeIgnored = FALSE
  BufCap = 1
  MaxStarts = 1
  MaxSends = 2
  MaxCrashes = 0
SYMMETRY Symmetry
INVARIANTS TypeOK SlotsSound NoClientForgotten MissedOnlyIfReported LockHeldByLiveThread DeinitLeavesNothing
PROPERTIES SlotLostOnlyByHangup ImplementsBroadcast
CHECK_DEADLOCK FALSE
