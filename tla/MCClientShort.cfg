SPECIFICATION Spec
CONSTANTS
  Usages = {ic}
  FirstUsage = ic
  Readers = {ic}
  SlotNum = 1
  Fields = {1, 2}
  Watched = {1}
  Values = {0, 1}
  Zero = 0
  Junk = Junk
  None = None
  PipeFd = PipeFd
  Messages <- OneMessage
  Sizes = {1, 2}
  SysFail = {}
  CallbackErrno = FALSE
  MaxSends = 2
  MaxPipe = 2
INVARIANTS PoolHoldsOnlyWhatWasSent
CHECK_DEADLOCK FALSE
