SPECIFICATION FairSpec
CONSTANTS
  Usages = {ic, test}
  FirstUsage = ic
  Readers = {}
  SlotNum = 2
  Fields = {1, 2}
  Watched = {1}
  Values = {0, 1}
  Zero = 0
  Junk = Junk
  None = None
  PipeFd = PipeFd
  Messages <- OneMessage
  Sizes = {2}
  SysFail = {}
  CallbackErrno = FALSE
  MaxSends = 1
  MaxPipe = 2
PROPERTIES MessageIsTaken HangupIsNoticed StopReturns
CHECK_DEADLOCK FALSE
