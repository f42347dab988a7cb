SPECIFICATION Spec
CONSTANTS
  Usages = {ic, test}
  FirstUsage = ic
  Readers = {ic, test}
  SlotNum = 2
  Fields = {1, 2}
  Watched = {1}
  Values = {0, 1}
  Zero = 0
  Junk = Junk
  None = None
  PipeFd = PipeFd
  Messages <- OneMessage
  Sizes = {2}
  SysFail = {}
  CallbackErrno = FALSE
  MaxSends = 0
  MaxPipe = 2
PROPERTIES OnlyServerOrStopEnds
CHECK_DEADLOCK FALSE
