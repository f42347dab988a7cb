SPECIFICATION Spec
CONSTANTS
  Usages = {ic, test}
  FirstUsage = ic
  Readers = {ic}
  SlotNum = 2
  Fields = {1, 2}
  Watched = {1}
  Values = {0, 1}
  Zero = 0
  Junk = Junk
  None = None
  PipeFd = PipeFd
  Messages <- OneMessage
  Sizes = {2}
  SysFail = {"pipe", "epoll_create", "malloc", "socket", "pthread_create", "recv"}
  CallbackErrno = TRUE
  MaxSends = 2
  MaxPipe = 2
INVARIANTS IndInv TypeOK EntriesSound NothingLeaks PoolIsLastMessage CallbackTellsPool LockHeldByLiveThread DeinitLeavesNothing DataInv
CHECK_DEADLOCK FALSE
