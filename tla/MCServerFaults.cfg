SPECIFICATION Spec
CONSTANTS
  Usages = {ic, test}
  Conns = {c1, c2}
  ClientNum = 1
  None = None
  PipeFd = PipeFd
  SysFail = {"pipe", "epoll_create", "socket", "pthread_create", "accept", "write"}
  SigpipeIgnored = TRUE
  BufCap = 1
  MaxStarts = 2
  MaxSends = 1
  MaxCrashes = 1
SYMMETRY Symmetry
INVARIANTS IndInv ServingIsReachable
CHECK_DEADLOCK FALSE
