------------------------------ MODULE IpcClient ------------------------------
(***************************************************************************)
(* The client half of the library (src/src/ipc_client.c) in one process:   *)
(* the application thread that calls ipcClientStart, ipcReadDataPool,      *)
(* ipcRegisterCallback and ipcClientStop, the service thread               *)
(* ipcClientThread, what they share, and the servers at the other end of   *)
(* the connections, which send, hang up and reject.                        *)
(*                                                                         *)
(* Descriptors of sockets are numbers that are used again, lowest first,   *)
(* so that an event fetched from epoll before a descriptor was closed can  *)
(* be handled after the number has got a new meaning.  A connection is     *)
(* named by its descriptor in this process.  The bytes of a message are    *)
(* cut into fields, the unit in which the pools are compared.              *)
(*                                                                         *)
(* Definitions named Bug_... are seeded faults, used by nothing here: put  *)
(* in the place of the definition after them, each one makes TLC report    *)
(* the property its comment names.                                         *)
(***************************************************************************)
EXTENDS Integers, Sequences, FiniteSets

CONSTANTS
  Usages,      \* the IPC_USAGE_TYPE_E values below IPC_USAGE_TYPE_MAX
  FirstUsage,  \* the one that is 0
  Readers,     \* bound: the usage types the application reads and registers callbacks for
  SlotNum,     \* IPC_CLIENT_USAGE_MAX_NUM: entries of g_clientInfo
  Fields,      \* the fields of a data structure: 1 .. PoolSize
  Watched,     \* the fields its change table lists
  Values,      \* what a field can hold
  Zero,        \* the value memset gives it
  Junk,        \* what an uninitialised stack variable holds
  None,        \* no usage, no pool, a descriptor of -1
  PipeFd,      \* g_threadCtlPipeFd[0]
  Messages,    \* the structures servers send: a subset of [Fields -> Values]
  Sizes,       \* how much of one they send, in fields
  SysFail,     \* the system calls that may fail: a subset of Syscalls
  CallbackErrno, \* whether a callback may leave ECONNREFUSED in errno
  MaxSends,    \* bound: messages a server sends on one connection
  MaxPipe      \* bound: no start is called while so many wake-up bytes are unread

Syscalls == {"pipe", "epoll_create", "malloc", "socket", "pthread_create", "recv"}
PoolSize == Cardinality(Fields)

ASSUME ClientConstants ==
  /\ FirstUsage \in Usages /\ Readers \subseteq Usages /\ SlotNum \in Nat \ {0}
  /\ PoolSize \in Nat \ {0} /\ Fields = 1 .. PoolSize
  /\ Watched \subseteq Fields /\ Zero \in Values /\ Sizes \subseteq Fields
  /\ Messages \subseteq [Fields -> Values]
  /\ SysFail \subseteq Syscalls /\ CallbackErrno \in BOOLEAN
  /\ MaxSends \in Nat /\ MaxPipe \in Nat

ASSUME NamesDiffer ==
  /\ None \notin Usages \cup Int \cup {"app", "thread"}
  /\ None \notin [Fields -> Values \cup {Junk}]
  /\ PipeFd \notin Int \cup {None}

Slots == 1 .. SlotNum
Fds == 1 .. SlotNum
AppSteps == {"idle", "start_add", "start_connect", "start_spawn", "start_flag", "start_wake",
             "start_check", "failed", "failed_count", "read_lock", "read_done", "register_lock",
             "stop_lock", "deinit", "cancel", "join", "clear"}
ThreadSteps == {"none", "check", "wait", "recheck", "lock", "handle", "exited"}

VARIABLES
  inited, threadRunning,  \* g_initedFlag, g_threadRunning
  info,                   \* g_clientInfo
  mutex,                  \* the owner of g_mutex: "app", "thread" or None
  pipe, watch,            \* bytes in the control pipe, descriptors registered in g_epollFd
  allocs,                 \* data pools allocated and not freed
  pc, arg,                \* the application thread: step, usageType
  size, out,              \* *pSize and *pData of ipcReadDataPool
  tpc, batch, local,      \* the service thread: step, events left to handle, localDataPool
  cancelled,              \* pthread_cancel was called on the service thread
  refused,                \* errno of the service thread is ECONNREFUSED
  server, use,            \* the other end of each connection, and its usage type
  stream,                 \* fields written to a connection and not received
  sent,                   \* every message written to it
  told                    \* what the callback of each entry has been told

library == <<inited, threadRunning>>
epoll   == <<pipe, watch>>
heap    == <<info, allocs>>
app     == <<pc, arg, size, out>>
thread  == <<tpc, batch, local, cancelled, refused>>
links   == <<server, use, stream, sent>>
vars    == <<library, epoll, heap, mutex, app, thread, links, told>>

Zeros == [f \in Fields |-> Zero]
Blank == [f \in Fields |-> Junk]
Empty == [usage |-> None, fd |-> None, pool |-> None, cb |-> FALSE]

\* Static storage is zero: until ipcClientInit clears it every entry of g_clientInfo has
\* usage 0 and descriptor 0.
Static == [usage |-> FirstUsage, fd |-> 0, pool |-> None, cb |-> FALSE]

Init ==
  /\ inited = FALSE /\ threadRunning = FALSE
  /\ info = [i \in Slots |-> Static]
  /\ mutex = None /\ pipe = 0 /\ watch = {}
  /\ allocs = 0
  /\ pc = "idle" /\ arg = None /\ size = 0 /\ out = None
  /\ tpc = "none" /\ batch = {} /\ local = Blank
  /\ cancelled = FALSE /\ refused = FALSE
  /\ server = [fd \in Fds |-> "none"] /\ use = [fd \in Fds |-> None]
  /\ stream = [fd \in Fds |-> << >>] /\ sent = [fd \in Fds |-> << >>]
  /\ told = [i \in Slots |-> Zeros]

FirstOf(S) == CHOOSE i \in S : \A j \in S : i <= j
EntriesOf(u) == {i \in Slots : info[i].usage = u}
EntriesAt(fd) == {i \in Slots : info[i].fd = fd}
InUse == {i \in Slots : info[i].usage # None}

ClientInfoClear == info' = [i \in Slots |-> Empty]

Goto(step) == pc' = step /\ UNCHANGED <<arg, size, out>>
\* Which of the error codes is returned makes no difference to what follows.
Return == pc' = "idle" /\ arg' = None /\ size' = 0 /\ out' = None
\* The end: label of ipcClientStart, reached with an error.
Fail == Goto("failed")

\* close() of a socket: it leaves epoll, and what was not received is lost.
CloseSocket(fd) ==
  /\ watch' = watch \ {fd}
  /\ server' = [server EXCEPT ![fd] = "none"] /\ use' = [use EXCEPT ![fd] = None]
  /\ stream' = [stream EXCEPT ![fd] = << >>] /\ sent' = [sent EXCEPT ![fd] = << >>]

\* close() and free() of what an entry holds, which is empty then.
Release(i) ==
  /\ CloseSocket(info[i].fd)
  /\ info' = [info EXCEPT ![i] = Empty]
  /\ allocs' = allocs - 1
  /\ told' = [told EXCEPT ![i] = Zeros]

-----------------------------------------------------------------------------
(* ipcClientStart *)

CallClientStart(u) ==
  /\ pc = "idle" /\ pipe < MaxPipe
  /\ arg' = u /\ UNCHANGED <<size, out>>
  /\ \/ /\ inited
        /\ pc' = "start_add" /\ UNCHANGED <<info, library, epoll>>
     \/ /\ ~inited
        /\ ClientInfoClear
        /\ inited' = TRUE /\ threadRunning' = FALSE /\ pipe' = 0 /\ watch' = {PipeFd}
        /\ pc' = "start_add"
     \/ /\ ~inited /\ {"pipe", "epoll_create"} \cap SysFail # {}
        /\ ClientInfoClear /\ threadRunning' = FALSE
        /\ pc' = "failed"
        /\ UNCHANGED <<inited, epoll>>
  /\ UNCHANGED <<mutex, allocs, thread, links, told>>

\* A usage type out of range goes to the same end: label.
CallClientStartInvalid ==
  /\ pc = "idle"
  /\ Fail
  /\ UNCHANGED <<library, epoll, heap, mutex, thread, links, told>>

\* ipcAddClient up to connect(), which may block, with the mutex held.
AddClient ==
  /\ pc = "start_add" /\ mutex = None
  /\ \/ /\ EntriesOf(arg) = {} /\ EntriesOf(None) # {}
        /\ mutex' = "app" /\ allocs' = allocs + 1 /\ Goto("start_connect")
     \/ /\ EntriesOf(arg) # {} \/ EntriesOf(None) = {} \/ "malloc" \in SysFail
        /\ Fail /\ UNCHANGED <<mutex, allocs>>
  /\ UNCHANGED <<library, epoll, info, thread, links, told>>

NewEntry(fd) == [usage |-> arg, fd |-> fd, pool |-> Zeros, cb |-> FALSE]

\* Seeded fault (NothingLeaks): a failed connect() leaves the pool allocated.
Bug_NoFree == UNCHANGED allocs

\* The end: label of ipcAddClient, reached with an error.
FreePool == allocs' = allocs - 1

\* Seeded fault (StopReturns): ipcClientStart keeps the mutex.
Bug_NoUnlock == UNCHANGED mutex

EndAdd == mutex' = None

\* The rest of ipcAddClient: connected, or refused, and the mutex released.
Connect ==
  /\ pc = "start_connect"
  /\ EndAdd
  /\ \/ LET fd == FirstOf({d \in Fds : server[d] = "none"}) IN
        /\ info' = [info EXCEPT ![FirstOf(EntriesOf(None))] = NewEntry(fd)]
        /\ watch' = watch \cup {fd}
        /\ server' = [server EXCEPT ![fd] = "up"] /\ use' = [use EXCEPT ![fd] = arg]
        /\ Goto("start_spawn")
        /\ UNCHANGED allocs
     \/ /\ FreePool
        /\ Fail
        /\ UNCHANGED <<info, watch, server, use>>
  /\ UNCHANGED <<library, pipe, thread, stream, sent, told>>

\* g_threadRunning is read, and set after pthread_create, without the mutex.
StartThread ==
  /\ pc = "start_spawn"
  /\ \/ threadRunning /\ Goto("start_wake") /\ UNCHANGED <<tpc, local>>
     \/ ~threadRunning /\ Goto("start_flag") /\ tpc' = "check" /\ local' = Blank
     \/ ~threadRunning /\ "pthread_create" \in SysFail /\ Fail
        /\ UNCHANGED <<tpc, local>>
  /\ UNCHANGED <<library, epoll, heap, mutex, batch, cancelled, refused, links, told>>

SetThreadRunning ==
  /\ pc = "start_flag"
  /\ threadRunning' = TRUE
  /\ Goto("start_wake")
  /\ UNCHANGED <<inited, epoll, heap, mutex, thread, links, told>>

WakeThread ==
  /\ pc = "start_wake"
  /\ pipe' = pipe + 1
  /\ Goto("start_check")
  /\ UNCHANGED <<library, watch, heap, mutex, thread, links, told>>

\* After usleep: is the entry still there, or has the server rejected the connection?
CheckRejected ==
  /\ pc = "start_check" /\ mutex = None
  /\ \/ EntriesOf(arg) # {} /\ Return
     \/ EntriesOf(arg) = {} /\ Fail
  /\ UNCHANGED <<library, epoll, heap, mutex, thread, links, told>>

StartFailed ==
  /\ pc = "failed"
  /\ \/ threadRunning /\ Goto("failed_count")
     \/ ~threadRunning /\ Return
  /\ UNCHANGED <<library, epoll, heap, mutex, thread, links, told>>

\* A failed start that leaves no client ends the service thread too.
CountAfterFailure ==
  /\ pc = "failed_count" /\ mutex = None
  /\ \/ InUse = {} /\ Goto("deinit")
     \/ InUse # {} /\ Return
  /\ UNCHANGED <<library, epoll, heap, mutex, thread, links, told>>

-----------------------------------------------------------------------------
(* ipcReadDataPool and ipcRegisterCallback, which do not look at g_initedFlag *)

CallReadDataPool(u, n) ==
  /\ pc = "idle"
  /\ pc' = "read_lock" /\ arg' = u /\ size' = n
  /\ UNCHANGED <<out, library, epoll, heap, mutex, thread, links, told>>

ReadDataPool ==
  /\ pc = "read_lock" /\ mutex = None
  /\ LET found == {i \in EntriesOf(arg) : info[i].pool # None /\ size >= PoolSize}
     IN \/ /\ found # {}
           /\ out' = info[FirstOf(found)].pool
           /\ pc' = "read_done" /\ UNCHANGED <<arg, size>>
        \/ found = {} /\ Return
  /\ UNCHANGED <<library, epoll, heap, mutex, thread, links, told>>

\* The caller looks at what it has been given.
ReadReturns ==
  /\ pc = "read_done"
  /\ Return
  /\ UNCHANGED <<library, epoll, heap, mutex, thread, links, told>>

CallRegisterCallback(u) ==
  /\ pc = "idle"
  /\ pc' = "register_lock" /\ arg' = u
  /\ UNCHANGED <<size, out, library, epoll, heap, mutex, thread, links, told>>

\* The user starts from the pool as it is when the callback is registered.
RegisterCallback ==
  /\ pc = "register_lock" /\ mutex = None
  /\ \/ /\ EntriesOf(arg) # {}
        /\ LET i == FirstOf(EntriesOf(arg)) IN
           /\ info' = [info EXCEPT ![i].cb = TRUE]
           /\ told' = [told EXCEPT ![i] = IF info[i].pool = None THEN Zeros ELSE info[i].pool]
        /\ Return
     \/ /\ EntriesOf(arg) = {}
        /\ Return
        /\ UNCHANGED <<info, told>>
  /\ UNCHANGED <<library, epoll, allocs, mutex, thread, links>>

-----------------------------------------------------------------------------
(* ipcClientStop, and ipcClientDeinit *)

CallClientStop(u) ==
  /\ pc = "idle"
  /\ \/ inited /\ pc' = "stop_lock" /\ arg' = u /\ UNCHANGED <<size, out>>
     \/ ~inited /\ Return
  /\ UNCHANGED <<library, epoll, heap, mutex, thread, links, told>>

RemoveClient ==
  /\ pc = "stop_lock" /\ mutex = None
  /\ \/ /\ EntriesOf(arg) = {}
        /\ Return
        /\ UNCHANGED <<epoll, heap, links, told>>
     \/ /\ EntriesOf(arg) # {}
        /\ Release(FirstOf(EntriesOf(arg)))
        /\ pipe' = pipe + 1
        /\ \/ InUse # EntriesOf(arg) /\ Return
           \/ InUse = EntriesOf(arg) /\ Goto("deinit")
  /\ UNCHANGED <<library, mutex, thread>>

\* Seeded fault (DeinitLeavesNothing): the service thread is told to stop, not joined.
Bug_DeinitNoJoin ==
  /\ pc = "deinit"
  /\ threadRunning' = FALSE /\ Goto("clear")
  /\ UNCHANGED <<inited, epoll, heap, mutex, thread, links, told>>

\* ipcClientDeinit, outside the mutex.
DeinitFlag ==
  /\ pc = "deinit"
  /\ \/ threadRunning /\ threadRunning' = FALSE /\ Goto("cancel")
     \/ ~threadRunning /\ UNCHANGED threadRunning /\ Goto("clear")
  /\ UNCHANGED <<inited, epoll, heap, mutex, thread, links, told>>

DeinitCancel ==
  /\ pc = "cancel"
  /\ cancelled' = TRUE
  /\ Goto("join")
  /\ UNCHANGED <<library, epoll, heap, mutex, tpc, batch, local, refused, links, told>>

DeinitJoin ==
  /\ pc = "join" /\ tpc = "exited"
  /\ tpc' = "none" /\ batch' = {} /\ local' = Blank /\ cancelled' = FALSE /\ refused' = FALSE
  /\ Goto("clear")
  /\ UNCHANGED <<library, epoll, heap, mutex, links, told>>

DeinitClear ==
  /\ pc = "clear"
  /\ ClientInfoClear
  /\ pipe' = 0 /\ watch' = {}
  /\ inited' = FALSE /\ UNCHANGED threadRunning
  /\ Return
  /\ UNCHANGED <<allocs, mutex, thread, links, told>>

-----------------------------------------------------------------------------
(* ipcClientThread *)

Stay == UNCHANGED <<local, cancelled, refused>>

\* Acting on a pending pthread_cancel: the thread ends where it is, keeping g_mutex if
\* it holds it.
ActOnCancel ==
  /\ cancelled
  /\ tpc' = "exited" /\ UNCHANGED batch /\ Stay
  /\ UNCHANGED <<library, epoll, heap, mutex, app, links, told>>

LoopTest ==
  /\ tpc = "check"
  /\ tpc' = IF threadRunning THEN "wait" ELSE "exited"
  /\ UNCHANGED batch /\ Stay
  /\ UNCHANGED <<library, epoll, heap, mutex, app, links, told>>

\* An event is a descriptor and whether EPOLLRDHUP was set when epoll_wait returned.
HungUp(fd) == [fd |-> fd, hup |-> TRUE]
Readable(fd) == [fd |-> fd, hup |-> FALSE]
Ready == {HungUp(fd) : fd \in {d \in watch \ {PipeFd} : server[d] = "closed"}}
         \cup {Readable(fd) : fd \in {d \in watch \ {PipeFd} :
                 server[d] = "up" /\ stream[d] # << >>}}
         \cup {Readable(fd) : fd \in {d \in watch : d = PipeFd /\ pipe > 0}}

\* epoll_wait, with room for as many events as there are entries.
EpollWait ==
  /\ tpc = "wait" /\ ~cancelled
  /\ Ready # {}
  /\ batch' = Ready
  /\ tpc' = "recheck" /\ Stay
  /\ UNCHANGED <<library, epoll, heap, mutex, app, links, told>>

CancelledInWait == tpc = "wait" /\ ActOnCancel

ThreadRecheck ==
  /\ tpc = "recheck"
  /\ tpc' = IF threadRunning THEN "lock" ELSE "exited"
  /\ UNCHANGED batch /\ Stay
  /\ UNCHANGED <<library, epoll, heap, mutex, app, links, told>>

ThreadLock ==
  /\ tpc = "lock" /\ mutex = None
  /\ mutex' = "thread" /\ tpc' = "handle" /\ UNCHANGED batch /\ Stay
  /\ UNCHANGED <<library, epoll, heap, app, links, told>>

\* The loop over epEvents takes the next event, in an order that is left open.
Take(e) == /\ tpc = "handle" /\ e \in batch
           /\ batch' = batch \ {e} /\ UNCHANGED <<tpc, cancelled>>

\* Seeded fault (TypeOK): the wake-up byte is read twice.
Bug_ReadTwice == pipe' = pipe - 2

\* read() of the wake-up byte.
ReadByte == pipe' = pipe - 1

ReadPipe ==
  /\ Take(Readable(PipeFd)) /\ ~cancelled
  /\ ReadByte
  /\ UNCHANGED <<library, watch, heap, mutex, app, local, refused, links, told>>

\* Seeded fault (EntriesSound): the connection is closed and its entry stays.
Bug_KeepEntry(i) == CloseSocket(info[i].fd) /\ UNCHANGED <<info, allocs, told>>

\* ipcCloseConnectFromServer, once it has found the entry of the descriptor.
CloseConnect(i) == Release(i)

\* Its EPOLL_CTL_DEL of the closed descriptor fails, and errno is EBADF.
ErrnoOfClose == refused' = FALSE

\* EPOLLRDHUP is looked at first: what the server sent before it hung up is dropped.
HandleHangup(fd) ==
  /\ Take(HungUp(fd))
  /\ \/ /\ EntriesAt(fd) # {}
        /\ CloseConnect(FirstOf(EntriesAt(fd))) /\ ErrnoOfClose
     \/ /\ EntriesAt(fd) = {}
        /\ UNCHANGED <<heap, watch, links, told, refused>>
  /\ UNCHANGED <<library, pipe, mutex, app, local>>

\* recv() of at most a pool's size into localDataPool: what does not arrive keeps the
\* value it had.
Received(fd) == [f \in Fields |-> IF f <= Len(stream[fd]) THEN stream[fd][f] ELSE local[f]]

\* Seeded fault (DataInv): the last field of a message is received with the next one.
Bug_RestFrom(s) == IF Len(s) <= PoolSize THEN << >> ELSE SubSeq(s, PoolSize, Len(s))
Rest(s) == IF Len(s) <= PoolSize THEN << >> ELSE SubSeq(s, PoolSize + 1, Len(s))

\* Seeded fault (CallbackTellsPool): the pool is written first, so that nothing changes.
Bug_ChangedAfter(old, new) == {f \in Watched : new[f] # new[f]}

\* Seeded fault (PoolIsLastMessage, PoolFollowsBroadcasts of IpcSystem): only the fields of
\* the change table are stored.
Bug_StoreWatched(old, new) == [f \in Fields |-> IF f \in Watched THEN new[f] ELSE old[f]]

\* ipcCheckChangeAndCallback: the fields whose change the callback is told.
Changed(old, new) == {f \in Watched : old[f] # new[f]}

\* ipcWriteToDataPool.
Stored(old, new) == new

\* ipcReceiveDataFromServer, ipcCheckChangeAndCallback, ipcWriteToDataPool. recv() blocks,
\* with the mutex held, while there is nothing to receive.
HandleData(fd) ==
  /\ Take(Readable(fd)) /\ EntriesAt(fd) # {}
  /\ LET i == FirstOf(EntriesAt(fd))
         old == info[i].pool
         new == Received(fd)
     IN /\ stream[fd] # << >> /\ ~refused
        /\ local' = new
        /\ stream' = [stream EXCEPT ![fd] = Rest(@)]
        /\ info' = [info EXCEPT ![i].pool = Stored(old, new)]
        /\ told' = [told EXCEPT ![i] =
             IF info[i].cb
               THEN [f \in Fields |-> IF f \in Changed(old, new) THEN new[f] ELSE @[f]]
               ELSE @]
        /\ refused' \in IF info[i].cb /\ Changed(old, new) # {} /\ CallbackErrno
                         THEN BOOLEAN ELSE {FALSE}
  /\ UNCHANGED <<library, epoll, allocs, mutex, app, server, use, sent>>

\* recv() delivers, and leaves errno as a callback has left it: the connection is closed
\* as if it had been refused, and what follows works on an empty entry.
HandleRefused(fd) ==
  /\ Take(Readable(fd)) /\ EntriesAt(fd) # {}
  /\ stream[fd] # << >> /\ refused
  /\ local' = Received(fd)
  /\ CloseConnect(FirstOf(EntriesAt(fd))) /\ ErrnoOfClose
  /\ UNCHANGED <<library, pipe, mutex, app>>

\* recv() returns 0: the entry is closed; what follows works on an empty entry.
HandleEnd(fd) ==
  /\ Take(Readable(fd)) /\ EntriesAt(fd) # {}
  /\ stream[fd] = << >> /\ server[fd] = "closed"
  /\ CloseConnect(FirstOf(EntriesAt(fd))) /\ ErrnoOfClose
  /\ UNCHANGED <<library, pipe, mutex, app, local>>

\* recv() returns an error: only a printf, and a callback's ECONNREFUSED is overwritten.
HandleRecvFails(fd) ==
  /\ Take(Readable(fd)) /\ EntriesAt(fd) # {}
  /\ "recv" \in SysFail
  /\ refused' = FALSE
  /\ UNCHANGED <<library, epoll, heap, mutex, app, local, links, told>>

\* An event of a descriptor that is in no entry any more: only a printf.
HandleUnknown(fd) ==
  /\ Take(Readable(fd)) /\ fd # PipeFd /\ EntriesAt(fd) = {}
  /\ UNCHANGED <<library, epoll, heap, mutex, app, local, refused, links, told>>

\* read and the printf of an error path are cancellation points; the recv and close of
\* an entry are too, but there is no entry any more when the thread is cancelled.
CancelledInHandler ==
  /\ tpc = "handle"
  /\ \E e \in batch : ~e.hup /\ EntriesAt(e.fd) = {}
  /\ ActOnCancel

\* Seeded fault (LockHeldByLiveThread, MessageIsTaken, HangupIsNoticed, HangupReachesClient
\* of IpcSystem): the service thread goes back to epoll_wait with the mutex.
Bug_KeepLock == UNCHANGED mutex

EndHandling == mutex' = None

ThreadUnlock ==
  /\ tpc = "handle" /\ batch = {}
  /\ EndHandling /\ tpc' = "check" /\ UNCHANGED batch /\ Stay
  /\ UNCHANGED <<library, epoll, heap, app, links, told>>

-----------------------------------------------------------------------------
(* The servers *)

\* A server writes the first n fields of a data structure.
ServerSends(fd, m, n) ==
  /\ server[fd] = "up" /\ Len(sent[fd]) < MaxSends
  /\ stream' = [stream EXCEPT ![fd] = @ \o SubSeq(m, 1, n)]
  /\ sent' = [sent EXCEPT ![fd] = Append(@, m)]
  /\ UNCHANGED <<library, epoll, heap, mutex, app, thread, server, use, told>>

\* A server stops, dies, or turns the client away.
ServerCloses(fd) ==
  /\ server[fd] = "up"
  /\ server' = [server EXCEPT ![fd] = "closed"]
  /\ UNCHANGED <<library, epoll, heap, mutex, app, thread, use, stream, sent, told>>

-----------------------------------------------------------------------------
StartSteps == AddClient \/ Connect \/ StartThread \/ SetThreadRunning \/ WakeThread
                \/ CheckRejected \/ StartFailed \/ CountAfterFailure
ReadSteps == ReadDataPool \/ ReadReturns \/ RegisterCallback
StopSteps == RemoveClient \/ DeinitFlag \/ DeinitCancel \/ DeinitJoin \/ DeinitClear

Call == \/ CallClientStartInvalid
        \/ \E u \in Usages : CallClientStart(u) \/ CallClientStop(u)
        \/ \E u \in Readers :
             \/ CallRegisterCallback(u)
             \/ \E n \in {PoolSize - 1, PoolSize} : CallReadDataPool(u, n)

HandlerSteps == \/ ReadPipe \/ CancelledInHandler
                \/ \E fd \in Fds : \/ HandleHangup(fd) \/ HandleData(fd) \/ HandleRefused(fd)
                                   \/ HandleEnd(fd) \/ HandleRecvFails(fd) \/ HandleUnknown(fd)
ThreadStep == LoopTest \/ EpollWait \/ CancelledInWait \/ ThreadRecheck \/ ThreadLock
                \/ HandlerSteps \/ ThreadUnlock

Servers == \E fd \in Fds :
             \/ ServerCloses(fd)
             \/ \E m \in Messages, n \in Sizes : ServerSends(fd, m, n)

Next == Call \/ StartSteps \/ ReadSteps \/ StopSteps \/ ThreadStep \/ Servers

Spec == Init /\ [][Next]_vars

\* Fairness: a thread of the process that can run does so in the end, inside an API call
\* as well as in the service thread, and the service thread is not kept waiting for the
\* mutex for ever by an application that takes it again and again. Nothing makes the
\* application call, or a server send or close.
Fairness ==
  /\ WF_vars(StartSteps \/ ReadSteps \/ StopSteps)
  /\ WF_vars(ThreadStep) /\ SF_vars(ThreadLock)

FairSpec == Spec /\ Fairness

-----------------------------------------------------------------------------
(* Properties *)

LibraryType ==
  /\ inited \in BOOLEAN /\ threadRunning \in BOOLEAN
  /\ mutex \in {"app", "thread", None}
EpollType == pipe \in Nat /\ watch \subseteq Fds \cup {PipeFd}
Pools == [Fields -> Values \cup {Junk}]
HeapType ==
  /\ info \in [Slots -> [usage : Usages \cup {None}, fd : Fds \cup {0, None},
                         pool : Pools \cup {None}, cb : BOOLEAN]]
  /\ allocs \in Nat
AppType ==
  /\ pc \in AppSteps /\ arg \in Usages \cup {None}
  /\ size \in Nat /\ out \in Pools \cup {None}
Events == [fd : Fds \cup {PipeFd}, hup : BOOLEAN]
ThreadType ==
  /\ tpc \in ThreadSteps /\ batch \subseteq Events /\ local \in Pools
  /\ cancelled \in BOOLEAN /\ refused \in BOOLEAN
LinkType ==
  /\ server \in [Fds -> {"none", "up", "closed"}] /\ use \in [Fds -> Usages \cup {None}]
  /\ stream \in [Fds -> Seq(Values)] /\ sent \in [Fds -> Seq([Fields -> Values])]

\* Every variable stays in its range; in particular the control pipe never holds a
\* negative number of bytes, and every pool freed was allocated.
TypeOK == /\ LibraryType /\ EpollType /\ HeapType /\ AppType /\ ThreadType /\ LinkType
          /\ told \in [Slots -> Pools]

\* Once the library is initialised, an entry in use has a usage type and a descriptor of
\* its own, the descriptor is an open socket that epoll watches, connected for that usage
\* type, and there is a pool; so an event finds the one entry it is about.
EntriesSound ==
  inited => \A i \in InUse :
    /\ info[i].fd \in Fds \cap watch /\ info[i].pool # None
    /\ server[info[i].fd] # "none" /\ use[info[i].fd] = info[i].usage
    /\ \A j \in InUse : i # j => info[i].usage # info[j].usage /\ info[i].fd # info[j].fd

\* Whatever fails, closes or is rejected, no pool and no socket is lost or released twice:
\* the entries in use account for all of them, but for the pool of a start under way.
NothingLeaks ==
  /\ allocs = (IF inited THEN Cardinality(InUse) ELSE 0)
                + (IF pc = "start_connect" THEN 1 ELSE 0)
  /\ \A fd \in Fds : server[fd] # "none" => inited /\ \E i \in InUse : info[i].fd = fd

\* When servers send whole structures, a pool holds exactly the last message received on
\* the connection of its own entry, or zeros: never a mixture, never another usage's data.
Taken(fd) == Len(sent[fd]) - Len(stream[fd]) \div PoolSize
PoolIsLastMessage ==
  inited => \A i \in InUse :
    LET fd == info[i].fd IN
    info[i].pool = IF Taken(fd) = 0 THEN Zeros ELSE sent[fd][Taken(fd)]

\* What the callback has been told, on top of the pool it was registered on, is what the
\* pool holds, in every field of the change table (ipcCheckChangeAndCallback).
CallbackTellsPool ==
  inited => \A i \in InUse : info[i].cb =>
    \A f \in Watched : told[i][f] = info[i].pool[f]

\* While the service thread is meant to run, g_mutex is held by a thread that is inside
\* its critical section, so that it will be released.
LockHeldByLiveThread ==
  /\ threadRunning /\ mutex = "thread" => tpc = "handle"
  /\ tpc = "handle" => mutex = "thread"
  /\ mutex = "app" <=> pc = "start_connect"

\* Once ipcClientDeinit is through, no service thread is left to run on the closed epoll
\* and pipe descriptors, and nothing is registered or connected.
DeinitLeavesNothing ==
  ~inited => tpc = "none" /\ watch = {} /\ ~threadRunning
            /\ \A fd \in Fds : server[fd] = "none"

\* Where the caller is inside the API: only start, read and register run without an
\* initialised library; ipcAddClient goes on with a usage type that has no entry yet and
\* room for one; ipcClientDeinit begins when the last entry is gone.
CallInv ==
  /\ ~inited => pc \in {"idle", "failed", "read_lock", "read_done", "register_lock"}
  /\ pc \in {"start_add", "start_connect", "register_lock", "stop_lock"} => arg # None
  /\ pc = "start_connect" => EntriesOf(arg) = {} /\ EntriesOf(None) # {}
  /\ pc \in {"deinit", "cancel", "join", "clear"} => InUse = {}

\* g_threadRunning says that there is a service thread, except while ipcClientStart has
\* created it and not yet said so, and while ipcClientDeinit ends it.
ThreadInv ==
  /\ threadRunning => tpc # "none" /\ pc \notin {"start_flag", "cancel", "join", "clear"}
  /\ ~threadRunning /\ pc \notin {"start_flag", "cancel", "join"} => tpc = "none"
  /\ pc = "start_flag" => tpc \in {"check", "exited"}
  /\ cancelled => pc = "join"

\* A mutex that a cancelled thread has taken with it is held when nobody means the thread
\* to run, and no new one is created then, because ipcAddClient would need the mutex.
LockInv ==
  /\ LockHeldByLiveThread
  /\ mutex = "thread" /\ tpc # "handle" =>
       ~threadRunning /\ pc \notin {"start_connect", "start_spawn", "start_flag"}

\* Events say of the control pipe only that it can be read, and then it can.
EventInv ==
  tpc \in {"recheck", "lock", "handle"} =>
    \A e \in batch : e.fd = PipeFd => ~e.hup /\ pipe > 0

\* An entry that is not in use holds nothing.
UnusedAreEmpty == inited => \A i \in Slots : info[i].usage = None => info[i] = Empty

\* The inductive invariant: what no step of the process changes, whatever its servers do.
IndInv == /\ TypeOK /\ CallInv /\ ThreadInv /\ LockInv /\ EventInv /\ UnusedAreEmpty
          /\ EntriesSound /\ NothingLeaks /\ CallbackTellsPool /\ DeinitLeavesNothing

\* When servers send whole structures, what is left of a stream is the last messages sent,
\* one behind the other, and a descriptor that is free has no past.
Queued(fd) == Len(stream[fd]) \div PoolSize
StreamInv ==
  \A fd \in Fds :
    /\ server[fd] = "none" => stream[fd] = << >> /\ sent[fd] = << >>
    /\ Len(stream[fd]) = PoolSize * Queued(fd) /\ Queued(fd) <= Len(sent[fd])
    /\ \A k \in 1 .. Queued(fd), f \in Fields :
         stream[fd][PoolSize * (k - 1) + f] = sent[fd][Taken(fd) + k][f]
DataInv == StreamInv /\ PoolIsLastMessage

\* The one thing that can hold the service thread up: an event that is out of date, since
\* its descriptor belongs to another connection by now, of whose server it waits for the
\* first message in recv() (ipc_client.c:293). g_mutex is held as long as that takes.
WaitsInRecv ==
  tpc = "handle" /\ \E fd \in Fds : /\ Readable(fd) \in batch /\ EntriesAt(fd) # {}
                                   /\ server[fd] = "up" /\ stream[fd] = << >>

\* What a server sends to a client that stays is received, unless the service thread is
\* ended or not there, or waits for ever for another server's first message.
MessageIsTaken ==
  \A fd \in Fds : stream[fd] # << >> ~>
    (stream[fd] = << >> \/ tpc \in {"none", "exited"} \/ []WaitsInRecv)

\* The client notices that its server is gone, and the usage type can be started again,
\* under the same conditions.
HangupIsNoticed ==
  \A fd \in Fds : server[fd] = "closed" ~>
    (server[fd] = "none" \/ tpc \in {"none", "exited"} \/ []WaitsInRecv)

\* ipcClientStop returns: it gets the mutex, and the service thread it cancels and joins
\* comes to a cancellation point, unless that thread waits with the mutex held, for ever,
\* for the first message of a server it has an event of by mistake.
StopReturns ==
  pc \in {"stop_lock", "deinit", "cancel", "join", "clear"} ~> (pc = "idle" \/ []WaitsInRecv)

-----------------------------------------------------------------------------
(* What documentation and comments say, and the code does not do *)

\* ipcSendMessage may send less than the whole structure (README.md:118-120, "size of the
\* sending data"), and what it sends "is stored in the Data Pool". A stream socket keeps no
\* message boundaries: two short messages are received as one, and the second one is
\* stored in the fields behind the first; what no message has filled is whatever
\* localDataPool held.
PoolHoldsOnlyWhatWasSent ==
  inited => \A i \in InUse : \A f \in Fields :
    info[i].pool[f] \in {Zero} \cup {sent[info[i].fd][k][f] : k \in 1 .. Len(sent[info[i].fd])}

\* An entry that is missing after a start means that "the connection is rejected"
\* (ipc_client.c:481): a connection ends because its server hangs up, or by ipcClientStop.
\* But an event is kept as a descriptor number from epoll_wait to its handling, without
\* the mutex: an EPOLLRDHUP of a connection that ipcClientStop closes in between is
\* applied to the next connection that gets the number, whose server is still there.
OnlyServerOrStopEnds ==
  [][\A fd \in Fds : server[fd] = "up" /\ server'[fd] = "none" => pc = "stop_lock"]_vars
=============================================================================
