------------------------------ MODULE IpcServer ------------------------------
(***************************************************************************)
(* The server half of the library (src/src/ipc_server.c) in one process:   *)
(* the application thread that calls ipcServerStart, ipcSendMessage and    *)
(* ipcServerStop, the service thread ipcServerThread, the mutex, epoll and *)
(* control pipe they share, and, as their environment, the clients that    *)
(* connect and disconnect and the death of the process.                    *)
(*                                                                         *)
(* A step is what runs without another thread being able to see or change  *)
(* what it touches: a critical section with no blocking call is one step,  *)
(* the unlocked accesses to g_threadRunning are steps of their own, and so *)
(* is every call at which pthread_cancel can end the service thread        *)
(* (epoll_wait, read, accept, close, the printf of an error path).         *)
(*                                                                         *)
(* Definitions named Bug_... are seeded faults, used by nothing here: put  *)
(* in the place of the definition after them, each one makes TLC report    *)
(* the property its comment names.                                         *)
(***************************************************************************)
EXTENDS Integers, Sequences, FiniteSets

CONSTANTS
  Usages,         \* the IPC_USAGE_TYPE_E values below IPC_USAGE_TYPE_MAX
  Conns,          \* the connections clients open: each is one descriptor once accepted
  ClientNum,      \* IPC_LISTEN_CLIENT_NUM: slots of clientFd[], and the listen backlog
  None,           \* a descriptor of -1, the usage IPC_USAGE_TYPE_MAX, no socket file
  PipeFd,         \* g_threadCtlPipeFd[0]
  SysFail,        \* the system calls that may fail: a subset of Syscalls
  SigpipeIgnored, \* whether the application ignores SIGPIPE
  BufCap,         \* messages a client's socket holds before write() blocks
  MaxStarts,      \* bound: ipcServerStart calls of one process
  MaxSends,       \* bound: broadcasts over the whole behaviour
  MaxCrashes      \* bound: crashes not caused by SIGPIPE

\* "write" is the one of ipcSendMessage, failing whatever the client does.
Syscalls == {"pipe", "epoll_create", "socket", "pthread_create", "accept", "write"}

ASSUME ServerConstants ==
  /\ ClientNum \in Nat \ {0}
  /\ BufCap \in Nat /\ MaxStarts \in Nat /\ MaxSends \in Nat /\ MaxCrashes \in Nat
  /\ SigpipeIgnored \in BOOLEAN
  /\ SysFail \subseteq Syscalls

ASSUME DescriptorsDiffer ==
  /\ Conns \cap Int = {}
  /\ None \notin Usages \cup Conns \cup Int \cup {"app", "thread"}
  /\ PipeFd \notin Conns \cup Int \cup {None}

Slots == 1 .. ClientNum
Returns == {"OK", "PARAM", "SEQUENCE", "NO_RESOURCE", "OTHER"}
AppSteps == {"idle", "start_add", "start_spawn", "start_flag", "start_wake",
             "send_lock", "send", "write", "stop_lock", "stop_deinit", "stop_cancel",
             "stop_join", "stop_clear"}
ThreadSteps == {"none", "check", "wait", "recheck", "lock", "handle", "close",
                "unlock", "exited"}

VARIABLES
  inited, threadRunning,   \* g_initedFlag, g_threadRunning
  usage, listenFd, clientFd, \* g_serverInfo[0]: IPC_SERVER_USAGE_MAX_NUM is 1
  mutex,                   \* the owner of g_mutex: "app", "thread" or None
  pipe,                    \* bytes in the control pipe
  watch,                   \* descriptors registered in g_epollFd
  pc, arg, slot, ret,      \* the application thread: step, usageType, loop index, last result
  tpc, event, closing,     \* the service thread: step, epEvents[0].data.fd, descriptor to close
  cancelled,               \* pthread_cancel was called on the service thread
  path,                    \* the listening socket each domain file is bound to
  listening,               \* listening sockets of this process
  link, on,                \* server end of each connection, the socket it was queued on
  peer,                    \* client end of each connection
  unread, got,             \* messages waiting in each connection, and all ever written to it
  cut,                     \* the broadcasts that ended early, in an error of ipcSendMessage
  joined,                  \* broadcasts that had begun when the connection was accepted
  nsent, nsock, starts, crashes \* counters: broadcasts, sockets, starts, crashes

table   == <<usage, listenFd, clientFd>>
library == <<inited, threadRunning>>
epoll   == <<pipe, watch>>
app     == <<pc, arg, slot, ret>>
thread  == <<tpc, event, closing, cancelled>>
files   == <<path, listening, nsock>>
links   == <<link, on, peer>>
traffic == <<unread, got, cut, joined, nsent>>
vars == <<library, table, mutex, epoll, app, thread, files, links, traffic,
          starts, crashes>>

LibraryInit ==
  /\ inited = FALSE /\ threadRunning = FALSE
  /\ usage = None /\ listenFd = None /\ clientFd = [i \in Slots |-> None]
  /\ mutex = None /\ pipe = 0 /\ watch = {}
  /\ pc = "idle" /\ arg = None /\ slot = 1 /\ ret = "OK"
  /\ tpc = "none" /\ event = None /\ closing = None /\ cancelled = FALSE

Init ==
  /\ LibraryInit
  /\ path = [u \in Usages |-> None] /\ listening = {} /\ nsock = 0
  /\ link = [c \in Conns |-> "none"] /\ on = [c \in Conns |-> None]
  /\ peer = [c \in Conns |-> "none"]
  /\ unread = [c \in Conns |-> 0] /\ got = [c \in Conns |-> << >>]
  /\ cut = {} /\ joined = [c \in Conns |-> 0] /\ nsent = 0
  /\ starts = 0 /\ crashes = 0

\* Leaving an API function ends the life of its argument and loop index.
Return(r) == pc' = "idle" /\ ret' = r /\ arg' = None /\ slot' = 1
Goto(step) == pc' = step /\ UNCHANGED <<arg, slot, ret>>

\* What waits on a listening socket is refused by the kernel once it is closed.
Drop(socks) == link' = [c \in Conns |-> IF link[c] = "queued" /\ on[c] \in socks
                                          THEN "closed" ELSE link[c]]

-----------------------------------------------------------------------------
(* ipcServerStart *)

ServerInfoClear ==
  /\ usage' = None /\ listenFd' = None /\ clientFd' = [i \in Slots |-> None]

\* ipcServerInit runs before the mutex is taken; a failure in it leaves nothing behind.
CallServerStart(u) ==
  /\ pc = "idle" /\ starts < MaxStarts
  /\ starts' = starts + 1
  /\ \/ /\ inited
        /\ pc' = "start_add" /\ arg' = u
        /\ UNCHANGED <<slot, ret, library, table, epoll>>
     \/ /\ ~inited
        /\ ServerInfoClear
        /\ inited' = TRUE /\ threadRunning' = FALSE /\ pipe' = 0 /\ watch' = {PipeFd}
        /\ pc' = "start_add" /\ arg' = u
        /\ UNCHANGED <<slot, ret>>
     \/ /\ ~inited /\ {"pipe", "epoll_create"} \cap SysFail # {}
        /\ ServerInfoClear /\ threadRunning' = FALSE
        /\ Return("OTHER")
        /\ UNCHANGED <<inited, epoll>>
  /\ UNCHANGED <<mutex, thread, files, links, traffic, crashes>>

\* Seeded fault (ServingIsReachable): a failed start keeps the entry it has reserved.
Bug_KeepEntry == usage' = arg /\ UNCHANGED <<listenFd, clientFd>>

\* The end: label of ipcAddServer clears the entry "index" names.
ReleaseEntry == ServerInfoClear

\* ipcServerCreateSocket: a file that is in the way makes bind fail, and the error
\* path unlinks it, whoever it belongs to.
BindFails(u) == path[u] # None

\* What ends up cleared is the entry just reserved, or, for a usage that is served
\* already, the entry of the server that runs.
AddServerFails ==
  \/ /\ usage = arg
     /\ ReleaseEntry
     /\ UNCHANGED path
  \/ /\ usage \notin {None, arg}                     \* no empty entry
     /\ UNCHANGED <<table, path>>
  \/ /\ usage = None /\ "socket" \in SysFail
     /\ ReleaseEntry
     /\ UNCHANGED path
  \/ /\ usage = None /\ BindFails(arg)
     /\ ReleaseEntry
     /\ path' = [path EXCEPT ![arg] = None]

AddServerSucceeds ==
  /\ usage = None /\ ~BindFails(arg)
  /\ nsock' = nsock + 1
  /\ listening' = listening \cup {nsock'}
  /\ path' = [path EXCEPT ![arg] = nsock']
  /\ usage' = arg /\ listenFd' = nsock' /\ UNCHANGED clientFd
  /\ watch' = watch \cup {nsock'}

\* The critical section of ipcServerStart around ipcAddServer.
AddServer ==
  /\ pc = "start_add" /\ mutex = None
  /\ \/ AddServerSucceeds /\ Goto("start_spawn") /\ UNCHANGED pipe
     \/ AddServerFails /\ Return("NO_RESOURCE") /\ UNCHANGED <<listening, nsock, epoll>>
  /\ UNCHANGED <<library, mutex, thread, links, traffic, starts, crashes>>

\* g_threadRunning is read, and set after pthread_create, without the mutex.
StartThread ==
  /\ pc = "start_spawn"
  /\ \/ threadRunning /\ Goto("start_wake") /\ UNCHANGED tpc
     \/ ~threadRunning /\ Goto("start_flag") /\ tpc' = "check"
     \/ ~threadRunning /\ "pthread_create" \in SysFail /\ Return("NO_RESOURCE") /\ UNCHANGED tpc
  /\ UNCHANGED <<library, table, mutex, epoll, event, closing, cancelled, files, links,
                 traffic, starts, crashes>>

SetThreadRunning ==
  /\ pc = "start_flag"
  /\ threadRunning' = TRUE
  /\ Goto("start_wake")
  /\ UNCHANGED <<inited, table, mutex, epoll, thread, files, links, traffic, starts, crashes>>

WakeThread ==
  /\ pc = "start_wake"
  /\ pipe' = pipe + 1
  /\ Return("OK")
  /\ UNCHANGED <<library, table, mutex, watch, thread, files, links, traffic, starts, crashes>>

-----------------------------------------------------------------------------
(* ipcSendMessage, called with a message of the usage's full size *)

CallSendMessage(u) ==
  /\ pc = "idle" /\ nsent < MaxSends
  /\ \/ inited /\ pc' = "send_lock" /\ arg' = u /\ UNCHANGED <<slot, ret>>
     \/ ~inited /\ Return("SEQUENCE")
  /\ UNCHANGED <<library, table, mutex, epoll, thread, files, links, traffic, starts, crashes>>

SendLock ==
  /\ pc = "send_lock" /\ mutex = None
  /\ \/ /\ usage # arg
        /\ Return("PARAM")
        /\ UNCHANGED <<mutex, traffic>>
     \/ /\ usage = arg
        /\ mutex' = "app" /\ nsent' = nsent + 1
        /\ pc' = "send" /\ slot' = 1
        /\ UNCHANGED <<arg, ret, unread, got, cut, joined>>
  /\ UNCHANGED <<library, table, epoll, thread, files, links, starts, crashes>>

\* Seeded fault (MissedOnlyIfReported; EndToEndInv and BroadcastArrives of IpcSystem): the
\* loop ends one slot early.
Bug_SlotsButLast == 1 .. ClientNum - 1

\* The slots the loop of ipcSendMessage visits.
LoopSlots == Slots

\* The loop is at a slot, or inside the write() to the client that has it.
Sending == pc \in {"send", "write"}

\* write() to the client of one slot, if there is one.
SendWrite ==
  /\ Sending /\ slot \in LoopSlots
  /\ \/ clientFd[slot] = None /\ UNCHANGED traffic
     \/ \E c \in Conns :
          /\ clientFd[slot] = c /\ peer[c] = "up" /\ unread[c] < BufCap
          /\ unread' = [unread EXCEPT ![c] = @ + 1]
          /\ got' = [got EXCEPT ![c] = Append(@, nsent)]
          /\ UNCHANGED <<cut, joined, nsent>>
  /\ pc' = "send" /\ slot' = slot + 1
  /\ UNCHANGED <<library, table, mutex, epoll, arg, ret, thread, files, links, starts, crashes>>

\* It waits, with the mutex held, while the client's socket is full.
SendBlocks ==
  /\ pc = "send" /\ slot \in LoopSlots
  /\ \E c \in Conns : clientFd[slot] = c /\ peer[c] = "up" /\ unread[c] = BufCap
  /\ Goto("write")
  /\ UNCHANGED <<library, table, mutex, epoll, thread, files, links, traffic, starts, crashes>>

\* Seeded fault (LockHeldByLiveThread, SendReturns): ipcSendMessage keeps the mutex.
Bug_NoUnlock == UNCHANGED mutex

\* The end_with_unlock: label of ipcSendMessage.
EndSend == mutex' = None

\* write() to the client c fails, and the process goes on: the client has gone while it
\* waited (ECONNRESET, without a signal) or before (EPIPE, where SIGPIPE is ignored), or
\* there is another reason (ENOBUFS, EINTR).
WriteFails(c) == \/ peer[c] = "gone" /\ (pc = "write" \/ SigpipeIgnored)
                 \/ "write" \in SysFail

\* Seeded fault (MissedOnlyIfReported, ImplementsBroadcast): the write that failed is
\* taken for the last one of the loop.
Bug_EndsWell == pc' = "idle" /\ ret' = "OK" /\ arg' = None /\ slot' = 1 /\ UNCHANGED cut

\* The caller is told that the broadcast has not been sent to all.
SendFails == Return("PARAM") /\ cut' = cut \cup {nsent}

\* The first write that fails ends the loop, the slots behind it get nothing.
SendBroken ==
  /\ Sending /\ slot \in LoopSlots
  /\ \E c \in Conns : clientFd[slot] = c /\ WriteFails(c)
  /\ EndSend
  /\ SendFails
  /\ UNCHANGED <<library, table, epoll, thread, files, links, unread, got, joined, nsent, starts,
                 crashes>>

SendDone ==
  /\ pc = "send" /\ slot \notin LoopSlots
  /\ EndSend
  /\ Return("OK")
  /\ UNCHANGED <<library, table, epoll, thread, files, links, traffic, starts, crashes>>

-----------------------------------------------------------------------------
(* ipcServerStop *)

CallServerStop(u) ==
  /\ pc = "idle"
  /\ \/ inited /\ pc' = "stop_lock" /\ arg' = u /\ UNCHANGED <<slot, ret>>
     \/ ~inited /\ Return("SEQUENCE")
  /\ UNCHANGED <<library, table, mutex, epoll, thread, files, links, traffic, starts, crashes>>

\* The critical section of ipcServerStop: ipcRemoveServer and the wake-up byte. The one
\* entry is now free, so ipcCountServer() is 0 and ipcServerDeinit follows.
RemoveServer ==
  /\ pc = "stop_lock" /\ mutex = None
  /\ \/ /\ usage # arg
        /\ Return("PARAM")
        /\ UNCHANGED <<table, epoll, files, link>>
     \/ /\ usage = arg
        /\ listening' = listening \ {listenFd} /\ Drop({listenFd})
        /\ path' = [path EXCEPT ![arg] = None] /\ UNCHANGED nsock
        /\ watch' = watch \ {listenFd} /\ pipe' = pipe + 1
        /\ ServerInfoClear
        /\ Goto("stop_deinit")
  /\ UNCHANGED <<library, mutex, thread, on, peer, traffic, starts, crashes>>

\* Seeded fault (DeinitLeavesNothing): the service thread is told to stop, not joined.
Bug_DeinitNoJoin ==
  /\ pc = "stop_deinit"
  /\ threadRunning' = FALSE /\ Goto("stop_clear")
  /\ UNCHANGED <<inited, table, mutex, epoll, thread, files, links, traffic, starts, crashes>>

\* ipcServerDeinit, outside the mutex.
DeinitFlag ==
  /\ pc = "stop_deinit"
  /\ \/ threadRunning /\ threadRunning' = FALSE /\ Goto("stop_cancel")
     \/ ~threadRunning /\ UNCHANGED threadRunning /\ Goto("stop_clear")
  /\ UNCHANGED <<inited, table, mutex, epoll, thread, files, links, traffic, starts, crashes>>

DeinitCancel ==
  /\ pc = "stop_cancel"
  /\ cancelled' = TRUE
  /\ Goto("stop_join")
  /\ UNCHANGED <<library, table, mutex, epoll, tpc, event, closing, files, links, traffic,
                 starts, crashes>>

DeinitJoin ==
  /\ pc = "stop_join" /\ tpc = "exited"
  /\ tpc' = "none" /\ event' = None /\ closing' = None /\ cancelled' = FALSE
  /\ Goto("stop_clear")
  /\ UNCHANGED <<library, table, mutex, epoll, files, links, traffic, starts, crashes>>

DeinitClear ==
  /\ pc = "stop_clear"
  /\ ServerInfoClear
  /\ pipe' = 0 /\ watch' = {}
  /\ inited' = FALSE /\ UNCHANGED threadRunning
  /\ Return("OK")
  /\ UNCHANGED <<mutex, thread, files, links, traffic, starts, crashes>>

-----------------------------------------------------------------------------
(* ipcServerThread *)

Stay == UNCHANGED <<event, closing, cancelled>>

\* Acting on a pending pthread_cancel: the thread ends where it is, keeping g_mutex if
\* it holds it.
ActOnCancel ==
  /\ cancelled
  /\ tpc' = "exited" /\ Stay
  /\ UNCHANGED <<library, table, mutex, epoll, app, files, links, traffic, starts, crashes>>

LoopTest ==
  /\ tpc = "check"
  /\ tpc' = IF threadRunning THEN "wait" ELSE "exited"
  /\ Stay
  /\ UNCHANGED <<library, table, mutex, epoll, app, files, links, traffic, starts, crashes>>

Waiting(s) == {c \in Conns : link[c] = "queued" /\ on[c] = s}

\* What epoll reports: a byte in the control pipe, a client that waits on a listening
\* socket, an accepted client that has closed its end (EPOLLRDHUP).
Ready(fd) ==
  /\ fd \in watch
  /\ \/ fd = PipeFd /\ pipe > 0
     \/ fd \in listening /\ Waiting(fd) # {}
     \/ fd \in Conns /\ link[fd] = "open" /\ peer[fd] = "gone"

\* epoll_wait with room for IPC_SERVER_USAGE_MAX_NUM = 1 event.
EpollWait(fd) ==
  /\ tpc = "wait" /\ ~cancelled
  /\ Ready(fd)
  /\ tpc' = "recheck" /\ event' = fd /\ UNCHANGED <<closing, cancelled>>
  /\ UNCHANGED <<library, table, mutex, epoll, app, files, links, traffic, starts, crashes>>

CancelledInWait == tpc = "wait" /\ ActOnCancel

ThreadRecheck ==
  /\ tpc = "recheck"
  /\ tpc' = IF threadRunning THEN "lock" ELSE "exited"
  /\ Stay
  /\ UNCHANGED <<library, table, mutex, epoll, app, files, links, traffic, starts, crashes>>

ThreadLock ==
  /\ tpc = "lock" /\ mutex = None
  /\ mutex' = "thread" /\ tpc' = "handle" /\ Stay
  /\ UNCHANGED <<library, table, epoll, app, files, links, traffic, starts, crashes>>

\* Seeded fault (TypeOK): the wake-up byte is read twice.
Bug_ReadTwice == pipe' = pipe - 2

\* read() of the wake-up byte.
ReadByte == pipe' = pipe - 1

ReadPipe ==
  /\ tpc = "handle" /\ event = PipeFd /\ ~cancelled
  /\ ReadByte
  /\ tpc' = "unlock" /\ Stay
  /\ UNCHANGED <<library, table, mutex, watch, app, files, links, traffic, starts, crashes>>

\* Seeded fault (SlotLostOnlyByHangup, NoClientForgotten, EndsAgree of IpcSystem): every
\* slot is taken for a free one.
Bug_AllSlots == Slots

\* The slots ipcAddConnectClient can give to a new client.
FreeSlots == {i \in Slots : clientFd[i] = None}
FirstOf(S) == CHOOSE i \in S : \A j \in S : i <= j

\* ipcAcceptClient: accept, then ipcAddConnectClient; a client too many is shut down.
\* The order of the backlog is left open.
AcceptClient ==
  /\ tpc = "handle" /\ event = listenFd /\ event # None /\ ~cancelled
  /\ \/ \E c \in Waiting(listenFd) :
          \/ /\ FreeSlots # {}
             /\ clientFd' = [clientFd EXCEPT ![FirstOf(FreeSlots)] = c]
             /\ link' = [link EXCEPT ![c] = "open"]
             /\ watch' = watch \cup {c}
             /\ joined' = [joined EXCEPT ![c] = nsent]
             /\ tpc' = "unlock" /\ UNCHANGED closing
          \/ /\ FreeSlots = {}
             /\ link' = [link EXCEPT ![c] = "shut"]
             /\ tpc' = "close" /\ closing' = c
             /\ UNCHANGED <<clientFd, watch, joined>>
     \/ /\ "accept" \in SysFail
        /\ tpc' = "unlock"
        /\ UNCHANGED <<clientFd, link, watch, joined, closing>>
  /\ UNCHANGED <<library, usage, listenFd, mutex, pipe, app, event, cancelled, files, on, peer,
                 unread, got, cut, nsent, starts, crashes>>

\* An event of a listening socket that is no longer in g_serverInfo: only a printf.
AcceptUnknown ==
  /\ tpc = "handle" /\ event \in Int /\ event # listenFd
  /\ tpc' = "unlock" /\ Stay
  /\ UNCHANGED <<library, table, mutex, epoll, app, files, links, traffic, starts, crashes>>

\* Seeded fault (LeaverIsClosed): the scan for a descriptor starts at the second slot.
Bug_SlotsBehind(c) == {i \in Slots : i > 1 /\ clientFd[i] = c}

SlotsOf(c) == {i \in Slots : clientFd[i] = c}

\* Seeded fault (SlotsSound): the slot still names the descriptor that is closed.
Bug_KeepSlot(i) == UNCHANGED clientFd

ReleaseSlot(i) == clientFd' = [clientFd EXCEPT ![i] = None]

\* ipcCloseClient: the slot is freed and the socket shut down; close comes next.
CloseClient ==
  /\ tpc = "handle" /\ event \in Conns
  /\ \/ /\ usage # None /\ SlotsOf(event) # {}
        /\ ReleaseSlot(FirstOf(SlotsOf(event)))
        /\ link' = [link EXCEPT ![event] = "shut"]
        /\ tpc' = "close" /\ closing' = event
     \/ /\ usage = None \/ SlotsOf(event) = {}
        /\ tpc' = "unlock"
        /\ UNCHANGED <<clientFd, link, closing>>
  /\ UNCHANGED <<library, usage, listenFd, mutex, epoll, app, event, cancelled, files, on, peer,
                 traffic, starts, crashes>>

\* close() of a client's descriptor: closing it also takes it out of epoll, and the
\* EPOLL_CTL_DEL that follows finds nothing to remove.
CloseFd ==
  /\ tpc = "close" /\ ~cancelled
  /\ link' = [link EXCEPT ![closing] = "closed"]
  /\ watch' = watch \ {closing}
  /\ tpc' = "unlock" /\ closing' = None
  /\ UNCHANGED <<library, table, mutex, pipe, app, event, cancelled, files, on, peer, traffic,
                 starts, crashes>>

\* read, accept, the printf of AcceptUnknown and close are cancellation points.
CancelledInHandler ==
  /\ \/ tpc = "handle" /\ (event = PipeFd \/ event \in Int)
     \/ tpc = "close"
  /\ ActOnCancel

ThreadUnlock ==
  /\ tpc = "unlock"
  /\ mutex' = None /\ tpc' = "check"
  /\ event' = None /\ UNCHANGED <<closing, cancelled>>
  /\ UNCHANGED <<library, table, epoll, app, files, links, traffic, starts, crashes>>

-----------------------------------------------------------------------------
(* The clients and the process *)

\* connect() of a client: it finds the socket the file is bound to, if it still listens,
\* and blocks while the backlog is full.
Connect(c, u) ==
  /\ peer[c] = "none" /\ path[u] \in listening
  /\ Cardinality(Waiting(path[u])) <= ClientNum
  /\ peer' = [peer EXCEPT ![c] = "up"]
  /\ link' = [link EXCEPT ![c] = "queued"] /\ on' = [on EXCEPT ![c] = path[u]]
  /\ UNCHANGED <<library, table, mutex, epoll, app, thread, files, traffic, starts, crashes>>

\* The client stops, or dies, while its connection is still of interest to the server.
Disconnect(c) ==
  /\ peer[c] = "up" /\ link[c] \in {"queued", "open"}
  /\ peer' = [peer EXCEPT ![c] = "gone"]
  /\ UNCHANGED <<library, table, mutex, epoll, app, thread, files, link, on, traffic,
                 starts, crashes>>

ClientReads(c) ==
  /\ peer[c] = "up" /\ unread[c] > 0
  /\ unread' = [unread EXCEPT ![c] = @ - 1]
  /\ UNCHANGED <<library, table, mutex, epoll, app, thread, files, links, got, cut, joined, nsent,
                 starts, crashes>>

\* The process ends: the kernel closes its sockets, the socket files stay behind, and
\* the program is started again with the library in its initial state.
ProcessDies ==
  /\ inited' = FALSE /\ threadRunning' = FALSE
  /\ ServerInfoClear
  /\ mutex' = None /\ pipe' = 0 /\ watch' = {}
  /\ Return("OK")
  /\ tpc' = "none" /\ event' = None /\ closing' = None /\ cancelled' = FALSE
  /\ listening' = {} /\ UNCHANGED <<path, nsock>>
  /\ link' = [c \in Conns |-> IF link[c] = "none" THEN "none" ELSE "closed"]
  /\ starts' = 0
  /\ UNCHANGED <<on, peer, traffic>>

Crash ==
  /\ inited /\ crashes < MaxCrashes
  /\ crashes' = crashes + 1
  /\ ProcessDies

\* SIGPIPE, raised by a write to a client that is already gone, ends the process by default.
SendKilled ==
  /\ pc = "send" /\ slot \in Slots /\ ~SigpipeIgnored
  /\ \E c \in Conns : clientFd[slot] = c /\ peer[c] = "gone"
  /\ ProcessDies /\ UNCHANGED crashes

-----------------------------------------------------------------------------
StartSteps == AddServer \/ StartThread \/ SetThreadRunning \/ WakeThread
SendSteps == SendLock \/ SendWrite \/ SendBlocks \/ SendBroken \/ SendKilled \/ SendDone
StopSteps == RemoveServer \/ DeinitFlag \/ DeinitCancel \/ DeinitJoin \/ DeinitClear

Call == \E u \in Usages : CallServerStart(u) \/ CallSendMessage(u) \/ CallServerStop(u)

HandlerSteps == ReadPipe \/ AcceptClient \/ AcceptUnknown \/ CloseClient \/ CloseFd
                  \/ CancelledInHandler
ThreadStep == \/ LoopTest \/ CancelledInWait \/ ThreadRecheck \/ ThreadLock \/ HandlerSteps
              \/ ThreadUnlock
              \/ \E fd \in watch : EpollWait(fd)

Clients == \E c \in Conns :
             \/ Disconnect(c) \/ ClientReads(c)
             \/ \E u \in Usages : Connect(c, u)

Next == Call \/ StartSteps \/ SendSteps \/ StopSteps \/ ThreadStep \/ Clients \/ Crash

Spec == Init /\ [][Next]_vars

\* Fairness: a thread of the process that can run does so in the end, inside an API call
\* as well as in the service thread. Nothing makes the application call, a client connect,
\* read or leave, or a process die.
Fairness ==
  /\ WF_vars(StartSteps \/ SendSteps \/ StopSteps)
  /\ WF_vars(ThreadStep)

FairSpec == Spec /\ Fairness

-----------------------------------------------------------------------------
(* Properties *)

Fds == Conns \cup Nat \cup {PipeFd}

LibraryType ==
  /\ inited \in BOOLEAN /\ threadRunning \in BOOLEAN
  /\ mutex \in {"app", "thread", None}
EpollType == pipe \in Nat /\ watch \subseteq Fds
TableType ==
  /\ usage \in Usages \cup {None} /\ listenFd \in Nat \cup {None}
  /\ clientFd \in [Slots -> Conns \cup {None}]
AppType ==
  /\ pc \in AppSteps /\ arg \in Usages \cup {None} /\ slot \in 1 .. ClientNum + 1
  /\ ret \in Returns
ThreadType ==
  /\ tpc \in ThreadSteps /\ event \in Fds \cup {None} /\ closing \in Conns \cup {None}
  /\ cancelled \in BOOLEAN
FileType ==
  /\ path \in [Usages -> Nat \cup {None}] /\ listening \subseteq Nat /\ nsock \in Nat
LinkType ==
  /\ link \in [Conns -> {"none", "queued", "open", "shut", "closed"}]
  /\ on \in [Conns -> Nat \cup {None}] /\ peer \in [Conns -> {"none", "up", "gone"}]
TrafficType ==
  /\ unread \in [Conns -> Nat] /\ got \in [Conns -> Seq(Nat)] /\ cut \subseteq Nat
  /\ joined \in [Conns -> Nat]
  /\ nsent \in Nat /\ starts \in Nat /\ crashes \in Nat

\* Every variable stays in its range; in particular the control pipe never holds a
\* negative number of bytes: each byte the thread reads was written by an API call.
TypeOK == /\ LibraryType /\ EpollType /\ TableType /\ AppType /\ ThreadType
          /\ FileType /\ LinkType /\ TrafficType

\* A server in the table is one that clients can reach: its socket listens, epoll
\* watches it and the domain file of its usage is bound to it (ipcAddServer,
\* ipcServerCreateSocket, ipcRemoveServer), whatever failed starts came before.
ServingIsReachable ==
  usage # None => /\ listenFd \in listening \cap watch
                  /\ path[usage] = listenFd

\* clientFd[] holds every client once, and only descriptors that are accepted, not yet
\* shut down, and watched for EPOLLRDHUP, so each of them can still be noticed leaving
\* (ipcAddConnectClient, ipcCloseClient).
SlotsSound ==
  \A i \in Slots : clientFd[i] # None =>
    /\ usage # None
    /\ link[clientFd[i]] = "open" /\ clientFd[i] \in watch
    /\ \A j \in Slots : clientFd[j] = clientFd[i] => i = j

\* No client is forgotten: the server end of every accepted connection of the running
\* server is in the table, so that it is sent to and its leaving is handled
\* (ipcAcceptClient, ipcAddConnectClient, ipcCloseClient).
NoClientForgotten ==
  \A c \in Conns : usage # None /\ link[c] = "open" /\ on[c] = listenFd =>
    \E i \in Slots : clientFd[i] = c

\* A client misses a broadcast only if the caller of ipcSendMessage was told (ipc_server.c:
\* 506-517): what a connection has been given are broadcasts that began after it was
\* accepted, in their order, none twice, and those left out ended in an error. This holds up
\* to the broadcast that is being written, which has reached the slots the loop has passed.
LastGiven(c) == IF got[c] = << >> THEN joined[c] ELSE got[c][Len(got[c])]
Before(c, k) == IF k = 1 THEN joined[c] ELSE got[c][k - 1]
Given(i) == IF Sending /\ slot <= i THEN nsent - 1 ELSE nsent
MissedOnlyIfReported ==
  /\ \A c \in Conns : \A k \in 1 .. Len(got[c]) :
       Before(c, k) < got[c][k] /\ Before(c, k) + 1 .. got[c][k] - 1 \subseteq cut
  /\ \A i \in Slots : clientFd[i] # None =>
       LET c == clientFd[i]
       IN LastGiven(c) <= Given(i) /\ LastGiven(c) + 1 .. Given(i) \subseteq cut

\* While the service thread is meant to run, g_mutex is held by a thread that is inside
\* its critical section, so that it will be released.
InCritical == tpc \in {"handle", "close", "unlock"}
LockHeldByLiveThread ==
  /\ threadRunning /\ mutex = "thread" => InCritical
  /\ InCritical => mutex = "thread"
  /\ mutex = "app" <=> Sending

\* Once ipcServerDeinit is through, no service thread is left to run on the closed epoll
\* and pipe descriptors, and nothing is left registered or served.
DeinitLeavesNothing ==
  ~inited => tpc = "none" /\ watch = {} /\ usage = None /\ ~threadRunning

\* A client loses its slot only because it is gone itself, or because the whole table is
\* given up: another client's connecting or leaving never costs it its place.
SlotLostOnlyByHangup ==
  [][\A i \in Slots : clientFd[i] \notin {None, clientFd'[i]} =>
       peer[clientFd[i]] = "gone" \/ usage' = None]_vars

\* ipcServerStop returns: the service thread it cancels and joins always comes to a
\* cancellation point, whatever it was doing.
StopReturns == pc \in {"stop_lock", "stop_deinit", "stop_cancel", "stop_join", "stop_clear"}
                 ~> pc = "idle"

\* The one thing that can hold the server up: a client that is there and does not read,
\* once its socket is full. g_mutex is held as long as it pleases the client.
HeldUpBy(c) == pc = "write" /\ clientFd[slot] = c /\ peer[c] = "up" /\ unread[c] = BufCap

\* ipcSendMessage returns, unless from some time on one client never reads again: it gets
\* the mutex, and each write finds room, fails or ends the process.
SendReturns ==
  pc = "send_lock" \/ Sending ~> (pc = "idle" \/ \E c \in Conns : []HeldUpBy(c))

\* A client that connects is accepted or turned away, unless the service thread is ended, or
\* another client holds the server up for ever.
ClientIsAnswered ==
  \A c \in Conns : link[c] = "queued" ~>
    \/ link[c] # "queued" \/ tpc \in {"none", "exited"}
    \/ \E d \in Conns : []HeldUpBy(d)

\* The server notices that a client is gone and closes its end, unless the server is
\* stopped meanwhile, or another client holds it up for ever.
LeaverIsClosed ==
  \A c \in Conns : link[c] = "open" /\ peer[c] = "gone" ~>
    \/ link[c] = "closed" \/ tpc \in {"none", "exited"} \/ usage = None
    \/ \E d \in Conns : []HeldUpBy(d)

\* A client is a subscriber while it has a slot, and is at the last broadcast written to it.
Subscribed == {clientFd[i] : i \in Slots} \ {None}
Position == [c \in Conns |-> IF c \in Subscribed THEN LastGiven(c) ELSE 0]
Broadcast == INSTANCE IpcBroadcast WITH
  Subscribers <- Conns, published <- nsent, failed <- cut, member <- Subscribed,
  last <- Position

\* The table of clients and the writes to them are a broadcast as IpcBroadcast describes
\* it (ipcAcceptClient, ipcSendMessage, ipcCloseClient): no step skips a broadcast for a
\* client in the table unless it has failed, repeats or reorders one, gives one to a client
\* that is not in the table, or puts one client in another's place.
ImplementsBroadcast == Broadcast!Spec

-----------------------------------------------------------------------------
(* The inductive invariant *)

\* Which service thread there is, told from the flags and from where the caller is.
ThreadInv ==
  /\ pc # "idle" => inited /\ arg \in Usages
  /\ ~inited => usage = None /\ watch = {} /\ ~threadRunning
  /\ threadRunning => tpc # "none"
  /\ pc = "start_flag" => ~threadRunning /\ tpc \in {"check", "exited"}
  /\ pc \in {"stop_cancel", "stop_join"} => ~threadRunning /\ tpc # "none"
  /\ pc = "stop_clear" => ~threadRunning
  /\ ~threadRunning /\ pc \notin {"start_flag", "stop_cancel", "stop_join"} => tpc = "none"
  /\ cancelled => pc = "stop_join"
  /\ pc \in {"stop_deinit", "stop_cancel", "stop_join", "stop_clear"} => usage = None

\* The mutex is free when a service thread is about to be created.
LockInv ==
  /\ LockHeldByLiveThread
  /\ pc = "start_spawn" /\ ~threadRunning => mutex = None
  /\ pc = "start_flag" => mutex = None

\* What the service thread knows of its event stays true until it acts on it.
EventInv ==
  /\ tpc \in {"recheck", "lock", "handle"} => event # None
  /\ tpc \in {"recheck", "lock", "handle"} /\ event = PipeFd => pipe > 0
  /\ tpc \in {"recheck", "lock", "handle"} /\ event \in Conns => peer[event] = "gone"
  /\ tpc = "close" => closing \in Conns /\ link[closing] = "shut"

\* Sockets are numbered in the order they are created, and a connection has a server end
\* only from connect on.
SocketInv ==
  /\ usage = None => listenFd = None
  /\ listening \subseteq 1 .. nsock
  /\ \A u \in Usages : path[u] \in 1 .. nsock \cup {None}
  /\ \A c \in Conns : on[c] \in Nat => on[c] <= nsock
  /\ \A c \in Conns : peer[c] = "none" => link[c] = "none"

\* What holds of the process even if others unlink the socket file.
ProcessInv ==
  /\ TypeOK /\ ThreadInv /\ LockInv /\ EventInv /\ SocketInv
  /\ SlotsSound /\ NoClientForgotten

IndInv == ProcessInv /\ ServingIsReachable

-----------------------------------------------------------------------------
(* What documentation and comments say, and the code does not do *)

\* ipcServerStart starts the server (README.md:116), so it returns. It does not after an
\* ipcServerStop whose pthread_cancel met the service thread inside its critical section.
StartReturns == pc \in {"start_add", "start_spawn", "start_flag", "start_wake"} ~> pc = "idle"

\* The byte ipcServerStart writes is "for wakeup epoll_wait" (ipc_server.c:471): once a
\* start has succeeded there is a thread that waits, or is about to. There is none when
\* the new thread reads g_threadRunning before ipcServerStart has set it.
StartedServerHasThread ==
  pc = "idle" /\ usage # None /\ threadRunning => tpc \notin {"none", "exited"}
=============================================================================
