--------------------------- MODULE IpcServerProofs ---------------------------
(***************************************************************************)
(* What holds of IpcServer for every set of clients, every number of slots *)
(* and every choice of failing system calls: the safety properties that    *)
(* MCServer checks on small instances.  IndInv is the inductive invariant  *)
(* of the server; Unaccepted and Sent, on top of it, are the one of what   *)
(* its clients are given.                                                  *)
(***************************************************************************)
EXTENDS IpcServer, WellFoundedInduction, TLAPS

USE DEF vars, library, table, epoll, app, thread, files, links, traffic

-----------------------------------------------------------------------------
(* The first slot of a set *)

\* The scans of g_serverInfo[].clientFd stop at a slot of the set they look for, whenever
\* there is one.
LEMMA FirstOfIsIn ==
  ASSUME NEW S \in SUBSET Slots, S # {}
  PROVE  FirstOf(S) \in S
<1>1. S \subseteq Nat /\ S # {}
  BY DEF Slots
<1>2. IsWellFoundedOn(OpToRel(<, Nat), Nat)
  BY NatLessThanWellFounded
<1> DEFINE less == OpToRel(<, Nat)
<1>3. \E m \in S : \A j \in S : <<j, m>> \notin less
  <2> IsWellFoundedOn(less, Nat)
    BY <1>2
  <2> HIDE DEF less
  <2> QED
    BY <1>1, WFMin
<1>4. PICK m \in S : \A j \in S : <<j, m>> \notin less
  BY <1>3
<1>5. \A j \in S : m <= j
  <2> SUFFICES ASSUME NEW j \in S PROVE m <= j
    OBVIOUS
  <2>1. ~(j < m)
    BY <1>1, <1>4 DEF OpToRel
  <2> QED
    BY <1>1, <2>1
<1>6. QED
  BY <1>5 DEF FirstOf

-----------------------------------------------------------------------------
(* The steps of the system, and what each kind of step leaves alone *)

SendLive == SendLock \/ SendWrite \/ SendBlocks \/ SendBroken \/ SendDone
Dies == ProcessDies /\ crashes' \in {crashes, crashes + 1}

\* A call, a step inside a call, of the service thread or of a client, or the end of the
\* process, for whatever reason.
Step == Call \/ StartSteps \/ SendLive \/ StopSteps \/ ThreadStep \/ Clients \/ Dies

\* There are no other steps in IpcServer.
LEMMA NextIsStep == Next => Step
  BY DEF Next, Step, SendSteps, SendLive, Dies, SendKilled, Crash

\* Calling an API function touches nothing the service thread or the clients own.
LEMMA CallFrame ==
  Call => UNCHANGED <<mutex, thread, files, links, traffic, crashes>>
  BY DEF Call, CallServerStart, CallSendMessage, CallServerStop

\* ipcServerStart past its call leaves the thread's event and the connections alone.
LEMMA StartFrame ==
  StartSteps => UNCHANGED <<inited, mutex, event, closing, cancelled, links, traffic,
                            starts, crashes>>
  BY DEF StartSteps, AddServer, StartThread, SetThreadRunning, WakeThread

\* ipcSendMessage leaves the table and the thread alone, unless SIGPIPE ends the process.
LEMMA SendFrame ==
  SendLive => UNCHANGED <<library, table, epoll, thread, files, links, joined, starts, crashes>>
  BY DEF SendLive, SendLock, SendWrite, SendBlocks, SendBroken, SendFails, SendDone

\* ipcServerStop and ipcServerDeinit leave what the clients have been given alone.
LEMMA StopFrame ==
  StopSteps => UNCHANGED <<mutex, event, closing, on, peer, traffic, nsock, starts, crashes>>
               \/ DeinitJoin
  BY DEF StopSteps, RemoveServer, DeinitFlag, DeinitCancel, DeinitClear

\* ipcServerThread leaves the caller, the flags and the socket files alone.
LEMMA ThreadFrame ==
  ThreadStep => UNCHANGED <<library, usage, listenFd, app, cancelled, files, on, peer, unread,
                            got, cut, nsent, starts, crashes>>
  BY DEF ThreadStep, HandlerSteps, LoopTest, CancelledInWait, ActOnCancel, ThreadRecheck,
         ThreadLock, ThreadUnlock, ReadPipe, AcceptClient, AcceptUnknown, CloseClient,
         CloseFd, CancelledInHandler, EpollWait, Stay

\* The only steps of the service thread that touch a connection.
LEMMA ThreadLinks ==
  ThreadStep => AcceptClient \/ CloseClient \/ CloseFd
                \/ UNCHANGED <<table, links, traffic, watch>>
  BY DEF ThreadStep, HandlerSteps, LoopTest, CancelledInWait, ActOnCancel, ThreadRecheck,
         ThreadLock, ThreadUnlock, ReadPipe, AcceptUnknown, CancelledInHandler, EpollWait

\* Clients change nothing in the process of the server.
LEMMA ClientsFrame ==
  Clients => UNCHANGED <<library, table, mutex, epoll, app, thread, files, got, cut, joined, nsent,
                         starts, crashes>>
  BY DEF Clients, Connect, Disconnect, ClientReads

-----------------------------------------------------------------------------
(* Type correctness *)

\* There is a first slot.
LEMMA ClientNumType == ClientNum \in Nat /\ ClientNum >= 1
  BY ServerConstants

\* A process that starts has every variable in its range.
LEMMA TypeInit == Init => TypeOK
<1> SUFFICES ASSUME Init PROVE TypeOK
  OBVIOUS
<1> USE DEF Init, LibraryInit
<1>1. LibraryType /\ EpollType /\ TableType
  BY DEF LibraryType, EpollType, TableType
<1>2. AppType
  BY ClientNumType DEF AppType, AppSteps, Returns
<1>3. ThreadType
  BY DEF ThreadType, ThreadSteps
<1>4. FileType /\ LinkType /\ TrafficType
  BY DEF FileType, LinkType, TrafficType
<1>5. QED
  BY <1>1, <1>2, <1>3, <1>4 DEF TypeOK

\* Every step keeps the flags and the mutex in their ranges.
LEMMA LibraryTypeStep ==
  ASSUME TypeOK, [Step]_vars PROVE LibraryType'
<1> USE DEF TypeOK, LibraryType
<1>1. CASE UNCHANGED vars
  BY <1>1
<1>2. CASE Call
  BY <1>2 DEF Call, CallServerStart, CallSendMessage, CallServerStop
<1>3. CASE StartSteps
  BY <1>3 DEF StartSteps, AddServer, StartThread, SetThreadRunning, WakeThread
<1>4. CASE SendLive
  BY <1>4 DEF SendLive, SendLock, SendWrite, SendBlocks, SendBroken, SendDone, EndSend
<1>5. CASE StopSteps
  BY <1>5 DEF StopSteps, RemoveServer, DeinitFlag, DeinitCancel, DeinitJoin, DeinitClear
<1>6. CASE ThreadStep
  BY <1>6 DEF ThreadStep, HandlerSteps, LoopTest, CancelledInWait, ActOnCancel,
       ThreadRecheck, ThreadLock, ThreadUnlock, ReadPipe, AcceptClient, AcceptUnknown,
       CloseClient, CloseFd, CancelledInHandler, EpollWait
<1>7. CASE Clients
  BY <1>7, ClientsFrame
<1>8. CASE Dies
  BY <1>8 DEF Dies, ProcessDies
<1>9. QED
  BY <1>1, <1>2, <1>3, <1>4, <1>5, <1>6, <1>7, <1>8 DEF Step

\* Every step keeps the control pipe from holding less than nothing: a byte is read only
\* for an event that says there is one (ipcServerThread).
LEMMA EpollTypeStep ==
  ASSUME TypeOK, EventInv, [Step]_vars PROVE EpollType'
<1> USE DEF TypeOK, EpollType
<1>1. CASE UNCHANGED vars
  BY <1>1
<1>2. CASE Call
  <2>1. UNCHANGED epoll \/ (pipe' = 0 /\ watch' = {PipeFd})
    BY <1>2 DEF Call, CallServerStart, CallSendMessage, CallServerStop
  <2>2. QED
    BY <2>1 DEF Fds
<1>3. CASE StartSteps
  <2>1. CASE AddServer
    <3>1. CASE AddServerSucceeds /\ UNCHANGED pipe
      BY <3>1 DEF AddServerSucceeds, FileType, Fds
    <3>2. CASE UNCHANGED epoll
      BY <3>2
    <3>3. QED
      BY <2>1, <3>1, <3>2 DEF AddServer
  <2>2. CASE ~AddServer
    BY <1>3, <2>2 DEF StartSteps, StartThread, SetThreadRunning, WakeThread
  <2>3. QED
    BY <2>1, <2>2
<1>4. CASE SendLive
  BY <1>4, SendFrame
<1>5. CASE StopSteps
  <2>1. pipe' \in {0, pipe, pipe + 1} /\ watch' \subseteq watch
    BY <1>5 DEF StopSteps, RemoveServer, DeinitFlag, DeinitCancel, DeinitJoin, DeinitClear
  <2>2. QED
    BY <2>1
<1>6. CASE ThreadStep
  <2>1. CASE ReadPipe
    BY <2>1 DEF ReadPipe, ReadByte, EventInv
  <2>2. CASE AcceptClient
    <3>1. pipe' = pipe /\ watch' \subseteq watch \cup Conns
      BY <2>2 DEF AcceptClient, Waiting
    <3>2. QED
      BY <3>1 DEF Fds
  <2>3. CASE ~ReadPipe /\ ~AcceptClient
    BY <1>6, <2>3 DEF ThreadStep, HandlerSteps, LoopTest, CancelledInWait, ActOnCancel,
         ThreadRecheck, ThreadLock, ThreadUnlock, AcceptUnknown, CloseClient, CloseFd,
         CancelledInHandler, EpollWait
  <2>4. QED
    BY <2>1, <2>2, <2>3
<1>7. CASE Clients
  BY <1>7, ClientsFrame
<1>8. CASE Dies
  BY <1>8 DEF Dies, ProcessDies
<1>9. QED
  BY <1>1, <1>2, <1>3, <1>4, <1>5, <1>6, <1>7, <1>8 DEF Step

\* Every step keeps g_serverInfo in its range.
LEMMA TableTypeStep ==
  ASSUME TypeOK, [Step]_vars PROVE TableType'
<1> USE DEF TypeOK, TableType
<1>1. CASE UNCHANGED vars
  BY <1>1
<1>2. CASE Call
  BY <1>2 DEF Call, CallServerStart, CallSendMessage, CallServerStop, ServerInfoClear
<1>3. CASE StartSteps
  <2>1. CASE AddServer /\ AddServerSucceeds
    BY <2>1 DEF AddServerSucceeds, AppType, FileType
  <2>2. CASE AddServer /\ AddServerFails
    BY <2>2 DEF AddServerFails, ReleaseEntry, ServerInfoClear
  <2>3. CASE ~AddServer
    BY <1>3, <2>3 DEF StartSteps, StartThread, SetThreadRunning, WakeThread
  <2>4. QED
    BY <2>1, <2>2, <2>3 DEF AddServer
<1>4. CASE SendLive
  BY <1>4, SendFrame
<1>5. CASE StopSteps
  BY <1>5 DEF StopSteps, RemoveServer, DeinitFlag, DeinitCancel, DeinitJoin, DeinitClear,
              ServerInfoClear
<1>6. CASE ThreadStep
  <2>1. usage' = usage /\ listenFd' = listenFd
    BY <1>6, ThreadFrame
  <2>2. clientFd' \in [Slots -> Conns \cup {None}]
    BY <1>6 DEF ThreadStep, HandlerSteps, LoopTest, CancelledInWait, ActOnCancel,
         ThreadRecheck, ThreadLock, ThreadUnlock, ReadPipe, AcceptClient, AcceptUnknown,
         CloseClient, CloseFd, CancelledInHandler, EpollWait, Waiting, ReleaseSlot
  <2>3. QED
    BY <2>1, <2>2
<1>7. CASE Clients
  BY <1>7, ClientsFrame
<1>8. CASE Dies
  BY <1>8 DEF Dies, ProcessDies, ServerInfoClear
<1>9. QED
  BY <1>1, <1>2, <1>3, <1>4, <1>5, <1>6, <1>7, <1>8 DEF Step

\* Every step keeps the caller in its range, the loop of ipcSendMessage included.
LEMMA AppTypeStep ==
  ASSUME TypeOK, [Step]_vars PROVE AppType'
<1> USE ClientNumType DEF TypeOK, AppType, AppSteps, Returns, Slots
<1>1. CASE UNCHANGED vars
  BY <1>1
<1>2. CASE Call
  BY <1>2 DEF Call, CallServerStart, CallSendMessage, CallServerStop, Return
<1>3. CASE StartSteps
  BY <1>3 DEF StartSteps, AddServer, StartThread, SetThreadRunning, WakeThread, Return, Goto
<1>4. CASE SendLive
  BY <1>4 DEF SendLive, SendLock, SendWrite, SendBlocks, SendBroken, SendFails, SendDone,
              LoopSlots, Return, Goto
<1>5. CASE StopSteps
  BY <1>5 DEF StopSteps, RemoveServer, DeinitFlag, DeinitCancel, DeinitJoin, DeinitClear,
              Return, Goto
<1>6. CASE ThreadStep
  BY <1>6, ThreadFrame
<1>7. CASE Clients
  BY <1>7, ClientsFrame
<1>8. CASE Dies
  BY <1>8 DEF Dies, ProcessDies, Return
<1>9. QED
  BY <1>1, <1>2, <1>3, <1>4, <1>5, <1>6, <1>7, <1>8 DEF Step

\* Every step keeps ipcServerThread in its range.
LEMMA ThreadTypeStep ==
  ASSUME TypeOK, [Step]_vars PROVE ThreadType'
<1> USE DEF TypeOK, ThreadType, ThreadSteps
<1>1. CASE UNCHANGED vars
  BY <1>1
<1>2. CASE Call
  BY <1>2, CallFrame
<1>3. CASE StartSteps
  BY <1>3 DEF StartSteps, AddServer, StartThread, SetThreadRunning, WakeThread
<1>4. CASE SendLive
  BY <1>4, SendFrame
<1>5. CASE StopSteps
  BY <1>5 DEF StopSteps, RemoveServer, DeinitFlag, DeinitCancel, DeinitJoin, DeinitClear
<1>6. CASE ThreadStep
  BY <1>6 DEF ThreadStep, HandlerSteps, LoopTest, CancelledInWait, ActOnCancel,
       ThreadRecheck, ThreadLock, ThreadUnlock, ReadPipe, AcceptClient, AcceptUnknown,
       CloseClient, CloseFd, CancelledInHandler, EpollWait, Stay, EpollType, Waiting
<1>7. CASE Clients
  BY <1>7, ClientsFrame
<1>8. CASE Dies
  BY <1>8 DEF Dies, ProcessDies
<1>9. QED
  BY <1>1, <1>2, <1>3, <1>4, <1>5, <1>6, <1>7, <1>8 DEF Step

\* Every step keeps the sockets and the domain files in their ranges.
LEMMA FileTypeStep ==
  ASSUME TypeOK, [Step]_vars PROVE FileType'
<1> USE DEF TypeOK, FileType
<1>1. CASE UNCHANGED vars
  BY <1>1
<1>2. CASE Call
  BY <1>2, CallFrame
<1>3. CASE StartSteps
  <2>1. CASE AddServerSucceeds
    <3>1. nsock' \in Nat /\ listening' \subseteq Nat
      BY <2>1 DEF AddServerSucceeds
    <3>2. path' = [path EXCEPT ![arg] = nsock']
      BY <2>1 DEF AddServerSucceeds
    <3>3. QED
      BY <3>1, <3>2
  <2>2. CASE AddServerFails /\ UNCHANGED <<listening, nsock>>
    <3>1. UNCHANGED path \/ path' = [path EXCEPT ![arg] = None]
      BY <2>2 DEF AddServerFails
    <3>2. QED
      BY <2>2, <3>1
  <2>3. CASE ~AddServer
    BY <1>3, <2>3 DEF StartSteps, StartThread, SetThreadRunning, WakeThread
  <2>4. QED
    BY <2>1, <2>2, <2>3 DEF AddServer
<1>4. CASE SendLive
  BY <1>4, SendFrame
<1>5. CASE StopSteps
  BY <1>5 DEF StopSteps, RemoveServer, DeinitFlag, DeinitCancel, DeinitJoin, DeinitClear
<1>6. CASE ThreadStep
  BY <1>6, ThreadFrame
<1>7. CASE Clients
  BY <1>7, ClientsFrame
<1>8. CASE Dies
  BY <1>8 DEF Dies, ProcessDies
<1>9. QED
  BY <1>1, <1>2, <1>3, <1>4, <1>5, <1>6, <1>7, <1>8 DEF Step

\* Every step keeps the connections in their ranges.
LEMMA LinkTypeStep ==
  ASSUME TypeOK, [Step]_vars PROVE LinkType'
<1> USE DEF TypeOK, LinkType
<1>1. CASE UNCHANGED vars
  BY <1>1
<1>2. CASE Call
  BY <1>2, CallFrame
<1>3. CASE StartSteps
  BY <1>3, StartFrame
<1>4. CASE SendLive
  BY <1>4, SendFrame
<1>5. CASE StopSteps
  BY <1>5 DEF StopSteps, RemoveServer, Drop, DeinitFlag, DeinitCancel, DeinitJoin, DeinitClear
<1>6. CASE ThreadStep
  BY <1>6 DEF ThreadStep, HandlerSteps, LoopTest, CancelledInWait, ActOnCancel,
       ThreadRecheck, ThreadLock, ThreadUnlock, ReadPipe, AcceptClient, AcceptUnknown,
       CloseClient, CloseFd, CancelledInHandler, EpollWait
<1>7. CASE Clients
  BY <1>7 DEF Clients, Connect, Disconnect, ClientReads, FileType
<1>8. CASE Dies
  BY <1>8 DEF Dies, ProcessDies
<1>9. QED
  BY <1>1, <1>2, <1>3, <1>4, <1>5, <1>6, <1>7, <1>8 DEF Step

\* Every step keeps the messages and the counters in their ranges.
LEMMA TrafficTypeStep ==
  ASSUME TypeOK, [Step]_vars PROVE TrafficType'
<1> USE DEF TypeOK, TrafficType
<1>1. CASE UNCHANGED traffic /\ starts' \in Nat /\ crashes' \in Nat
  <2>1. UNCHANGED <<unread, got, cut, joined, nsent>> /\ starts' \in Nat /\ crashes' \in Nat
    BY <1>1
  <2>2. QED
    BY <2>1
<1>2. CASE Call
  BY <1>1, <1>2 DEF Call, CallServerStart, CallSendMessage, CallServerStop
<1>3. CASE StartSteps
  BY <1>1, <1>3, StartFrame
<1>4. CASE SendLive
  <2>1. CASE SendWrite
    <3>1. CASE UNCHANGED traffic
      BY <1>1, <1>4, <3>1, SendFrame
    <3>2. ASSUME NEW c \in Conns, got' = [got EXCEPT ![c] = Append(@, nsent)],
                 unread' = [unread EXCEPT ![c] = @ + 1], UNCHANGED <<cut, joined, nsent>>
          PROVE  TrafficType'
      <4>1. got' \in [Conns -> Seq(Nat)]
        BY <3>2
      <4>2. unread' \in [Conns -> Nat]
        BY <3>2
      <4>3. QED
        BY <1>4, <3>2, <4>1, <4>2, SendFrame
    <3>3. QED
      BY <2>1, <3>1, <3>2 DEF SendWrite
  <2>2. CASE ~SendWrite
    <3>1. UNCHANGED <<unread, got, joined>> /\ nsent' \in {nsent, nsent + 1}
            /\ cut' \in {cut, cut \cup {nsent}}
      BY <1>4, <2>2 DEF SendLive, SendLock, SendBlocks, SendBroken, SendFails, SendDone
    <3>2. nsent' \in Nat /\ cut' \subseteq Nat
      BY <3>1
    <3>3. QED
      BY <1>4, <3>1, <3>2, SendFrame
  <2>3. QED
    BY <2>1, <2>2
<1>5. CASE StopSteps
  BY <1>1, <1>5, StopFrame DEF DeinitJoin
<1>6. CASE ThreadStep
  <2>1. joined' \in [Conns -> Nat]
    BY <1>6, ThreadLinks DEF AcceptClient, CloseClient, CloseFd
  <2>2. QED
    BY <1>6, <2>1, ThreadFrame
<1>7. CASE Clients
  <2>1. unread' \in [Conns -> Nat]
    BY <1>7 DEF Clients, Connect, Disconnect, ClientReads
  <2>2. QED
    BY <1>7, <2>1, ClientsFrame
<1>8. CASE Dies
  BY <1>1, <1>8 DEF Dies, ProcessDies
<1>9. CASE UNCHANGED vars
  BY <1>1, <1>9
<1>10. QED
  BY <1>2, <1>3, <1>4, <1>5, <1>6, <1>7, <1>8, <1>9 DEF Step

\* Every step preserves the type invariant.
LEMMA TypeStep ==
  ASSUME TypeOK, EventInv, [Step]_vars PROVE TypeOK'
  BY LibraryTypeStep, EpollTypeStep, TableTypeStep, AppTypeStep, ThreadTypeStep, FileTypeStep,
     LinkTypeStep, TrafficTypeStep DEF TypeOK
-----------------------------------------------------------------------------
(* The service thread and the mutex *)

\* Every step keeps g_threadRunning in agreement with the thread there is
\* (ipcServerStart, ipcServerDeinit).
LEMMA ThreadInvStep ==
  ASSUME TypeOK, ThreadInv, SocketInv, [Step]_vars PROVE ThreadInv'
<1> USE DEF ThreadInv
<1>1. CASE UNCHANGED vars
  BY <1>1
<1>2. CASE Call
  BY <1>2 DEF Call, CallServerStart, CallSendMessage, CallServerStop, ServerInfoClear, Return
<1>3. CASE StartSteps
  BY <1>3 DEF StartSteps, AddServer, StartThread, SetThreadRunning, WakeThread, Return, Goto
<1>4. CASE SendLive
  BY <1>4 DEF SendLive, SendLock, SendWrite, SendBlocks, SendBroken, SendFails, SendDone,
              Sending, Return, Goto
<1>5. CASE StopSteps
  BY <1>5 DEF StopSteps, RemoveServer, DeinitFlag, DeinitCancel, DeinitJoin, DeinitClear,
              ServerInfoClear, Return, Goto
<1>6. CASE ThreadStep
  <2>1. UNCHANGED <<library, usage, pc, arg, cancelled>>
    BY <1>6, ThreadFrame
  <2>2. tpc # "none" /\ tpc' # "none" /\ (tpc = "check" => tpc' = "exited" \/ threadRunning)
          /\ tpc # "exited"
    BY <1>6 DEF ThreadStep, HandlerSteps, LoopTest, CancelledInWait, ActOnCancel,
         ThreadRecheck, ThreadLock, ThreadUnlock, ReadPipe, AcceptClient, AcceptUnknown,
         CloseClient, CloseFd, CancelledInHandler, EpollWait, Stay
  <2>3. ~inited => watch' = watch
    BY <2>2
  <2>4. QED
    BY <2>1, <2>2, <2>3
<1>7. CASE Clients
  BY <1>7, ClientsFrame
<1>8. CASE Dies
  BY <1>8 DEF Dies, ProcessDies, ServerInfoClear, Return
<1>9. QED
  BY <1>1, <1>2, <1>3, <1>4, <1>5, <1>6, <1>7, <1>8 DEF Step

\* Every step keeps the mutex with a thread inside its critical section, and a new service
\* thread finds it free.
LEMMA LockInvStep ==
  ASSUME TypeOK, ThreadInv, LockInv, [Step]_vars PROVE LockInv'
<1> USE DescriptorsDiffer DEF LockInv, LockHeldByLiveThread, InCritical, Sending
<1>1. CASE UNCHANGED vars
  BY <1>1
<1>2. CASE Call
  BY <1>2 DEF Call, CallServerStart, CallSendMessage, CallServerStop, Return, ThreadInv
<1>3. CASE StartSteps
  BY <1>3 DEF StartSteps, AddServer, StartThread, SetThreadRunning, WakeThread, Return, Goto,
              ThreadInv
<1>4. CASE SendLive
  BY <1>4 DEF SendLive, SendLock, SendWrite, SendBlocks, SendBroken, SendFails, SendDone,
              Return, Goto, EndSend
<1>5. CASE StopSteps
  BY <1>5 DEF StopSteps, RemoveServer, DeinitFlag, DeinitCancel, DeinitJoin, DeinitClear,
              Return, Goto, ThreadInv
<1>6. CASE ThreadStep
  BY <1>6 DEF ThreadInv, ThreadStep, HandlerSteps, LoopTest, CancelledInWait, ActOnCancel,
         ThreadRecheck, ThreadLock, ThreadUnlock, ReadPipe, AcceptClient, AcceptUnknown,
         CloseClient, CloseFd, CancelledInHandler, EpollWait, Stay
<1>7. CASE Clients
  BY <1>7, ClientsFrame
<1>8. CASE Dies
  BY <1>8 DEF Dies, ProcessDies, Return
<1>9. QED
  BY <1>1, <1>2, <1>3, <1>4, <1>5, <1>6, <1>7, <1>8 DEF Step

\* What epoll_wait reported stays true until ipcServerThread acts on it: bytes are not
\* read, and a client that left does not come back, behind its back.
LEMMA EventInvStep ==
  ASSUME TypeOK, ThreadInv, EventInv, SocketInv, [Step]_vars PROVE EventInv'
<1> USE DescriptorsDiffer DEF EventInv
<1>1. CASE UNCHANGED vars
  BY <1>1
<1>2. CASE Call
  BY <1>2 DEF Call, CallServerStart, CallSendMessage, CallServerStop, Return, ThreadInv
<1>3. CASE StartSteps
  BY <1>3 DEF StartSteps, AddServer, AddServerSucceeds, StartThread, SetThreadRunning,
              WakeThread, TypeOK, EpollType, ThreadInv
<1>4. CASE SendLive
  BY <1>4, SendFrame
<1>5. CASE StopSteps
  BY <1>5 DEF StopSteps, RemoveServer, Drop, DeinitFlag, DeinitCancel, DeinitJoin,
              DeinitClear, ThreadInv, TypeOK, EpollType, LinkType
<1>6. CASE ThreadStep
  BY <1>6 DEF ThreadStep, HandlerSteps, LoopTest, CancelledInWait, ActOnCancel,
         ThreadRecheck, ThreadLock, ThreadUnlock, ReadPipe, AcceptClient, AcceptUnknown,
         CloseClient, CloseFd, CancelledInHandler, EpollWait, Stay, Ready, Waiting, TypeOK,
         LinkType, EpollType, Fds
<1>7. CASE Clients
  BY <1>7 DEF Clients, Connect, Disconnect, ClientReads, SocketInv, TypeOK, LinkType
<1>8. CASE Dies
  BY <1>8 DEF Dies, ProcessDies
<1>9. QED
  BY <1>1, <1>2, <1>3, <1>4, <1>5, <1>6, <1>7, <1>8 DEF Step

-----------------------------------------------------------------------------
(* The sockets, the files and the table *)

\* Every step keeps new listening sockets apart from all earlier ones.
LEMMA SocketInvStep ==
  ASSUME TypeOK, ThreadInv, EventInv, SocketInv, [Step]_vars PROVE SocketInv'
<1> USE DescriptorsDiffer DEF SocketInv, TypeOK, FileType, LinkType
<1>1. CASE UNCHANGED vars
  BY <1>1
<1>2. CASE Call
  BY <1>2 DEF Call, CallServerStart, CallSendMessage, CallServerStop, ServerInfoClear
<1>3. CASE StartSteps
  <2>1. CASE AddServerSucceeds /\ pc = "start_add" /\ UNCHANGED links
    <3>1. nsock' = nsock + 1 /\ usage' # None
      BY <2>1 DEF AddServerSucceeds, ThreadInv
    <3>2. (listening \subseteq 1 .. nsock)'
      BY <2>1, <3>1 DEF AddServerSucceeds
    <3>3. (\A u \in Usages : path[u] \in 1 .. nsock \cup {None})'
      BY <2>1, <3>1 DEF AddServerSucceeds
    <3>4. (\A c \in Conns : on[c] \in Nat => on[c] <= nsock)'
      BY <2>1, <3>1
    <3>5. QED
      BY <2>1, <3>1, <3>2, <3>3, <3>4
  <2>2. CASE AddServerFails /\ UNCHANGED <<listening, nsock, links>>
    BY <2>2 DEF AddServerFails, ReleaseEntry, ServerInfoClear
  <2>3. CASE ~AddServer
    BY <1>3, <2>3 DEF StartSteps, StartThread, SetThreadRunning, WakeThread
  <2>4. QED
    BY <2>1, <2>2, <2>3 DEF AddServer
<1>4. CASE SendLive
  BY <1>4, SendFrame
<1>5. CASE StopSteps
  BY <1>5 DEF StopSteps, RemoveServer, Drop, DeinitFlag, DeinitCancel, DeinitJoin,
              DeinitClear, ServerInfoClear
<1>6. CASE ThreadStep
  <2>1. UNCHANGED <<usage, listenFd, files, on, peer>>
    BY <1>6, ThreadFrame
  <2>2. \A c \in Conns : link'[c] = link[c] \/ peer[c] # "none"
    <3>1. CASE AcceptClient
      BY <3>1 DEF AcceptClient, Waiting
    <3>2. CASE CloseClient
      BY <3>2 DEF CloseClient, EventInv
    <3>3. CASE CloseFd
      BY <3>3 DEF CloseFd, EventInv
    <3>4. QED
      BY <1>6, <3>1, <3>2, <3>3, ThreadLinks
  <2>3. QED
    BY <2>1, <2>2
<1>7. CASE Clients
  <2>1. UNCHANGED <<table, files>>
    BY <1>7, ClientsFrame
  <2>2. CASE \E c \in Conns, u \in Usages : Connect(c, u)
    BY <2>1, <2>2 DEF Connect
  <2>3. CASE \E c \in Conns : Disconnect(c) \/ ClientReads(c)
    BY <2>1, <2>3 DEF Disconnect, ClientReads
  <2>4. QED
    BY <1>7, <2>2, <2>3 DEF Clients
<1>8. CASE Dies
  BY <1>8 DEF Dies, ProcessDies, ServerInfoClear
<1>9. QED
  BY <1>1, <1>2, <1>3, <1>4, <1>5, <1>6, <1>7, <1>8 DEF Step

\* Every step keeps the server in the table reachable: ipcAddServer enters it with its file
\* bound, and only what also empties the entry unlinks the file.
LEMMA ServingStep ==
  ASSUME TypeOK, ThreadInv, EventInv, SocketInv, ServingIsReachable, [Step]_vars
  PROVE  ServingIsReachable'
<1> USE DescriptorsDiffer DEF ServingIsReachable, TypeOK, TableType, FileType
<1>1. CASE UNCHANGED vars
  BY <1>1
<1>2. CASE Call
  BY <1>2 DEF Call, CallServerStart, CallSendMessage, CallServerStop, ServerInfoClear
<1>3. CASE StartSteps
  <2>1. CASE AddServerSucceeds /\ pc = "start_add"
    BY <2>1 DEF AddServerSucceeds, ThreadInv
  <2>2. CASE AddServerFails /\ UNCHANGED <<listening, nsock, epoll>>
    BY <2>2 DEF AddServerFails, ReleaseEntry, ServerInfoClear
  <2>3. CASE ~AddServer
    BY <1>3, <2>3 DEF StartSteps, StartThread, SetThreadRunning, WakeThread
  <2>4. QED
    BY <2>1, <2>2, <2>3 DEF AddServer
<1>4. CASE SendLive
  BY <1>4, SendFrame
<1>5. CASE StopSteps
  BY <1>5 DEF StopSteps, RemoveServer, DeinitFlag, DeinitCancel, DeinitJoin,
              DeinitClear, ServerInfoClear
<1>6. CASE ThreadStep
  <2>1. UNCHANGED <<usage, listenFd, files>>
    BY <1>6, ThreadFrame
  <2>2. watch \ Conns \subseteq watch'
    BY <1>6, ThreadLinks DEF AcceptClient, CloseClient, CloseFd, EventInv
  <2>3. QED
    BY <2>1, <2>2
<1>7. CASE Clients
  BY <1>7, ClientsFrame
<1>8. CASE Dies
  BY <1>8 DEF Dies, ProcessDies, ServerInfoClear
<1>9. QED
  BY <1>1, <1>2, <1>3, <1>4, <1>5, <1>6, <1>7, <1>8 DEF Step

\* Every step keeps the slots distinct, accepted and watched (ipcAddConnectClient,
\* ipcCloseClient).
LEMMA SlotsStep ==
  ASSUME TypeOK, ThreadInv, EventInv, SocketInv, SlotsSound, [Step]_vars
  PROVE  SlotsSound'
<1> USE DescriptorsDiffer DEF SlotsSound, TypeOK, TableType, LinkType
<1>1. CASE UNCHANGED vars
  BY <1>1
<1>2. CASE Call
  BY <1>2 DEF Call, CallServerStart, CallSendMessage, CallServerStop, ServerInfoClear, ThreadInv
<1>3. CASE StartSteps
  <2>1. CASE AddServerSucceeds /\ pc = "start_add" /\ UNCHANGED links
    BY <2>1 DEF AddServerSucceeds, ThreadInv
  <2>2. CASE AddServerFails /\ UNCHANGED <<epoll, links>>
    BY <2>2 DEF AddServerFails, ReleaseEntry, ServerInfoClear
  <2>3. CASE ~AddServer
    BY <1>3, <2>3 DEF StartSteps, StartThread, SetThreadRunning, WakeThread
  <2>4. QED
    BY <2>1, <2>2, <2>3 DEF AddServer
<1>4. CASE SendLive
  BY <1>4, SendFrame
<1>5. CASE StopSteps
  <2>1. CASE RemoveServer /\ usage # arg
    BY <2>1 DEF RemoveServer
  <2>2. CASE clientFd' = [i \in Slots |-> None]
    BY <2>2
  <2>3. CASE ~RemoveServer /\ ~DeinitClear
    BY <1>5, <2>3 DEF StopSteps, DeinitFlag, DeinitCancel, DeinitJoin
  <2>4. QED
    BY <2>1, <2>2, <2>3 DEF RemoveServer, DeinitClear, ServerInfoClear
<1>6. CASE ThreadStep
  <2>1. CASE AcceptClient
    <3>1. CASE UNCHANGED <<table, links, watch>>
      BY <3>1
    <3>2. ASSUME NEW c \in Conns, link[c] = "queued", UNCHANGED <<table, watch>>,
                 link' = [link EXCEPT ![c] = "shut"]
          PROVE  SlotsSound'
      BY <3>2
    <3>3. ASSUME NEW c \in Conns, link[c] = "queued", FreeSlots # {}, usage # None, usage' = usage,
                 clientFd' = [clientFd EXCEPT ![FirstOf(FreeSlots)] = c],
                 link' = [link EXCEPT ![c] = "open"], watch' = watch \cup {c}
          PROVE  SlotsSound'
      <4> DEFINE k == FirstOf(FreeSlots)
      <4>1. k \in Slots /\ clientFd[k] = None
        BY <3>3, FirstOfIsIn DEF FreeSlots
      <4>2. clientFd' = [clientFd EXCEPT ![k] = c]
        BY <3>3
      <4> HIDE DEF k
      <4>3. QED
        BY <3>3, <4>1, <4>2
    <3>4. usage # None
      BY <2>1 DEF AcceptClient, SocketInv
    <3>5. QED
      BY <2>1, <3>1, <3>2, <3>3, <3>4 DEF AcceptClient, Waiting
  <2>2. CASE CloseClient
    <3>1. CASE UNCHANGED <<table, links, watch>>
      BY <3>1
    <3>2. CASE event \in Conns /\ usage # None /\ SlotsOf(event) # {}
      <4> DEFINE k == FirstOf(SlotsOf(event))
      <4>1. k \in Slots /\ clientFd[k] = event
        BY <3>2, FirstOfIsIn DEF SlotsOf
      <4> HIDE DEF k
      <4>2. clientFd' = [clientFd EXCEPT ![k] = None] /\ link' = [link EXCEPT ![event] = "shut"]
            /\ UNCHANGED <<usage, watch>>
        BY <2>2, <3>2 DEF CloseClient, ReleaseSlot, k
      <4>3. QED
        BY <3>2, <4>1, <4>2
    <3>3. QED
      BY <2>2, <3>1, <3>2 DEF CloseClient
  <2>3. CASE CloseFd
    BY <2>3 DEF CloseFd, EventInv
  <2>4. QED
    BY <1>6, <2>1, <2>2, <2>3, ThreadLinks, ThreadFrame
<1>7. CASE Clients
  BY <1>7 DEF Clients, Connect, Disconnect, ClientReads, SocketInv
<1>8. CASE Dies
  BY <1>8 DEF Dies, ProcessDies, ServerInfoClear
<1>9. QED
  BY <1>1, <1>2, <1>3, <1>4, <1>5, <1>6, <1>7, <1>8 DEF Step

\* Every step keeps the accepted connections of the running server in the table
\* (ipcAcceptClient, ipcCloseClient).
LEMMA NoClientForgottenStep ==
  ASSUME TypeOK, ThreadInv, EventInv, SocketInv, SlotsSound, NoClientForgotten, [Step]_vars
  PROVE  NoClientForgotten'
<1> USE DescriptorsDiffer DEF NoClientForgotten, TypeOK, TableType, LinkType
<1>1. CASE UNCHANGED vars
  BY <1>1
<1>2. CASE Call
  BY <1>2 DEF Call, CallServerStart, CallSendMessage, CallServerStop, ServerInfoClear
<1>3. CASE StartSteps
  <2>1. CASE AddServerSucceeds /\ UNCHANGED links
    <3>1. \A c \in Conns : on[c] # listenFd'
      BY <2>1 DEF AddServerSucceeds, SocketInv, FileType
    <3>2. QED
      BY <2>1, <3>1
  <2>2. CASE AddServerFails /\ UNCHANGED links
    BY <2>2 DEF AddServerFails, ReleaseEntry, ServerInfoClear
  <2>3. CASE ~AddServer
    BY <1>3, <2>3 DEF StartSteps, StartThread, SetThreadRunning, WakeThread
  <2>4. QED
    BY <2>1, <2>2, <2>3 DEF AddServer
<1>4. CASE SendLive
  BY <1>4, SendFrame
<1>5. CASE StopSteps
  <2>1. CASE RemoveServer /\ usage # arg
    BY <2>1 DEF RemoveServer
  <2>2. CASE usage' = None
    BY <2>2
  <2>3. CASE ~RemoveServer /\ ~DeinitClear
    BY <1>5, <2>3 DEF StopSteps, DeinitFlag, DeinitCancel, DeinitJoin
  <2>4. QED
    BY <2>1, <2>2, <2>3 DEF RemoveServer, DeinitClear, ServerInfoClear
<1>6. CASE ThreadStep
  <2> USE ThreadFrame
  <2>1. CASE AcceptClient
    <3>1. CASE UNCHANGED <<table, links>>
      BY <3>1
    <3>2. ASSUME NEW c \in Conns, link[c] = "queued", UNCHANGED <<table, on>>,
                 link' = [link EXCEPT ![c] = "shut"]
          PROVE  NoClientForgotten'
      BY <3>2
    <3>3. ASSUME NEW c \in Conns, FreeSlots # {}, UNCHANGED <<usage, listenFd, on>>,
                 clientFd' = [clientFd EXCEPT ![FirstOf(FreeSlots)] = c],
                 link' = [link EXCEPT ![c] = "open"]
          PROVE  NoClientForgotten'
      <4> DEFINE k == FirstOf(FreeSlots)
      <4>1. k \in Slots /\ clientFd[k] = None
        BY <3>3, FirstOfIsIn DEF FreeSlots
      <4>2. clientFd' = [clientFd EXCEPT ![k] = c]
        BY <3>3
      <4> HIDE DEF k
      <4>3. QED
        BY <3>3, <4>1, <4>2
    <3>4. QED
      BY <2>1, <3>1, <3>2, <3>3 DEF AcceptClient, Waiting
  <2>2. CASE CloseClient
    <3>1. CASE UNCHANGED <<table, links>>
      BY <3>1
    <3>2. CASE event \in Conns /\ usage # None /\ SlotsOf(event) # {}
      <4> DEFINE k == FirstOf(SlotsOf(event))
      <4>1. k \in Slots /\ clientFd[k] = event
        BY <3>2, FirstOfIsIn DEF SlotsOf
      <4>2. clientFd' = [clientFd EXCEPT ![k] = None] /\ link' = [link EXCEPT ![event] = "shut"]
            /\ UNCHANGED <<usage, listenFd, on>>
        BY <2>2, <3>2 DEF CloseClient, ReleaseSlot
      <4> HIDE DEF k
      <4>3. QED
        BY <3>2, <4>1, <4>2
    <3>3. QED
      BY <2>2, <3>1, <3>2 DEF CloseClient
  <2>3. CASE CloseFd
    BY <2>3 DEF CloseFd, EventInv
  <2>4. QED
    BY <1>6, <2>1, <2>2, <2>3, ThreadLinks
<1>7. CASE Clients
  BY <1>7 DEF Clients, Connect, Disconnect, ClientReads, SocketInv
<1>8. CASE Dies
  BY <1>8 DEF Dies, ProcessDies, ServerInfoClear
<1>9. QED
  BY <1>1, <1>2, <1>3, <1>4, <1>5, <1>6, <1>7, <1>8 DEF Step

-----------------------------------------------------------------------------
(* The inductive invariant, and what follows from it *)

\* The inductive invariant holds in a process that starts.
LEMMA IndInvInit == Init => IndInv
<1> SUFFICES ASSUME Init PROVE IndInv
  OBVIOUS
<1>1. TypeOK
  BY TypeInit
<1> USE DescriptorsDiffer DEF Init, LibraryInit
<1>2. ThreadInv /\ LockInv /\ EventInv
  BY DEF ThreadInv, LockInv, LockHeldByLiveThread, InCritical, Sending, EventInv
<1>3. SocketInv
  BY DEF SocketInv
<1>4. ServingIsReachable /\ SlotsSound /\ NoClientForgotten
  BY DEF ServingIsReachable, SlotsSound, NoClientForgotten
<1>5. QED
  BY <1>1, <1>2, <1>3, <1>4 DEF IndInv, ProcessInv

\* Every step, and every end of the process, preserves what holds of the process.
LEMMA ProcessInvStep == ProcessInv /\ [Step]_vars => ProcessInv'
  BY TypeStep, ThreadInvStep, LockInvStep, EventInvStep, SocketInvStep, SlotsStep,
     NoClientForgottenStep DEF ProcessInv

\* Every step preserves the inductive invariant.
LEMMA IndInvStep == IndInv /\ [Next]_vars => IndInv'
  BY ProcessInvStep, ServingStep, NextIsStep DEF IndInv, ProcessInv

\* The inductive invariant of the server process holds throughout: the flags, the thread,
\* the mutex, the event at hand, the sockets and the slots of ipc_server.c agree.
THEOREM Invariance == Spec => []IndInv
  BY IndInvInit, IndInvStep, PTL DEF Spec

\* Type correctness: in particular the service thread never reads the control pipe
\* without a byte in it, which would block it inside its critical section.
THEOREM TypeCorrectness == Spec => []TypeOK
<1>1. IndInv => TypeOK
  BY DEF IndInv, ProcessInv
<1>2. QED
  BY <1>1, Invariance, PTL

\* A server in the table is bound to its domain file, listens and is watched.
THEOREM Reachability == Spec => []ServingIsReachable
<1>1. IndInv => ServingIsReachable
  BY DEF IndInv
<1>2. QED
  BY <1>1, Invariance, PTL

\* The slots in use hold distinct accepted connections, each of them watched.
THEOREM SlotsAreConnections == Spec => []SlotsSound
<1>1. IndInv => SlotsSound
  BY DEF IndInv, ProcessInv
<1>2. QED
  BY <1>1, Invariance, PTL

\* Every connection the running server has accepted is in a slot: ipcAcceptClient forgets
\* nobody, whatever the state of the table.
THEOREM AcceptedClientsAreHeld == Spec => []NoClientForgotten
<1>1. IndInv => NoClientForgotten
  BY DEF IndInv, ProcessInv
<1>2. QED
  BY <1>1, Invariance, PTL

\* The mutex is held only by a thread that will release it, until the thread is cancelled.
THEOREM LockDiscipline == Spec => []LockHeldByLiveThread
<1>1. IndInv => LockHeldByLiveThread
  BY DEF IndInv, ProcessInv, LockInv
<1>2. QED
  BY <1>1, Invariance, PTL

\* No thread, no registration and no server outlive ipcServerDeinit.
THEOREM CleanDeinit == Spec => []DeinitLeavesNothing
<1>1. IndInv => DeinitLeavesNothing
  BY DEF IndInv, ProcessInv, ThreadInv, DeinitLeavesNothing
<1>2. QED
  BY <1>1, Invariance, PTL

-----------------------------------------------------------------------------
(* What a step never does to a client's slot *)

\* A step that empties or reuses a slot is ipcCloseClient for a client that has left, or
\* empties the table.
LEMMA SlotStep ==
  ASSUME ProcessInv, [Step]_vars, NEW i \in Slots
  PROVE  clientFd[i] \notin {None, clientFd'[i]} =>
           peer[clientFd[i]] = "gone" \/ usage' = None
<1> USE DEF ProcessInv, TypeOK, TableType
<1>1. CASE UNCHANGED table
  BY <1>1
<1>2. CASE usage' = None
  BY <1>2
<1>3. CASE AcceptClient
  <2>1. CASE UNCHANGED clientFd
    BY <2>1
  <2>2. ASSUME NEW c \in Conns, FreeSlots # {},
               clientFd' = [clientFd EXCEPT ![FirstOf(FreeSlots)] = c]
        PROVE  clientFd[i] \in {None, clientFd'[i]}
    <3>1. clientFd[FirstOf(FreeSlots)] = None
      BY <2>2, FirstOfIsIn DEF FreeSlots
    <3>2. QED
      BY <2>2, <3>1
  <2>3. QED
    BY <1>3, <2>1, <2>2 DEF AcceptClient, Waiting
<1>4. CASE CloseClient
  <2>1. CASE UNCHANGED clientFd
    BY <2>1
  <2>2. CASE SlotsOf(event) # {} /\ clientFd' = [clientFd EXCEPT ![FirstOf(SlotsOf(event))] = None]
    <3>1. clientFd[FirstOf(SlotsOf(event))] = event
      BY <2>2, FirstOfIsIn DEF SlotsOf
    <3>2. event \in Conns /\ peer[event] = "gone"
      BY <1>4 DEF CloseClient, EventInv
    <3>3. QED
      BY <2>2, <3>1, <3>2
  <2>3. QED
    BY <1>4, <2>1, <2>2 DEF CloseClient, ReleaseSlot
<1>5. [Step]_vars => UNCHANGED table \/ usage' = None \/ AcceptClient \/ CloseClient
                     \/ UNCHANGED clientFd
  <2>1. CASE Call
    BY <2>1 DEF Call, CallServerStart, CallSendMessage, CallServerStop, ServerInfoClear
  <2>2. CASE StartSteps
    BY <2>2 DEF StartSteps, AddServer, AddServerSucceeds, AddServerFails, ReleaseEntry,
                ServerInfoClear, StartThread, SetThreadRunning, WakeThread
  <2>3. CASE StopSteps
    BY <2>3 DEF StopSteps, RemoveServer, DeinitFlag, DeinitCancel, DeinitJoin, DeinitClear,
                ServerInfoClear
  <2>4. CASE ThreadStep
    BY <2>4, ThreadLinks DEF CloseFd
  <2>5. CASE Dies
    BY <2>5 DEF Dies, ProcessDies, ServerInfoClear
  <2>6. QED
    BY <2>1, <2>2, <2>3, <2>4, <2>5, SendFrame, ClientsFrame DEF Step
<1>6. QED
  BY <1>1, <1>2, <1>3, <1>4, <1>5

\* A client loses its slot only by leaving, or with the whole table.
THEOREM SlotsAreKept == Spec => SlotLostOnlyByHangup
<1>1. IndInv /\ [Next]_vars =>
        [\A i \in Slots : clientFd[i] \notin {None, clientFd'[i]} =>
           peer[clientFd[i]] = "gone" \/ usage' = None]_vars
  BY SlotStep, NextIsStep DEF IndInv
<1>2. QED
  BY <1>1, Invariance, PTL DEF Spec, SlotLostOnlyByHangup

-----------------------------------------------------------------------------
(* Delivery *)

\* The clients that are not in a slot yet.
Unaccepted == \A c \in Conns : link[c] \in {"none", "queued"} => got[c] = << >>

\* What the connection c has been given, and the one in slot i in particular: the two parts
\* of MissedOnlyIfReported.
InOrder(c) == \A k \in 1 .. Len(got[c]) :
                Before(c, k) < got[c][k] /\ Before(c, k) + 1 .. got[c][k] - 1 \subseteq cut
UpToDate(i) == clientFd[i] # None =>
                 LET c == clientFd[i]
                 IN LastGiven(c) <= Given(i) /\ LastGiven(c) + 1 .. Given(i) \subseteq cut

\* They are all of it.
LEMMA MissedParts ==
  MissedOnlyIfReported <=> (\A c \in Conns : InOrder(c)) /\ (\A i \in Slots : UpToDate(i))
  BY DEF MissedOnlyIfReported, InOrder, UpToDate

\* A connection that is not accepted yet has been given nothing, whatever is sent.
LEMMA UnacceptedStep ==
  ASSUME ProcessInv, Unaccepted, [Step]_vars PROVE Unaccepted'
<1> USE DEF ProcessInv, TypeOK, LinkType, TrafficType, TableType, Unaccepted
<1>1. CASE UNCHANGED vars
  BY <1>1
<1>2. CASE Call
  BY <1>2 DEF Call, CallServerStart, CallSendMessage, CallServerStop
<1>3. CASE StartSteps
  BY <1>3, StartFrame
<1>4. CASE SendLive
  <2>1. link' = link
    BY <1>4, SendFrame
  <2>2. \A c \in Conns : got'[c] = got[c] \/ link[c] = "open"
    <3>1. CASE SendWrite
      BY <3>1, DescriptorsDiffer DEF SendWrite, SlotsSound, LoopSlots
    <3>2. CASE ~SendWrite
      BY <1>4, <3>2 DEF SendLive, SendLock, SendBlocks, SendBroken, SendDone
    <3>3. QED
      BY <3>1, <3>2
  <2>3. QED
    BY <2>1, <2>2
<1>5. CASE StopSteps
  BY <1>5, StopFrame DEF StopSteps, RemoveServer, Drop, DeinitFlag, DeinitCancel, DeinitJoin,
                         DeinitClear
<1>6. CASE ThreadStep
  <2>1. got' = got /\ \A c \in Conns : link'[c] \in {"none", "queued"} => link'[c] = link[c]
    BY <1>6, ThreadLinks, ThreadFrame DEF AcceptClient, CloseClient, CloseFd, EventInv, Waiting
  <2>2. QED
    BY <2>1
<1>7. CASE Clients
  <2>1. \A c \in Conns : link'[c] = link[c] \/ link[c] = "none"
    BY <1>7 DEF Clients, Connect, Disconnect, ClientReads, SocketInv
  <2>2. got' = got
    BY <1>7, ClientsFrame
  <2>3. QED
    BY <2>1, <2>2
<1>8. CASE Dies
  BY <1>8 DEF Dies, ProcessDies
<1>9. QED
  BY <1>1, <1>2, <1>3, <1>4, <1>5, <1>6, <1>7, <1>8 DEF Step

\* The last broadcast a connection has been given is a number.
LEMMA LastGivenType == ASSUME TypeOK, NEW c \in Conns PROVE LastGiven(c) \in Nat
  BY DEF TypeOK, TrafficType, LastGiven

\* A write puts its broadcast behind those the connection has been given before.
LEMMA WriteAppends ==
  ASSUME TypeOK, NEW c \in Conns, got' = [got EXCEPT ![c] = Append(@, nsent)], joined' = joined
  PROVE  /\ LastGiven(c)' = nsent
         /\ Len(got'[c]) = Len(got[c]) + 1 /\ got'[c][Len(got[c]) + 1] = nsent
         /\ \A k \in 1 .. Len(got[c]) : got'[c][k] = got[c][k] /\ Before(c, k)' = Before(c, k)
         /\ \A n \in Nat : n = Len(got[c]) + 1 => Before(c, n)' = LastGiven(c)
<1> DEFINE s == got[c]
           t == Append(s, nsent)
<1>1. s \in Seq(Nat) /\ nsent \in Nat /\ got'[c] = t
  BY DEF TypeOK, TrafficType
<1> HIDE DEF s
<1>2. t \in Seq(Nat) /\ Len(s) \in Nat /\ Len(t) = Len(s) + 1 /\ t[Len(s) + 1] = nsent
  BY <1>1
<1>3. \A k \in 1 .. Len(s) : t[k] = s[k]
  BY <1>1
<1> HIDE DEF t
<1>4. t # << >>
  BY <1>2
<1>5. LastGiven(c)' = nsent
  BY <1>1, <1>2, <1>4 DEF LastGiven
<1>6. \A k \in 1 .. Len(s) : Before(c, k)' = Before(c, k)
  BY <1>1, <1>2, <1>3 DEF Before, s
<1>7. ASSUME NEW n \in Nat, n = Len(s) + 1 PROVE Before(c, n)' = LastGiven(c)
  <2>1. CASE s = << >>
    <3>1. Len(s) = 0
      BY <2>1
    <3>2. QED
      BY <1>7, <2>1, <3>1 DEF Before, LastGiven, s
  <2>2. CASE s # << >>
    <3>1. Len(s) \in 1 .. Len(s) /\ n # 1 /\ n - 1 = Len(s)
      BY <1>1, <1>2, <1>7, <2>2
    <3>2. Before(c, n)' = t[Len(s)]
      BY <1>1, <1>2, <3>1 DEF Before
    <3>3. QED
      BY <1>3, <2>2, <3>1, <3>2 DEF LastGiven, s
  <2>3. QED
    BY <2>1, <2>2
<1>8. QED
  BY <1>1, <1>2, <1>3, <1>5, <1>6, <1>7 DEF s

\* Every step keeps what a connection has been given in order, the write included that
\* gives it one more.
LEMMA InOrderStep ==
  ASSUME ProcessInv, \A i \in Slots : UpToDate(i), [Step]_vars,
         NEW c \in Conns, InOrder(c), link[c] \notin {"none", "queued"} \/ got[c] = << >>
  PROVE  InOrder(c)'
<1> USE DEF ProcessInv
<1>1. CASE got'[c] = got[c] /\ joined'[c] = joined[c] /\ cut \subseteq cut'
  BY <1>1 DEF InOrder, Before
<1>2. CASE got'[c] = << >>
  BY <1>2 DEF InOrder
<1>3. CASE SendLive
  <2>1. CASE SendWrite
    <3>1. cut' = cut /\ joined' = joined
      BY <2>1 DEF SendWrite
    <3>2. CASE got'[c] = got[c]
      BY <1>1, <3>1, <3>2
    <3>3. CASE slot \in Slots /\ clientFd[slot] = c /\ got' = [got EXCEPT ![c] = Append(@, nsent)]
      <4>1. LastGiven(c) <= nsent - 1 /\ LastGiven(c) + 1 .. nsent - 1 \subseteq cut
        <5>1. Sending /\ c # None
          BY <2>1, DescriptorsDiffer DEF SendWrite
        <5>2. Given(slot) = nsent - 1
          BY <3>3, <5>1 DEF Given, Slots
        <5>3. QED
          BY <3>3, <5>1, <5>2 DEF UpToDate
      <4>2. LastGiven(c) \in Nat /\ nsent \in Nat
        BY LastGivenType DEF TypeOK, TrafficType
      <4>3. ASSUME NEW k \in 1 .. Len(got'[c])
            PROVE  Before(c, k)' < got'[c][k]
                   /\ Before(c, k)' + 1 .. got'[c][k] - 1 \subseteq cut'
        <5>1. Len(got[c]) \in Nat
          BY DEF TypeOK, TrafficType
        <5>2. CASE k \in 1 .. Len(got[c])
          BY <3>1, <3>3, <5>2, WriteAppends DEF InOrder
        <5>3. CASE k = Len(got[c]) + 1
          <6>1. k \in Nat /\ got'[c][k] = nsent
            BY <3>1, <3>3, <5>1, <5>3, WriteAppends
          <6>2. Before(c, k)' = LastGiven(c)
            <7>1. \A n \in Nat : n = Len(got[c]) + 1 => Before(c, n)' = LastGiven(c)
              BY <3>1, <3>3, WriteAppends
            <7>2. QED
              BY <5>3, <6>1, <7>1
          <6>3. QED
            BY <3>1, <4>1, <4>2, <6>1, <6>2
        <5>4. QED
          BY <3>1, <3>3, <4>3, <5>1, <5>2, <5>3, WriteAppends
      <4>4. QED
        BY <4>3 DEF InOrder
    <3>4. QED
      BY <2>1, <3>2, <3>3 DEF SendWrite, LoopSlots, TypeOK, TrafficType
  <2>2. CASE ~SendWrite
    <3>1. UNCHANGED <<got, joined>> /\ cut \subseteq cut'
      BY <1>3, <2>2 DEF SendLive, SendLock, SendBlocks, SendBroken, SendFails, SendDone
    <3>2. QED
      BY <1>1, <3>1
  <2>3. QED
    BY <2>1, <2>2
<1>4. CASE ThreadStep
  <2>1. got' = got /\ cut' = cut
    BY <1>4, ThreadFrame
  <2>2. joined'[c] = joined[c] \/ link[c] = "queued"
    BY <1>4, ThreadLinks DEF AcceptClient, CloseClient, CloseFd, Waiting, TypeOK, TrafficType
  <2>3. QED
    BY <1>1, <1>2, <2>1, <2>2
<1>5. [Step]_vars => SendLive \/ ThreadStep \/ UNCHANGED <<got, joined, cut>>
  BY CallFrame, StartFrame, StopFrame, ClientsFrame
     DEF Step, DeinitJoin, Dies, ProcessDies
<1>6. QED
  BY <1>1, <1>3, <1>4, <1>5

\* Every step keeps the client in a slot up to date: with the broadcasts there have been, or,
\* while one is being written and the loop has not come to the slot, with those before it.
LEMMA UpToDateStep ==
  ASSUME ProcessInv, Unaccepted, \A j \in Slots : UpToDate(j), [Step]_vars, NEW i \in Slots
  PROVE  UpToDate(i)'
<1> USE DescriptorsDiffer DEF ProcessInv, TypeOK, TableType, TrafficType
<1>1. CASE UNCHANGED <<clientFd, pc, slot, got, cut, joined, nsent>>
  BY <1>1 DEF UpToDate, LastGiven, Given, Sending
<1>2. CASE ~Sending /\ ~Sending' /\ UNCHANGED traffic
           /\ (clientFd' = [j \in Slots |-> None] \/ UNCHANGED clientFd)
  BY <1>2 DEF UpToDate, LastGiven, Given
<1>3. CASE Call
  <2>1. ~Sending /\ ~Sending' /\ UNCHANGED traffic
    BY <1>3 DEF Call, CallServerStart, CallSendMessage, CallServerStop, Return, Sending
  <2>2. clientFd' = [j \in Slots |-> None] \/ UNCHANGED clientFd
    BY <1>3 DEF Call, CallServerStart, CallSendMessage, CallServerStop, ServerInfoClear
  <2>3. QED
    BY <1>2, <2>1, <2>2
<1>4. CASE StartSteps
  <2>1. ~Sending /\ ~Sending' /\ UNCHANGED traffic
    BY <1>4 DEF StartSteps, AddServer, StartThread, SetThreadRunning, WakeThread, Return, Goto,
                Sending
  <2>2. clientFd' = [j \in Slots |-> None] \/ UNCHANGED clientFd
    BY <1>4 DEF StartSteps, AddServer, AddServerSucceeds, AddServerFails, ReleaseEntry,
                ServerInfoClear, StartThread, SetThreadRunning, WakeThread
  <2>3. QED
    BY <1>2, <2>1, <2>2
<1>5. CASE SendLive
  <2>1. CASE SendLock
    <3>1. ~Sending /\ UNCHANGED <<clientFd, got, cut, joined>>
      BY <2>1 DEF SendLock, Sending
    <3>2. Given(i) = nsent /\ Given(i)' = nsent
      BY <2>1, <3>1 DEF SendLock, Return, Given, Sending, Slots
    <3>3. QED
      BY <3>1, <3>2 DEF UpToDate, LastGiven
  <2>2. CASE SendWrite
    <3>1. Sending /\ Sending' /\ slot \in Slots /\ slot' = slot + 1
          /\ UNCHANGED <<clientFd, cut, joined, nsent>>
      BY <2>2 DEF SendWrite, LoopSlots, Sending
    <3>2. CASE i = slot
      <4>1. Given(i)' = nsent
        BY <3>1, <3>2 DEF Given, Slots
      <4>2. CASE clientFd[i] = None
        BY <3>1, <4>2 DEF UpToDate
      <4>3. ASSUME NEW c \in Conns, clientFd[i] = c, got' = [got EXCEPT ![c] = Append(@, nsent)]
            PROVE  UpToDate(i)'
        <5>1. LastGiven(c)' = nsent /\ nsent \in Nat
          BY <3>1, <4>3, WriteAppends
        <5>2. QED
          BY <3>1, <4>1, <4>3, <5>1 DEF UpToDate
      <4>4. QED
        BY <2>2, <3>2, <4>2, <4>3 DEF SendWrite
    <3>3. CASE i # slot
      <4>1. Given(i)' = Given(i)
        BY <3>1, <3>3 DEF Given, Slots
      <4>2. ASSUME clientFd[i] # None PROVE got'[clientFd[i]] = got[clientFd[i]]
        BY <2>2, <3>1, <3>3, <4>2 DEF SendWrite, SlotsSound
      <4>3. QED
        BY <3>1, <4>1, <4>2 DEF UpToDate, LastGiven
    <3>4. QED
      BY <3>2, <3>3
  <2>3. CASE SendBlocks
    BY <2>3 DEF SendBlocks, Goto, UpToDate, LastGiven, Given, Sending
  <2>4. CASE SendBroken
    <3>1. UNCHANGED <<clientFd, got, joined, nsent>> /\ cut' = cut \cup {nsent}
          /\ Sending /\ ~Sending'
      BY <2>4 DEF SendBroken, SendFails, Return, Sending
    <3>2. Given(i)' = nsent /\ nsent \in Nat /\ Given(i) \in {nsent - 1, nsent}
      BY <3>1 DEF Given
    <3>3. ASSUME clientFd[i] # None PROVE UpToDate(i)'
      <4> DEFINE c == clientFd[i]
      <4>1. LastGiven(c)' = LastGiven(c) /\ LastGiven(c) \in Nat /\ c' = c
        BY <3>1, <3>3, LastGivenType DEF LastGiven
      <4>2. LastGiven(c) <= Given(i) /\ LastGiven(c) + 1 .. Given(i) \subseteq cut
        BY <3>3 DEF UpToDate
      <4>3. LastGiven(c) <= nsent /\ LastGiven(c) + 1 .. nsent \subseteq cut'
        BY <3>1, <3>2, <4>1, <4>2
      <4>4. QED
        BY <3>2, <4>1, <4>3 DEF UpToDate
    <3>4. QED
      BY <3>1, <3>3 DEF UpToDate
  <2>5. CASE SendDone
    <3>1. Sending /\ ~Sending' /\ ~(slot <= i) /\ UNCHANGED <<clientFd, got, cut, joined, nsent>>
      BY <2>5, ClientNumType DEF SendDone, LoopSlots, Return, AppType, Slots, Sending
    <3>2. Given(i) = nsent /\ Given(i)' = nsent
      BY <3>1 DEF Given
    <3>3. QED
      BY <3>1, <3>2 DEF UpToDate, LastGiven
  <2>6. QED
    BY <1>5, <2>1, <2>2, <2>3, <2>4, <2>5 DEF SendLive
<1>6. CASE StopSteps
  <2>1. ~Sending /\ ~Sending' /\ UNCHANGED traffic
    BY <1>6 DEF StopSteps, RemoveServer, DeinitFlag, DeinitCancel, DeinitJoin, DeinitClear,
                Return, Goto, Sending
  <2>2. clientFd' = [j \in Slots |-> None] \/ UNCHANGED clientFd
    BY <1>6 DEF StopSteps, RemoveServer, DeinitFlag, DeinitCancel, DeinitJoin, DeinitClear,
                ServerInfoClear
  <2>3. QED
    BY <1>2, <2>1, <2>2
<1>7. CASE ThreadStep
  <2>1. UNCHANGED <<pc, slot, got, cut, nsent>>
    BY <1>7, ThreadFrame
  <2>2. CASE AcceptClient
    <3>1. ~Sending /\ ~Sending'
      BY <2>1, <2>2 DEF AcceptClient, LockInv, LockHeldByLiveThread, InCritical, Sending
    <3>2. CASE UNCHANGED <<clientFd, joined>>
      BY <1>1, <2>1, <3>2
    <3>3. ASSUME NEW c \in Conns, FreeSlots # {}, link[c] = "queued",
                 clientFd' = [clientFd EXCEPT ![FirstOf(FreeSlots)] = c],
                 joined' = [joined EXCEPT ![c] = nsent]
          PROVE  UpToDate(i)'
      <4>1. Given(i)' = nsent /\ Given(i) = nsent /\ nsent \in Nat
        BY <2>1, <3>1 DEF Given
      <4>2. CASE clientFd'[i] = c
        <5>1. LastGiven(c)' = nsent
          BY <2>1, <3>3 DEF Unaccepted, LastGiven
        <5>2. QED
          BY <4>1, <4>2, <5>1 DEF UpToDate
      <4>3. CASE clientFd'[i] # c
        <5>1. clientFd'[i] = clientFd[i]
          BY <3>3, <4>3
        <5>2. \A d \in Conns : d # c => LastGiven(d)' = LastGiven(d)
          BY <2>1, <3>3 DEF LastGiven
        <5>3. QED
          BY <2>1, <4>1, <4>3, <5>1, <5>2 DEF UpToDate
      <4>4. QED
        BY <4>2, <4>3
    <3>4. QED
      BY <2>2, <3>2, <3>3 DEF AcceptClient, Waiting
  <2>3. CASE joined' = joined /\ clientFd'[i] \in {None, clientFd[i]}
    BY <2>1, <2>3 DEF UpToDate, LastGiven, Given, Sending
  <2>4. CASE CloseClient
    <3>1. joined' = joined
      BY <2>4 DEF CloseClient
    <3>2. clientFd'[i] \in {None, clientFd[i]}
      BY <2>4 DEF CloseClient, ReleaseSlot
    <3>3. QED
      BY <2>3, <3>1, <3>2
  <2>5. CASE CloseFd
    BY <2>3, <2>5 DEF CloseFd
  <2>6. QED
    BY <1>1, <1>7, <2>1, <2>2, <2>4, <2>5, ThreadLinks
<1>8. CASE Clients
  BY <1>1, <1>8, ClientsFrame
<1>9. CASE Dies
  BY <1>9 DEF Dies, ProcessDies, ServerInfoClear, UpToDate
<1>10. CASE UNCHANGED vars
  BY <1>1, <1>10
<1>11. QED
  BY <1>3, <1>4, <1>5, <1>6, <1>7, <1>8, <1>9, <1>10 DEF Step

DeliveryInv == ProcessInv /\ Unaccepted /\ MissedOnlyIfReported

\* Every step, a write that fails and every end of the process included, preserves it.
LEMMA DeliveryStep == ASSUME DeliveryInv, [Step]_vars PROVE DeliveryInv'
<1> USE DEF DeliveryInv
<1>1. ProcessInv' /\ Unaccepted'
  BY ProcessInvStep, UnacceptedStep
<1>2. (\A c \in Conns : InOrder(c)) /\ (\A i \in Slots : UpToDate(i))
  BY MissedParts
<1>3. \A c \in Conns : InOrder(c)'
  BY <1>2, InOrderStep DEF Unaccepted
<1>4. \A i \in Slots : UpToDate(i)'
  BY <1>2, UpToDateStep
<1>5. QED
  BY <1>1, <1>3, <1>4 DEF MissedOnlyIfReported, InOrder, UpToDate

\* What has been given to whom, in every reachable state.
LEMMA DeliveryInvariance == Spec => []DeliveryInv
<1>1. Init => DeliveryInv
  <2> SUFFICES ASSUME Init PROVE DeliveryInv
    OBVIOUS
  <2>1. ProcessInv /\ Unaccepted
    BY IndInvInit DEF IndInv, Init, Unaccepted
  <2>2. MissedOnlyIfReported
    BY DEF Init, LibraryInit, MissedOnlyIfReported
  <2>3. QED
    BY <2>1, <2>2 DEF DeliveryInv
<1>2. DeliveryInv /\ [Next]_vars => DeliveryInv'
  BY DeliveryStep, NextIsStep
<1>3. QED
  BY <1>1, <1>2, PTL DEF Spec

\* A client in the table has been given, in their order and none twice, the broadcasts since
\* it was accepted, but for those whose ipcSendMessage returned an error: whatever the signal
\* SIGPIPE does, and for whatever reason and at whatever slot a write fails.
THEOREM Delivery == Spec => []MissedOnlyIfReported
<1>1. DeliveryInv => MissedOnlyIfReported
  BY DEF DeliveryInv
<1>2. QED
  BY <1>1, DeliveryInvariance, PTL
=============================================================================
