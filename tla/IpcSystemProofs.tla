--------------------------- MODULE IpcSystemProofs ---------------------------
(***************************************************************************)
(* What holds of the server program and the client program together, for   *)
(* every number of slots and of other clients and every structure of the   *)
(* data: their processes keep their own invariants, although each one's    *)
(* environment is now the other and a second server program takes the file *)
(* away, and their two views of every connection agree.                    *)
(***************************************************************************)
EXTENDS IpcSystem, IpcServerProofs, FiniteSetTheorems, SequenceTheorems

USE DEF vars, library, table, epoll, app, thread, files, links, traffic, serverVars

-----------------------------------------------------------------------------
(* The constants *)

\* The program's usage type is one.
LEMMA IcServiceType == IcService \in Usages
<1>1. Cardinality(Usages) # 0
  BY SystemConstants
<1>2. Usages # {}
  BY <1>1, FS_EmptySet
<1>3. QED
  BY <1>2 DEF IcService

\* A structure has at least one field, for both libraries.
LEMMA FieldsType ==
  /\ Client!PoolSize = Cardinality(Fields) /\ Client!PoolSize \in Nat /\ Client!PoolSize >= 1
  /\ Fields = 1 .. Client!PoolSize
<1>1. Client!PoolSize = Cardinality(Fields)
  BY DEF Client!PoolSize, Client!Cardinality, Cardinality
<1>2. Cardinality(Fields) \in Nat \ {0} /\ Fields = 1 .. Cardinality(Fields)
  BY SystemConstants
<1>3. QED
  BY <1>1, <1>2

\* The structures that are sent fit what the client library expects.
LEMMA DataType ==
  /\ Data \in Seq([Fields -> Values \ {Zero}]) /\ Len(Data) \in Nat /\ MaxSends <= Len(Data)
  /\ MaxSends \in Nat
  /\ \A k \in 1 .. Len(Data) : Data[k] \in [Fields -> Values \ {Zero}]
  BY SystemConstants, ServerConstants

\* What the client library is given satisfies what it asks for.
LEMMA ClientAssumptions == Client!ClientConstants /\ Client!NamesDiffer
<1>1. Client!ClientConstants
  <2>1. Watched \subseteq Fields /\ Zero \in Values /\ MaxPipe \in Nat /\ MaxSends \in Nat
    BY SystemConstants, ServerConstants
  <2>2. {Cardinality(Fields)} \subseteq Fields
    <3>1. PICK n \in Nat : n = Cardinality(Fields) /\ n >= 1 /\ Fields = 1 .. n
      BY FieldsType
    <3>2. n \in 1 .. n
      BY <3>1
    <3>3. n \in Fields
      BY <3>1, <3>2, Zenon
    <3>4. QED
      BY <3>1, <3>3, Zenon
  <2>3. {Data[k] : k \in 1 .. Len(Data)} \subseteq [Fields -> Values]
    BY DataType
  <2>4. QED
    BY <2>1, <2>2, <2>3, FieldsType, IcServiceType DEF Client!ClientConstants, Client!Syscalls
<1>2. Client!NamesDiffer
  BY SystemConstants, DescriptorsDiffer DEF Client!NamesDiffer
<1>3. QED
  BY <1>1, <1>2

-----------------------------------------------------------------------------
(* The steps *)

\* A step of the server process, and its end.
ServerStep == Call \/ StartSteps \/ SendLive \/ StopSteps \/ ThreadStep \/ Dies

ServerAction == ServerCalls \/ ServerCommands \/ ServerApp \/ ServerThread \/ ServerDies
ClientAction == ClientCalls \/ ClientCommands \/ ClientApp \/ ClientThread \/ ClientKilled

\* What the server program does is a step of its process.
LEMMA ServerActionIsStep == ServerAction => ServerStep
  BY IcServiceType DEF ServerAction, ServerCalls, ServerCommands, ServerApp, ServerThread,
     ServerDies, ExitServer, ServerStep, Call, SendLive, SendKilled, Crash, Dies

\* What the client program does is a step of its process, or the end of it.
LEMMA ClientActionIsStep == ClientAction => Client!ProcessStep \/ ClientProcessDies
  BY IcServiceType DEF ClientAction, ClientCalls, ClientCommands, ClientApp, ClientThread,
     ClientKilled, Client!ProcessStep, Client!Call

\* A process that ends leaves the client library as a new one finds it.
LEMMA NewClient == ClientProcessDies => Client!Init'
  BY DEF ClientProcessDies, Client!Init

-----------------------------------------------------------------------------
(* What a step of the server process does to its connections *)

\* ipcSendMessage writes the broadcast under way to the client of a slot.
Writes(c) ==
  /\ Sending /\ slot \in Slots /\ clientFd[slot] = c
  /\ UNCHANGED <<link, cut, nsent, joined>>
  /\ unread' = [unread EXCEPT ![c] = @ + 1]
  /\ got' = [got EXCEPT ![c] = Append(@, nsent)]

\* What it does to the server end of a connection.
Accepts(c) == link[c] = "queued" /\ link'[c] = "open"
Ends(c) == link[c] # "none" /\ link'[c] \in {"shut", "closed"}

\* A step of the server process writes to one client at most, and keeps, accepts or ends
\* each connection; only clients connect.
LEMMA ServerConnections ==
  ASSUME ProcessInv, ServerStep
  PROVE  /\ peer' = peer /\ on' = on
         /\ \A c \in Conns : link'[c] = link[c] \/ Accepts(c) \/ Ends(c)
         /\ UNCHANGED <<unread, got>> \/ \E c \in Conns : Writes(c)
<1>0. LinkType /\ TrafficType /\ AppType /\ EventInv
  BY DEF ProcessInv, TypeOK
<1>1. CASE Call
  BY <1>1, CallFrame
<1>2. CASE StartSteps
  BY <1>2, StartFrame
<1>3. CASE SendLive
  <2>1. UNCHANGED links
    BY <1>3, SendFrame
  <2>2. UNCHANGED <<unread, got>> \/ SendWrite
    BY <1>3 DEF SendLive, SendLock, SendBlocks, SendBroken, SendDone
  <2>3. ASSUME SendWrite, ~UNCHANGED <<unread, got>> PROVE \E c \in Conns : Writes(c)
    <3>1. PICK c \in Conns :
            /\ clientFd[slot] = c
            /\ unread' = [unread EXCEPT ![c] = @ + 1]
            /\ got' = [got EXCEPT ![c] = Append(@, nsent)]
            /\ UNCHANGED <<cut, joined, nsent>>
      BY <2>3 DEF SendWrite
    <3>2. Sending /\ slot \in Slots
      BY <2>3 DEF SendWrite, LoopSlots
    <3>3. QED
      BY <2>1, <3>1, <3>2 DEF Writes
  <2>4. QED
    BY <2>1, <2>2, <2>3
<1>4. CASE StopSteps
  <2>1. UNCHANGED <<on, peer, traffic>>
    BY <1>4, StopFrame DEF DeinitJoin
  <2>2. CASE RemoveServer
    BY <1>0, <2>1, <2>2 DEF RemoveServer, Drop, LinkType, Ends
  <2>3. CASE ~RemoveServer
    BY <1>4, <2>1, <2>3 DEF StopSteps, DeinitFlag, DeinitCancel, DeinitJoin, DeinitClear
  <2>4. QED
    BY <2>2, <2>3
<1>5. CASE ThreadStep
  <2>1. UNCHANGED <<on, peer, unread, got>>
    BY <1>5, ThreadFrame
  <2>2. CASE AcceptClient
    BY <1>0, <2>1, <2>2 DEF AcceptClient, LinkType, Waiting, Accepts, Ends
  <2>3. CASE CloseClient
    <3>1. link' = link \/ (event \in Conns /\ link' = [link EXCEPT ![event] = "shut"])
      BY <2>3 DEF CloseClient
    <3>2. event \in Conns => peer[event] = "gone"
      BY <1>0, <2>3 DEF EventInv, CloseClient
    <3>3. event \in Conns => link[event] # "none" \/ link' = link
      <4>1. CASE event \in Conns /\ link' # link
        <5>1. SlotsOf(event) # {}
          BY <2>3, <4>1 DEF CloseClient
        <5>2. PICK i \in Slots : clientFd[i] = event
          BY <5>1 DEF SlotsOf
        <5>3. clientFd[i] # None
          BY <4>1, <5>2, DescriptorsDiffer
        <5>4. link[event] = "open"
          BY <5>2, <5>3 DEF ProcessInv, SlotsSound
        <5>5. QED
          BY <5>4
      <4>2. QED
        BY <4>1
    <3>4. QED
      BY <1>0, <2>1, <3>1, <3>3 DEF LinkType, Ends
  <2>4. CASE CloseFd
    BY <1>0, <2>1, <2>4 DEF CloseFd, EventInv, LinkType, Ends
  <2>5. QED
    BY <1>5, <2>1, <2>2, <2>3, <2>4, ThreadLinks
<1>6. CASE Dies
  BY <1>0, <1>6 DEF Dies, ProcessDies, LinkType, Ends
<1>7. QED
  BY <1>1, <1>2, <1>3, <1>4, <1>5, <1>6 DEF ServerStep

-----------------------------------------------------------------------------
(* Each process keeps its own invariant *)

\* The client's variables are the ones IpcSystem lists.
LEMMA ClientVars == UNCHANGED clientVars => UNCHANGED Client!vars
  BY DEF clientVars, Client!vars, Client!library, Client!epoll, Client!heap, Client!app,
     Client!thread, Client!links

\* What is not done by the server program: a client acts, or the file is taken away.
Environment == RunServer \/ RunClient \/ Others \/ ClientSide(ClientAction) \/ UNCHANGED allVars

LEMMA EnvironmentActs ==
  ASSUME WireInv, Environment
  PROVE  Clients \/ OtherServerFails \/ UNCHANGED serverVars
<1>1. \A fd \in Wired : wire[fd] \in Conns
  BY SystemConstants DEF WireInv, Wired
<1>2. CASE RunServer \/ RunClient \/ UNCHANGED allVars
  BY <1>2 DEF RunServer, RunClient, allVars
<1>3. CASE Others
  BY <1>3, IcServiceType DEF Others, OtherClients, Clients
<1>4. CASE ClientSide(ClientAction)
  <2>1. ASSUME NEW fd, Connected(fd) PROVE Clients
    BY <2>1, IcServiceType, SystemConstants DEF Connected, Clients
  <2>2. ASSUME NEW fd \in Wired, HungUp(fd) PROVE Clients \/ UNCHANGED serverVars
    BY <1>1, <2>2 DEF HungUp, Clients
  <2>3. ASSUME NEW fd \in Wired, ClientReads(wire[fd]) PROVE Clients
    BY <1>1, <2>3 DEF Clients
  <2>4. QED
    BY <1>4, <2>1, <2>2, <2>3 DEF ClientSide
<1>5. QED
  BY <1>2, <1>3, <1>4 DEF Environment

\* Every step is one of the server program or one of its environment.
LEMMA NextIsServerOrEnvironment ==
  SystemNext \/ UNCHANGED allVars => ServerSide(ServerAction) \/ Environment
  BY DEF SystemNext, ServerAction, ClientAction, Environment

\* Whatever the client and the other processes do, the server process sees a step it has in
\* IpcServer too, unless the second server program takes the file away.
LEMMA ServerSteps ==
  ASSUME WireInv, SystemNext \/ UNCHANGED allVars
  PROVE  Step \/ UNCHANGED vars \/ OtherServerFails
<1>1. CASE ServerSide(ServerAction)
  BY <1>1, ServerActionIsStep DEF ServerSide, ServerStep, Step
<1>2. QED
  BY <1>1, NextIsServerOrEnvironment, EnvironmentActs DEF Step

\* The file is all that the second server program touches.
LEMMA ServerInvStep ==
  ASSUME ProcessInv, WireInv, SystemNext \/ UNCHANGED allVars
  PROVE  ProcessInv'
<1>1. CASE Step \/ UNCHANGED vars
  BY <1>1, ProcessInvStep
<1>2. CASE OtherServerFails
  <2>1. UNCHANGED <<library, table, mutex, epoll, app, thread, listening, nsock, links, traffic,
                    starts, crashes>>
    BY <1>2 DEF OtherServerFails
  <2>2. path' = [path EXCEPT ![IcService] = None]
    BY <1>2 DEF OtherServerFails
  <2>3. TypeOK'
    <3>1. FileType'
      BY <2>1, <2>2 DEF ProcessInv, TypeOK, FileType
    <3>2. LibraryType' /\ EpollType' /\ TableType' /\ AppType'
      BY <2>1 DEF ProcessInv, TypeOK, LibraryType, EpollType, TableType, AppType
    <3>3. ThreadType' /\ LinkType' /\ TrafficType'
      BY <2>1 DEF ProcessInv, TypeOK, ThreadType, LinkType, TrafficType
    <3>4. QED
      BY <3>1, <3>2, <3>3 DEF TypeOK
  <2>4. SocketInv'
    BY <2>1, <2>2 DEF ProcessInv, SocketInv, TypeOK, FileType
  <2>5. ThreadInv' /\ LockInv' /\ EventInv'
    BY <2>1 DEF ProcessInv, ThreadInv, LockInv, LockHeldByLiveThread, InCritical, Sending, EventInv
  <2>6. SlotsSound' /\ NoClientForgotten'
    BY <2>1 DEF ProcessInv, SlotsSound, NoClientForgotten
  <2>7. QED
    BY <2>3, <2>4, <2>5, <2>6 DEF ProcessInv
<1>3. QED
  BY <1>1, <1>2, ServerSteps

\* Whatever the server and the other processes do, the client process sees a step it has in
\* IpcClient too, or its end.
LEMMA ClientSteps ==
  ASSUME ProcessInv, GivenInv, WireInv, SystemNext \/ UNCHANGED allVars
  PROVE  [Client!Next]_Client!vars \/ ClientProcessDies
<1>1. CASE UNCHANGED clientVars
  BY <1>1, ClientVars
<1>2. CASE RunServer \/ RunClient \/ Others \/ UNCHANGED allVars
  BY <1>1, <1>2 DEF RunServer, RunClient, Others, allVars
<1>3. CASE ServerSide(ServerAction)
  <2>1. ASSUME NEW fd \in Wired, unread'[wire[fd]] > unread[wire[fd]],
               Client!ServerSends(fd, Data[nsent], Client!PoolSize)
        PROVE  Client!Servers
    <3>1. unread' # unread
      <4>1. CASE unread' = unread
        <5>1. unread[wire[fd]] > unread[wire[fd]]
          BY <2>1, <4>1
        <5>2. wire[fd] \in Conns
          BY SystemConstants DEF WireInv, Wired
        <5>3. unread[wire[fd]] \in Nat
          BY <5>2 DEF ProcessInv, TypeOK, TrafficType
        <5>4. QED
          BY <5>1, <5>3
      <4>2. QED
        BY <4>1
    <3>2. Sending
      BY <1>3, <3>1, ServerActionIsStep, ServerConnections DEF ServerSide, Writes
    <3>3. nsent \in 1 .. Len(Data)
      BY <3>2, DataType DEF GivenInv, ProcessInv, TypeOK, TrafficType
    <3>4. fd \in Client!Fds
      BY DEF Wired
    <3>5. Client!PoolSize = Cardinality(Fields)
      BY FieldsType
    <3>6. QED
      BY <2>1, <3>3, <3>4, <3>5 DEF Client!Servers
  <2>2. ASSUME NEW fd \in Wired, Client!ServerCloses(fd) PROVE Client!Servers
    BY <2>2 DEF Client!Servers, Wired
  <2>3. QED
    BY <1>1, <1>3, <2>1, <2>2 DEF ServerSide, Client!Next
<1>4. CASE ClientSide(ClientAction)
  BY <1>4, ClientActionIsStep DEF ClientSide, Client!ProcessStep, Client!Next
<1>5. QED
  BY <1>2, <1>3, <1>4 DEF SystemNext, ServerAction, ClientAction

\* A new client process has both invariants of the client.
LEMMA ClientInvInit == Client!Init => Client!IndInv /\ Client!DataInv
  BY ClientAssumptions, Client!IndInvInit, Client!DataInvInit

\* A client that ends and is started again is a new one.
LEMMA ClientInvStep ==
  ASSUME ProcessInv, GivenInv, WireInv, Client!IndInv, Client!DataInv,
         SystemNext \/ UNCHANGED allVars
  PROVE  Client!IndInv' /\ Client!DataInv'
<1>1. CASE [Client!Next]_Client!vars
  <2>1. {Cardinality(Fields)} \subseteq {Client!PoolSize}
    BY FieldsType
  <2>2. QED
    BY <1>1, <2>1, ClientAssumptions, Client!IndInvStep, Client!DataInvStep
<1>2. CASE ClientProcessDies
  <2>1. Client!Init'
    BY <1>2, NewClient
  <2>2. (Client!Init => Client!IndInv /\ Client!DataInv)'
    BY ClientInvInit, PTL
  <2>3. QED
    BY <2>1, <2>2
<1>3. QED
  BY <1>1, <1>2, ClientSteps

-----------------------------------------------------------------------------
(* The order of the API calls, and what clients have been given *)

\* The environment leaves the server process alone; it connects and reads.
Connects(c) == peer[c] = "none" /\ link'[c] = "queued" /\ on'[c] \in listening
LEMMA EnvironmentFrame ==
  ASSUME ProcessInv, WireInv, Environment
  PROVE  /\ UNCHANGED <<library, table, mutex, epoll, app, thread, listening, nsock, got, cut,
                        joined, nsent>>
         /\ \A c \in Conns : \/ link'[c] = link[c] /\ on'[c] = on[c]
                             \/ Connects(c)
         /\ \A c \in Conns : unread'[c] = unread[c] \/ unread[c] > 0
<1>0. LinkType /\ unread \in [Conns -> Nat]
  BY DEF ProcessInv, TypeOK, TrafficType
<1>1. CASE UNCHANGED serverVars
  BY <1>1
<1>2. CASE OtherServerFails
  BY <1>2 DEF OtherServerFails
<1>3. CASE Clients
  <2>1. UNCHANGED <<library, table, mutex, epoll, app, thread, files, got, cut, joined, nsent>>
    BY <1>3, ClientsFrame
  <2>2. \A c \in Conns : (link'[c] = link[c] /\ on'[c] = on[c]) \/ Connects(c)
    BY <1>0, <1>3 DEF Clients, Connect, Disconnect, ClientReads, Connects, LinkType
  <2>3. \A c \in Conns : unread'[c] = unread[c] \/ unread[c] > 0
    BY <1>0, <1>3 DEF Clients, Connect, Disconnect, ClientReads
  <2>4. QED
    BY <2>1, <2>2, <2>3
<1>4. QED
  BY <1>1, <1>2, <1>3, EnvironmentActs

\* main() calls ipcServerStart once, first, and ipcServerStop last.
LEMMA ServerLifeStep ==
  ASSUME ProcessInv, WireInv, ServerLife, SystemNext \/ UNCHANGED allVars
  PROVE  ServerLife'
<1>0. LinkType /\ TableType /\ FileType /\ ThreadInv /\ (usage = None => listenFd = None)
  BY DEF ProcessInv, TypeOK, SocketInv
<1> USE DEF ServerLife, Sending
<1>1. CASE Environment
  <2>1. serverMain' = serverMain \/ (serverMain = "off" /\ serverMain' = "start")
    BY <1>1 DEF Environment, RunServer, RunClient, Others, ClientSide, mains, allVars
  <2>2. QED
    BY <1>1, <2>1, EnvironmentFrame DEF Connects
<1>2. CASE ServerSide(ServerAction)
  <2>0. ServerAction /\ on' = on /\ \A c \in Conns : link'[c] = link[c] \/ Accepts(c) \/ Ends(c)
    BY <1>2, ServerActionIsStep, ServerConnections DEF ServerSide
  <2>1. CASE ServerDies \/ ExitServer
    BY <2>1 DEF ServerDies, ExitServer, SendKilled, Crash, ProcessDies, ServerInfoClear, Return
  <2>2. CASE ServerCalls /\ ~ExitServer
    BY <1>0, <2>2
       DEF ServerCalls, ServerAt, CallServerStart, CallServerStop, ServerInfoClear, Return
  <2>3. CASE ServerCommands
    BY <1>0, <2>3 DEF ServerCommands, ServerAt, CallSendMessage, CallServerStop, Return
  <2>4. CASE ServerThread
    BY <1>0, <2>0, <2>4, ThreadFrame DEF ServerThread, Accepts, Ends
  <2>5. CASE ServerApp
    <3>0. serverMain' = serverMain
      BY <2>5 DEF ServerApp
    <3>1. CASE AddServer
      <4>1. usage = None /\ serverMain = "started" /\ listening = {}
            /\ \A c \in Conns : link[c] \notin {"queued", "open"}
        BY <3>1 DEF AddServer
      <4>2. UNCHANGED <<link, on>>
        BY <3>1 DEF AddServer
      <4>3. CASE AddServerSucceeds
        <5>1. usage' # None
          BY <1>0, <3>1, <4>3, DescriptorsDiffer DEF AddServerSucceeds, AddServer, ThreadInv
        <5>2. listening' = {listenFd'} /\ pc' = "start_spawn"
          BY <3>1, <4>1, <4>3 DEF AddServerSucceeds, AddServer, Goto, AddServerFails, Return
        <5>3. QED
          BY <3>0, <4>1, <4>2, <5>1, <5>2
      <4>4. CASE AddServerFails
        <5>1. usage' = None
          BY <4>1, <4>4 DEF AddServerFails, ReleaseEntry, ServerInfoClear
        <5>2. CASE ~AddServerSucceeds
          BY <3>0, <3>1, <4>1, <4>2, <5>1, <5>2 DEF AddServer, Return
        <5>3. QED
          BY <4>3, <5>2
      <4>5. QED
        BY <3>1, <4>3, <4>4 DEF AddServer
    <3>2. CASE StartThread \/ SetThreadRunning \/ WakeThread
      BY <3>0, <3>2 DEF StartThread, SetThreadRunning, WakeThread, Goto, Return
    <3>3. CASE SendLock \/ SendWrite \/ SendBlocks \/ SendBroken \/ SendDone
      BY <3>0, <3>3
         DEF SendLock, SendWrite, SendBlocks, SendBroken, SendFails, SendDone, Goto, Return
    <3>4. CASE RemoveServer
      <4>1. serverMain = "stop"
        BY <3>4 DEF RemoveServer
      <4>2. CASE usage' = None
        BY <3>0, <3>4, <4>1, <4>2 DEF RemoveServer, Goto, Return
      <4>3. CASE usage' # None
        BY <3>0, <3>4, <4>1, <4>3 DEF RemoveServer, ServerInfoClear, Return
      <4>4. QED
        BY <4>2, <4>3
    <3>5. CASE DeinitFlag \/ DeinitCancel \/ DeinitJoin \/ DeinitClear
      BY <3>0, <3>5 DEF DeinitFlag, DeinitCancel, DeinitJoin, DeinitClear, Goto, Return,
         ServerInfoClear
    <3>6. QED
      BY <2>5, <3>1, <3>2, <3>3, <3>4, <3>5 DEF ServerApp, StartSteps, StopSteps
  <2>6. QED
    BY <2>0, <2>1, <2>2, <2>3, <2>4, <2>5 DEF ServerAction
<1>3. QED
  BY <1>1, <1>2, NextIsServerOrEnvironment

\* ipcSendMessage gives the broadcast that is under way, and to accepted clients only.
LEMMA GivenInvStep ==
  ASSUME ProcessInv, WireInv, GivenInv, SystemNext \/ UNCHANGED allVars
  PROVE  GivenInv'
<1>0. /\ LinkType /\ TrafficType
      /\ \A c \in Conns : peer[c] = "none" => link[c] = "none"
  BY DEF ProcessInv, TypeOK, SocketInv
<1> USE DEF GivenInv
<1>1. CASE Environment
  BY <1>0, <1>1, EnvironmentFrame DEF Connects, Sending
<1>2. CASE ServerSide(ServerAction)
  <2>0. /\ ServerStep
        /\ \A c \in Conns : link'[c] = link[c] \/ Accepts(c) \/ Ends(c)
    BY <1>2, ServerActionIsStep, ServerConnections DEF ServerSide
  <2>1. ASSUME UNCHANGED <<unread, got>>
        PROVE  \A c \in Conns :
                 link'[c] \in {"none", "queued"} => unread'[c] = 0 /\ got'[c] = << >>
    BY <1>0, <2>0, <2>1 DEF Accepts, Ends
  <2>2. CASE UNCHANGED traffic /\ (Sending' => Sending)
             /\ (pc' = "send_lock" => pc = "send_lock" \/ nsent < MaxSends)
    BY <2>1, <2>2
  <2>3. CASE Call
    BY <2>2, <2>3 DEF Call, CallServerStart, CallSendMessage, CallServerStop, Return, Sending
  <2>4. CASE StartSteps
    BY <2>2, <2>4 DEF StartSteps, AddServer, StartThread, SetThreadRunning, WakeThread, Goto,
       Return, Sending
  <2>5. CASE SendLock
    <3>1. UNCHANGED <<unread, got, cut, joined>> /\ pc' # "send_lock"
          /\ nsent' \in {nsent, nsent + 1} /\ (Sending' => nsent' = nsent + 1)
      BY <2>5 DEF SendLock, Return, Sending
    <3>2. nsent \in Nat /\ nsent' \in Nat /\ nsent < MaxSends
      BY <1>0, <2>5, <3>1 DEF SendLock, TrafficType
    <3>3. 1 .. nsent \subseteq 1 .. nsent' /\ nsent' <= MaxSends /\ nsent <= nsent'
      BY <3>1, <3>2, DataType
    <3>4. \A c \in Conns : joined'[c] <= nsent' /\ got'[c] \in Seq(1 .. nsent')
      <4>1. ASSUME NEW c \in Conns PROVE got[c] \in Seq(1 .. nsent')
        BY <3>3, SeqMonotonic
      <4>2. ASSUME NEW c \in Conns PROVE joined[c] <= nsent'
        BY <1>0, <3>2, <3>3 DEF TrafficType
      <4>3. QED
        BY <3>1, <4>1, <4>2
    <3>5. Sending' => nsent' # 0 /\ nsent' \notin cut
      BY <3>1, <3>2
    <3>6. QED
      BY <2>1, <3>1, <3>3, <3>4, <3>5
  <2>6. CASE SendBroken
    <3>1. UNCHANGED <<unread, got, joined, nsent>> /\ cut' = cut \cup {nsent} /\ ~Sending'
          /\ Sending /\ pc' = "idle"
      BY <2>6 DEF SendBroken, SendFails, Return, Sending
    <3>2. nsent \in 1 .. nsent
      BY <1>0, <3>1 DEF TrafficType
    <3>3. QED
      BY <2>1, <3>1, <3>2
  <2>7. CASE SendBlocks \/ SendDone
    BY <2>2, <2>7 DEF SendBlocks, SendDone, Goto, Return, Sending
  <2>8. CASE StopSteps
    BY <2>2, <2>8, StopFrame DEF StopSteps, RemoveServer, DeinitFlag, DeinitCancel, DeinitJoin,
       DeinitClear, Goto, Return, Sending
  <2>9. CASE ThreadStep
    <3>1. UNCHANGED <<pc, unread, got, cut, nsent>>
      BY <2>9, ThreadFrame
    <3>2. \A c \in Conns : joined'[c] \in {joined[c], nsent}
      BY <1>0, <2>9, ThreadLinks DEF AcceptClient, CloseClient, CloseFd, Waiting, TrafficType
    <3>3. \A c \in Conns : joined'[c] <= nsent
      <4>1. nsent <= nsent /\ \A c \in Conns : joined[c] <= nsent
        BY <1>0 DEF TrafficType
      <4>2. QED
        BY <3>2, <4>1, Zenon
    <3>4. \A c \in Conns : link'[c] \in {"none", "queued"} => unread'[c] = 0 /\ got'[c] = << >>
      BY <2>1, <3>1
    <3>5. QED
      BY <3>1, <3>3, <3>4 DEF Sending
  <2>10. CASE Dies
    BY <2>2, <2>10 DEF Dies, ProcessDies, Return, Sending
  <2>11. CASE SendWrite
    <3>1. Sending /\ Sending' /\ UNCHANGED <<link, cut, joined, nsent>> /\ pc' # "send_lock"
      BY <2>11 DEF SendWrite, Sending
    <3>2. CASE UNCHANGED <<unread, got>>
      BY <2>1, <3>1, <3>2
    <3>3. ASSUME NEW c \in Conns, Writes(c) PROVE GivenInv'
      <4>1. c # None /\ link[c] = "open"
        BY <3>3, DescriptorsDiffer DEF ProcessInv, SlotsSound, Writes
      <4>2. nsent \in 1 .. nsent
        BY <1>0, <3>1 DEF TrafficType
      <4>3. /\ \A d \in Conns : d # c => got'[d] = got[d] /\ unread'[d] = unread[d]
            /\ got'[c] = Append(got[c], nsent)
        BY <1>0, <3>3 DEF TrafficType, Writes
      <4>4. got'[c] \in Seq(1 .. nsent)
        BY <4>2, <4>3
      <4>5. QED
        BY <3>1, <4>1, <4>3, <4>4
    <3>4. QED
      BY <2>0, <3>2, <3>3, ServerConnections
  <2>12. QED
    BY <2>0, <2>3, <2>4, <2>5, <2>6, <2>7, <2>8, <2>9, <2>10, <2>11 DEF ServerStep, SendLive
<1>3. QED
  BY <1>1, <1>2, NextIsServerOrEnvironment, Zenon

-----------------------------------------------------------------------------
(* The two ends of a connection *)

\* Structures of PoolSize fields, counted.
LEMMA StructuresType ==
  ASSUME NEW n \in Nat
  PROVE  /\ n * Client!PoolSize \in Nat
         /\ (n + 1) * Client!PoolSize = n * Client!PoolSize + Client!PoolSize
         /\ n > 0 => /\ (n - 1) * Client!PoolSize = n * Client!PoolSize - Client!PoolSize
                     /\ n * Client!PoolSize <= Client!PoolSize => n = 1
<1>1. PICK p \in Nat : p = Client!PoolSize /\ p >= 1
  BY FieldsType
<1>2. n * p \in Nat /\ (n + 1) * p = n * p + p
  OBVIOUS
<1>3. ASSUME n > 0 PROVE (n - 1) * p = n * p - p /\ (n * p <= p => n = 1)
  <2>1. (n - 1) * p = n * p - p
    OBVIOUS
  <2>2. ASSUME n # 1 PROVE n * p > p
    <3>1. n >= 2 /\ n - 2 \in Nat
      BY <1>3, <2>2
    <3>2. (n - 2) * p >= 0 /\ n * p = (n - 2) * p + 2 * p
      BY <1>1, <3>1
    <3>3. QED
      BY <1>1, <1>2, <3>2
  <2>3. QED
    BY <1>1, <1>2, <2>1, <2>2
<1>4. QED
  BY <1>1, <1>2, <1>3

\* The streams of the client and what was sent on them.
LEMMA ClientTypes ==
  Client!IndInv => /\ server \in [Client!Fds -> {"none", "up", "closed"}]
                   /\ stream \in [Client!Fds -> Seq(Values)]
                   /\ sent \in [Client!Fds -> Seq([Fields -> Values])]
  BY DEF Client!IndInv, Client!TypeOK, Client!LinkType

\* With one usage type a client has one connection at a time.
OneConnection ==
  \A d, e \in Client!Fds : server[d] # "none" /\ server[e] # "none" => d = e
LEMMA ClientHasOneConnection == Client!IndInv => OneConnection
<1> SUFFICES ASSUME Client!IndInv, NEW d \in Client!Fds, NEW e \in Client!Fds,
                    server[d] # "none", server[e] # "none"
             PROVE  d = e
  BY DEF OneConnection
<1>1. PICK i \in Client!InUse : info[i].fd = d
  BY DEF Client!IndInv, Client!NothingLeaks
<1>2. PICK j \in Client!InUse : info[j].fd = e
  BY DEF Client!IndInv, Client!NothingLeaks
<1>3. i = j
  BY <1>1, <1>2 DEF Client!InUse, Client!Slots
<1>4. QED
  BY <1>1, <1>2, <1>3

\* What EndsAgree says of a connection that does not follow from the invariants of the two
\* processes, and of the connections that the server holds.
Live(c) == link[c] \in {"queued", "open"}
Agree(fd) ==
  /\ peer[wire[fd]] = "up"
  /\ server[fd] = "up" <=> Live(wire[fd])
  /\ Len(stream[fd]) = unread[wire[fd]] * Client!PoolSize
  /\ Len(sent[fd]) = Len(got[wire[fd]])
Wires ==
  /\ wire \in [Client!Fds -> Own \cup {None}]
  /\ \A fd \in Client!Fds : wire[fd] = None <=> server[fd] = "none"
  /\ \A fd \in Wired : Agree(fd)
  /\ \A c \in Own : peer[c] = "up" /\ Live(c) => \E fd \in Wired : wire[fd] = c

LEMMA WiresSuffice ==
  ProcessInv /\ Client!IndInv /\ ServerLife /\ Wires => WireInv /\ EndsAgree
<1> SUFFICES ASSUME ProcessInv, Client!IndInv, ServerLife, Wires PROVE WireInv /\ EndsAgree
  OBVIOUS
<1>1. OneConnection
  BY ClientHasOneConnection
<1>2. WireInv
  BY <1>1 DEF Wires, WireInv, Wired, OneConnection
<1>3. ASSUME NEW fd \in Wired
      PROVE  /\ \E i \in Client!InUse : info[i].fd = fd
             /\ link[wire[fd]] = "open" /\ usage = IcService => wire[fd] \in Subscribed
  <2>1. fd \in Client!Fds /\ server[fd] # "none"
    BY DEF Wires, Wired
  <2>2. wire[fd] \in Conns /\ wire[fd] # None
    BY SystemConstants DEF Wires, Wired
  <2>3. ASSUME link[wire[fd]] = "open", usage = IcService PROVE wire[fd] \in Subscribed
    <3>1. usage # None
      BY <2>3, IcServiceType, DescriptorsDiffer
    <3>2. on[wire[fd]] = listenFd
      BY <2>2, <2>3, <3>1 DEF ServerLife
    <3>3. PICK i \in Slots : clientFd[i] = wire[fd]
      BY <2>2, <2>3, <3>1, <3>2 DEF ProcessInv, NoClientForgotten
    <3>4. QED
      BY <2>2, <3>3 DEF Subscribed
  <2>4. QED
    BY <2>1, <2>3 DEF Client!IndInv, Client!NothingLeaks
<1>4. QED
  BY <1>2, <1>3 DEF Wires, Agree, Live, EndsAgree

LEMMA WiresNeeded == WireInv /\ EndsAgree => Wires
  BY DEF WireInv, EndsAgree, Wires, Agree, Live

\* What the server writes goes behind what is in the stream.
LEMMA SentLength ==
  ASSUME Client!IndInv, NEW fd \in Client!Fds, NEW k \in 1 .. Len(Data),
         Client!ServerSends(fd, Data[k], Client!PoolSize)
  PROVE  /\ Len(stream'[fd]) = Len(stream[fd]) + Client!PoolSize
         /\ Len(sent'[fd]) = Len(sent[fd]) + 1
<1> DEFINE m == Data[k]
           part == SubSeq(m, 1, Client!PoolSize)
<1>1. /\ stream \in [Client!Fds -> Seq(Values)] /\ stream[fd] \in Seq(Values)
      /\ sent \in [Client!Fds -> Seq([Fields -> Values])] /\ sent[fd] \in Seq([Fields -> Values])
  BY ClientTypes
<1>2. m \in {Data[j] : j \in 1 .. Len(Data)} /\ Client!PoolSize \in {Cardinality(Fields)}
  BY FieldsType
<1>3. part \in Seq(Values) /\ Len(part) = Client!PoolSize /\ m \in [Fields -> Values]
  BY <1>2, ClientAssumptions, Client!MessageType
<1>4. stream'[fd] = stream[fd] \o part /\ sent'[fd] = Append(sent[fd], m)
  BY <1>1 DEF Client!ServerSends
<1> HIDE DEF m, part
<1>5. Len(stream[fd] \o part) = Len(stream[fd]) + Len(part)
  BY <1>1, <1>3, ConcatProperties
<1>6. Len(Append(sent[fd], m)) = Len(sent[fd]) + 1
  BY <1>1, <1>3, AppendProperties
<1>7. QED
  BY <1>3, <1>4, <1>5, <1>6, Zenon

\* What the client sees of the server's steps: nothing, a message or a hangup.
Quiet(fd) ==
  /\ unread'[wire[fd]] = unread[wire[fd]] /\ got'[wire[fd]] = got[wire[fd]]
  /\ server[fd] = "up" => link'[wire[fd]] \notin {"shut", "closed"}
Sends(fd) == Writes(wire[fd]) /\ Client!ServerSends(fd, Data[nsent], Client!PoolSize)
HangsUp(fd) ==
  /\ unread'[wire[fd]] = unread[wire[fd]] /\ got'[wire[fd]] = got[wire[fd]]
  /\ server[fd] = "up" /\ link'[wire[fd]] \in {"shut", "closed"} /\ Client!ServerCloses(fd)

LEMMA ServerEvents ==
  ASSUME ProcessInv, Wires, ServerSide(ServerAction)
  PROVE  \/ UNCHANGED clientVars /\ \A fd \in Wired : Quiet(fd)
         \/ \E fd \in Wired : Sends(fd) \/ HangsUp(fd)
<1>1. unread \in [Conns -> Nat] /\ got \in [Conns -> Seq(Nat)]
  BY DEF ProcessInv, TypeOK, TrafficType
<1>2. UNCHANGED <<unread, got>> \/ \E c \in Conns : Writes(c)
  BY ServerActionIsStep, ServerConnections DEF ServerSide
<1>3. \A fd \in Wired : wire[fd] \in Conns /\ Agree(fd)
  BY SystemConstants DEF Wires, Wired
<1>4. ASSUME NEW fd \in Wired, ~(unread'[wire[fd]] > unread[wire[fd]])
      PROVE  unread'[wire[fd]] = unread[wire[fd]] /\ got'[wire[fd]] = got[wire[fd]]
  <2>1. CASE UNCHANGED <<unread, got>>
    BY <2>1
  <2>2. ASSUME NEW c \in Conns, Writes(c)
        PROVE  unread'[wire[fd]] = unread[wire[fd]] /\ got'[wire[fd]] = got[wire[fd]]
    BY <1>1, <1>3, <1>4, <2>2 DEF Writes
  <2>3. QED
    BY <1>2, <2>1, <2>2
<1>5. ASSUME NEW fd \in Wired, unread'[wire[fd]] > unread[wire[fd]] PROVE Writes(wire[fd])
  <2>0. unread[wire[fd]] \in Nat
    BY <1>1, <1>3
  <2>1. PICK c \in Conns : Writes(c)
    <3>1. CASE UNCHANGED <<unread, got>>
      BY <1>5, <2>0, <3>1
    <3>2. QED
      BY <1>2, <3>1
  <2>2. CASE c # wire[fd]
    <3>1. unread[wire[fd]] > unread[wire[fd]]
      BY <1>1, <1>3, <1>5, <2>1, <2>2 DEF Writes
    <3>2. QED
      BY <2>0, <3>1
  <2>3. QED
    BY <2>1, <2>2
<1>6. CASE UNCHANGED clientVars /\ \A fd \in Wired :
             /\ ~(unread'[wire[fd]] > unread[wire[fd]])
             /\ ~(server[fd] = "up" /\ link'[wire[fd]] \in {"shut", "closed"})
  BY <1>4, <1>6 DEF Quiet
<1>7. ASSUME NEW fd \in Wired, unread'[wire[fd]] > unread[wire[fd]],
             Client!ServerSends(fd, Data[nsent], Client!PoolSize)
      PROVE  Sends(fd)
  BY <1>5, <1>7 DEF Sends
<1>8. ASSUME NEW fd \in Wired, server[fd] = "up", link'[wire[fd]] \in {"shut", "closed"},
             Client!ServerCloses(fd)
      PROVE  HangsUp(fd)
  <2>1. Live(wire[fd]) /\ link'[wire[fd]] # link[wire[fd]]
    BY <1>3, <1>8 DEF Agree, Live
  <2>2. ~\E c \in Conns : Writes(c)
    BY <2>1 DEF Writes
  <2>3. QED
    BY <1>2, <1>8, <2>2 DEF HangsUp
<1>9. QED
  BY <1>6, <1>7, <1>8 DEF ServerSide, Wired

\* After any of them both see the same.
LEMMA ServerKeepsWires ==
  ASSUME ProcessInv, Client!IndInv, GivenInv, Wires, ServerSide(ServerAction)
  PROVE  Wires'
<1>1. /\ OneConnection /\ server \in [Client!Fds -> {"none", "up", "closed"}]
      /\ unread \in [Conns -> Nat] /\ got \in [Conns -> Seq(Nat)]
  BY ClientHasOneConnection, ClientTypes DEF ProcessInv, TypeOK, TrafficType
<1>2. /\ peer' = peer
      /\ \A c \in Conns : link'[c] = link[c] \/ Accepts(c) \/ Ends(c)
  BY ServerActionIsStep, ServerConnections DEF ServerSide
<1>3. \A fd \in Wired : /\ fd \in Client!Fds /\ wire[fd] \in Own /\ wire[fd] \in Conns
                       /\ server[fd] # "none" /\ Agree(fd)
  BY SystemConstants DEF Wires, Wired
<1>4. wire' = wire /\ Wired' = Wired
  BY DEF ServerSide, Wired
<1>5. \A c \in Conns : Live(c)' => Live(c)
  BY <1>2 DEF Live, Accepts, Ends
<1>6. \A c \in Own : peer'[c] = "up" /\ Live(c)' => \E fd \in Wired' : wire'[fd] = c
  BY <1>2, <1>4, <1>5, SystemConstants DEF Wires
<1> SUFFICES /\ \A fd \in Client!Fds : server'[fd] = "none" <=> server[fd] = "none"
             /\ \A fd \in Wired : Agree(fd)'
  BY <1>4, <1>6 DEF Wires
<1>7. CASE UNCHANGED clientVars /\ \A fd \in Wired : Quiet(fd)
  <2>1. \A fd \in Wired : Live(wire[fd])' <=> Live(wire[fd])
    BY <1>2, <1>3, <1>4, <1>5, <1>7 DEF Live, Agree, Accepts, Ends, Quiet
  <2>2. QED
    BY <1>2, <1>3, <1>4, <1>7, <2>1 DEF Agree, clientVars, Quiet
<1>8. ASSUME NEW fd \in Wired, Sends(fd)
      PROVE  /\ \A d \in Client!Fds : server'[d] = "none" <=> server[d] = "none"
             /\ \A d \in Wired : Agree(d)'
  <2>1. PICK c \in Conns : c = wire[fd] /\ Writes(c)
    BY <1>3, <1>8 DEF Sends
  <2>2. /\ Sending /\ link' = link /\ unread' = [unread EXCEPT ![c] = @ + 1]
        /\ got' = [got EXCEPT ![c] = Append(@, nsent)]
    BY <2>1 DEF Writes
  <2>3. nsent \in 1 .. Len(Data)
    BY <2>2, DataType DEF GivenInv, ProcessInv, TypeOK, TrafficType
  <2>4. Client!ServerSends(fd, Data[nsent], Client!PoolSize)
    BY <1>8 DEF Sends
  <2>5. /\ Len(stream'[fd]) = Len(stream[fd]) + Client!PoolSize
        /\ Len(sent'[fd]) = Len(sent[fd]) + 1
    BY <1>3, <2>3, <2>4, SentLength
  <2>6. Len(got'[c]) = Len(got[c]) + 1
    <3>1. got'[c] = Append(got[c], nsent) /\ got[c] \in Seq(Nat) /\ nsent \in Nat
      BY <1>1, <2>2 DEF ProcessInv, TypeOK, TrafficType
    <3>2. QED
      BY <3>1, AppendProperties
  <2>7. unread'[c] * Client!PoolSize = unread[c] * Client!PoolSize + Client!PoolSize
    BY <1>1, <2>2, StructuresType
  <2>8. server' = server
    BY <2>4 DEF Client!ServerSends
  <2>9. Agree(fd)'
    BY <1>2, <1>3, <1>4, <2>1, <2>2, <2>5, <2>6, <2>7, <2>8 DEF Agree, Live
  <2>10. \A d \in Wired : d = fd
    BY <1>1, <1>3 DEF OneConnection
  <2>11. QED
    BY <2>8, <2>9, <2>10
<1>9. ASSUME NEW fd \in Wired, HangsUp(fd)
      PROVE  /\ \A d \in Client!Fds : server'[d] = "none" <=> server[d] = "none"
             /\ \A d \in Wired : Agree(d)'
  <2>1. server' = [server EXCEPT ![fd] = "closed"] /\ stream' = stream /\ sent' = sent
    BY <1>9 DEF HangsUp, Client!ServerCloses
  <2>2. Agree(fd)'
    BY <1>1, <1>2, <1>3, <1>4, <1>9, <2>1 DEF HangsUp, Agree, Live
  <2>3. \A d \in Wired : d = fd
    BY <1>1, <1>3 DEF OneConnection
  <2>4. QED
    BY <1>1, <1>3, <2>1, <2>2, <2>3
<1>10. QED
  BY <1>7, <1>8, <1>9, ServerEvents

\* What a start of a program, another client or the second server program does is not about
\* the connections of the client.
LEMMA OthersKeepWires ==
  ASSUME ProcessInv, Wires, RunServer \/ RunClient \/ Others \/ UNCHANGED allVars
  PROVE  Wires'
<1>1. UNCHANGED <<clientVars, wire>>
  BY DEF RunServer, RunClient, Others, allVars
<1>2. server' = server /\ stream' = stream /\ sent' = sent /\ wire' = wire /\ Wired' = Wired
  BY <1>1 DEF clientVars, Wired
<1>3. \A c \in Own : /\ peer'[c] = peer[c] /\ link'[c] = link[c]
                     /\ unread'[c] = unread[c] /\ got'[c] = got[c]
  <2>1. CASE RunServer \/ RunClient \/ UNCHANGED allVars \/ OtherServerFails
    BY <2>1 DEF RunServer, RunClient, allVars, OtherServerFails
  <2>2. ASSUME NEW d \in Conns \ Own, Connect(d, IcService) \/ Disconnect(d) \/ ClientReads(d)
        PROVE  \A c \in Own : /\ peer'[c] = peer[c] /\ link'[c] = link[c]
                             /\ unread'[c] = unread[c] /\ got'[c] = got[c]
    <3>1. LinkType /\ unread \in [Conns -> Nat] /\ Own \subseteq Conns
      BY SystemConstants DEF ProcessInv, TypeOK, TrafficType
    <3>2. QED
      BY <2>2, <3>1 DEF Connect, Disconnect, ClientReads, LinkType
  <2>3. QED
    BY <2>1, <2>2 DEF Others, OtherClients
<1>4. \A fd \in Wired : wire[fd] \in Own
  BY DEF Wires, Wired
<1>5. QED
  BY <1>2, <1>3, <1>4 DEF Wires, Agree, Live

\* What the client process does to its connections, its end included.
Exits == server' = [fd \in Client!Fds |-> "none"]
LEMMA ClientConnections ==
  ASSUME Client!IndInv, ClientSide(ClientAction)
  PROVE  \/ UNCHANGED <<server, stream, sent>>
         \/ \E fd \in Client!Fds : Client!Opens(fd) \/ Client!Closes(fd) \/ Client!Receives(fd)
         \/ Exits
<1>1. CASE Client!ProcessStep
  BY <1>1, ClientAssumptions, Client!ConnectionStep
<1>2. CASE ClientProcessDies
  BY <1>2 DEF ClientProcessDies, Exits
<1>3. QED
  BY <1>1, <1>2, ClientActionIsStep DEF ClientSide

\* What the server sees of the client's steps: nothing, a connect(), a close() or a recv().
OpensTo(fd, c) ==
  /\ Client!Opens(fd) /\ Connect(c, IcService)
  /\ wire' = [wire EXCEPT ![fd] = c]
Leaves(fd) == HungUp(fd) /\ \A d \in Client!Fds : server'[d] = "none"
Reads(fd) == Client!Receives(fd) /\ ClientReads(wire[fd]) /\ wire' = wire
NotConnected ==
  Wired = {} /\ UNCHANGED <<serverVars, wire>> /\ \A d \in Client!Fds : server'[d] = "none"

LEMMA ClientEvents ==
  ASSUME Client!IndInv, Client!DataInv, Wires, ClientSide(ClientAction)
  PROVE  \/ UNCHANGED <<serverVars, wire, server, stream, sent>> \/ NotConnected
         \/ \E fd \in Client!Fds, c \in Own : OpensTo(fd, c)
         \/ \E fd \in Wired : Leaves(fd) \/ Reads(fd)
<1> DEFINE opened == {fd \in Client!Fds : server[fd] = "none" /\ server'[fd] # "none"}
           closed == {fd \in Wired : server'[fd] = "none"}
           read == {fd \in Wired \ closed : stream'[fd] # stream[fd]}
<1>1. \/ opened = {} /\ closed = {} /\ read = {} /\ UNCHANGED <<serverVars, wire>>
      \/ \E fd \in opened : Connected(fd)
      \/ \E fd \in closed : HungUp(fd)
      \/ \E fd \in read : ClientReads(wire[fd]) /\ UNCHANGED wire
  BY DEF ClientSide
<1>2. /\ OneConnection /\ server \in [Client!Fds -> {"none", "up", "closed"}]
      /\ stream \in [Client!Fds -> Seq(Values)]
  BY ClientHasOneConnection, ClientTypes
<1>3. /\ \A fd \in Wired : fd \in Client!Fds /\ server[fd] # "none"
      /\ \A fd \in Client!Fds : server[fd] # "none" => fd \in Wired
  BY DEF Wires, Wired
<1>4. CASE UNCHANGED <<server, stream, sent>>
  <2>1. opened = {} /\ closed = {} /\ read = {}
    BY <1>3, <1>4
  <2>2. QED
    BY <1>1, <1>4, <2>1
<1>5. ASSUME NEW fd \in Client!Fds, Client!Opens(fd) PROVE \E c \in Own : OpensTo(fd, c)
  <2>1. /\ server[fd] = "none" /\ server'[fd] = "up" /\ stream' = stream
        /\ \A d \in Client!Fds : d # fd => server'[d] = server[d]
    BY <1>2, <1>5 DEF Client!Opens
  <2>2. opened = {fd} /\ closed = {} /\ read = {}
    BY <1>3, <2>1
  <2>3. Connected(fd)
    BY <1>1, <2>2
  <2>4. QED
    BY <1>5, <2>3 DEF Connected, OpensTo
<1>6. ASSUME NEW fd \in Client!Fds, Client!Closes(fd) PROVE \E d \in Wired : Leaves(d)
  <2>1. fd \in Wired /\ \A d \in Wired : d = fd
    BY <1>2, <1>3, <1>6 DEF OneConnection, Client!Closes
  <2>2. \A d \in Client!Fds : server'[d] = "none"
    BY <1>2, <1>3, <1>6, <2>1 DEF Client!Closes
  <2>3. opened = {} /\ closed = {fd} /\ read = {}
    BY <2>1, <2>2
  <2>4. HungUp(fd)
    BY <1>1, <2>3
  <2>5. QED
    BY <2>1, <2>2, <2>4 DEF Leaves
<1>7. CASE Exits
  <2>1. \A d \in Client!Fds : server'[d] = "none"
    BY <1>7 DEF Exits
  <2>2. opened = {} /\ closed = Wired /\ read = {}
    BY <1>3, <2>1
  <2>3. CASE Wired = {}
    BY <1>1, <2>1, <2>2, <2>3 DEF NotConnected
  <2>4. CASE Wired # {}
    <3>1. PICK fd \in Wired : HungUp(fd)
      BY <1>1, <2>2, <2>4
    <3>2. QED
      BY <2>1, <3>1 DEF Leaves
  <2>5. QED
    BY <2>3, <2>4
<1>8. ASSUME NEW fd \in Client!Fds, Client!Receives(fd) PROVE fd \in Wired /\ Reads(fd)
  <2>1. /\ stream[fd] # << >> /\ stream' = [stream EXCEPT ![fd] = Client!Rest(@)]
        /\ server' = server /\ sent' = sent
    BY <1>8 DEF Client!Receives
  <2>2. fd \in Wired /\ \A d \in Wired : d = fd
    <3>1. server[fd] # "none"
      BY <2>1 DEF Client!DataInv, Client!StreamInv
    <3>2. QED
      BY <1>2, <1>3, <3>1 DEF OneConnection
  <2>3. Len(stream[fd]) \in Nat \ {0}
    BY <1>2, <2>1, EmptySeq, LenProperties
  <2>4. Len(stream'[fd]) = IF Len(stream[fd]) <= Client!PoolSize THEN 0
                           ELSE Len(stream[fd]) - Client!PoolSize
    BY <1>2, <2>1, ClientAssumptions, Client!RestType
  <2>5. stream'[fd] # stream[fd]
    BY <2>3, <2>4, FieldsType
  <2>6. opened = {} /\ closed = {} /\ read = {fd}
    BY <1>3, <2>1, <2>2, <2>5
  <2>7. ClientReads(wire[fd]) /\ wire' = wire
    BY <1>1, <2>6
  <2>8. QED
    BY <1>8, <2>2, <2>7 DEF Reads
<1>9. QED
  BY <1>4, <1>5, <1>6, <1>7, <1>8, ClientConnections

\* After any of them both see the same.
LEMMA ClientKeepsWires ==
  ASSUME ProcessInv, Client!IndInv, Client!DataInv, Client!IndInv', GivenInv, Wires,
         ClientSide(ClientAction)
  PROVE  Wires'
<1>2. /\ OneConnection /\ server \in [Client!Fds -> {"none", "up", "closed"}]
      /\ stream \in [Client!Fds -> Seq(Values)] /\ sent \in [Client!Fds -> Seq([Fields -> Values])]
      /\ unread \in [Conns -> Nat] /\ got \in [Conns -> Seq(Nat)] /\ LinkType
  BY ClientHasOneConnection, ClientTypes DEF ProcessInv, TypeOK, TrafficType
<1>3. \A fd \in Wired : /\ fd \in Client!Fds /\ wire[fd] \in Own /\ wire[fd] \in Conns
                       /\ server[fd] # "none" /\ Agree(fd)
  BY SystemConstants DEF Wires, Wired
<1>4. CASE UNCHANGED <<serverVars, wire, server, stream, sent>>
  BY <1>4 DEF Wires, Wired, Agree, Live
<1>5. CASE NotConnected
  <2>1. \A d \in Client!Fds : wire[d] = None
    BY <1>5 DEF NotConnected, Wired
  <2>2. QED
    BY <1>5, <2>1 DEF NotConnected, Wires, Wired, Live
<1>6. ASSUME NEW fd \in Client!Fds, NEW c \in Own, OpensTo(fd, c) PROVE Wires'
  <2>1. /\ server[fd] = "none" /\ server'[fd] = "up" /\ stream' = stream /\ sent' = sent
        /\ \A d \in Client!Fds : d # fd => server'[d] = server[d]
    BY <1>2, <1>6 DEF OpensTo, Client!Opens
  <2>2. Connect(c, IcService) /\ wire' = [wire EXCEPT ![fd] = c]
    BY <1>6 DEF OpensTo
  <2>3. /\ c \in Conns /\ c # None /\ peer[c] = "none" /\ peer' = [peer EXCEPT ![c] = "up"]
        /\ link' = [link EXCEPT ![c] = "queued"] /\ unread' = unread /\ got' = got
    BY <2>2, SystemConstants, DescriptorsDiffer DEF Connect
  <2>4. unread[c] = 0 /\ got[c] = << >>
    BY <2>3 DEF GivenInv, ProcessInv, SocketInv
  <2>5. stream[fd] = << >> /\ sent[fd] = << >>
    BY <2>1 DEF Client!DataInv, Client!StreamInv
  <2>6. \A d \in Wired' : d = fd
    <3>1. OneConnection'
      <4>1. (Client!IndInv => OneConnection)'
        BY ClientHasOneConnection, PTL
      <4>2. QED
        BY <4>1
    <3>2. \A d \in Client!Fds : d # fd => server'[d] = "none"
      BY <2>1, <3>1 DEF OneConnection
    <3>3. \A d \in Client!Fds : d # fd => wire'[d] = wire[d] /\ server[d] = "none"
      BY <2>1, <2>2, <3>2 DEF Wires
    <3>4. QED
      BY <3>3 DEF Wired, Wires
  <2>7. wire'[fd] = c /\ wire' \in [Client!Fds -> Own \cup {None}] /\ fd \in Wired'
    BY <2>2, <2>3 DEF Wires, Wired
  <2>8. Agree(fd)'
    <3>1. Len(got'[c]) = 0
      BY <2>3, <2>4
    <3>2. unread'[c] * Client!PoolSize = 0 /\ Len(stream'[fd]) = 0 /\ Len(sent'[fd]) = 0
      BY <2>1, <2>3, <2>4, <2>5, FieldsType
    <3>3. peer'[c] = "up" /\ Live(c)'
      BY <1>2, <2>3 DEF Live, LinkType
    <3>4. QED
      BY <2>1, <2>7, <3>1, <3>2, <3>3 DEF Agree, Live
  <2>9. \A d \in Client!Fds : wire'[d] = None <=> server'[d] = "none"
    BY <2>1, <2>2, <2>3, <2>7 DEF Wires
  <2>10. \A d \in Own : peer'[d] = "up" /\ Live(d)' => \E e \in Wired' : wire'[e] = d
    <3>1. ASSUME NEW d \in Own, d # c, peer'[d] = "up", Live(d)'
          PROVE  \E e \in Wired' : wire'[e] = d
      <4>1. peer[d] = "up" /\ Live(d)
        BY <1>2, <2>3, <3>1 DEF Live, LinkType
      <4>2. PICK e \in Wired : wire[e] = d
        BY <3>1, <4>1 DEF Wires
      <4>3. e # fd
        BY <1>3, <2>1
      <4>4. e \in Wired' /\ wire'[e] = d
        BY <2>2, <4>2, <4>3 DEF Wired, Wires
      <4>5. QED
        BY <4>4
    <3>2. QED
      BY <2>7, <3>1
  <2>11. QED
    BY <2>6, <2>7, <2>8, <2>9, <2>10 DEF Wires
<1>7. ASSUME NEW fd \in Wired, Leaves(fd) PROVE Wires'
  <2>1. \A d \in Wired : d = fd
    BY <1>2, <1>3 DEF OneConnection
  <2>2. wire' = [wire EXCEPT ![fd] = None]
    BY <1>7 DEF Leaves, HungUp
  <2>3. \A d \in Client!Fds : wire'[d] = None
    BY <2>1, <2>2 DEF Wires, Wired
  <2>4. wire' \in [Client!Fds -> Own \cup {None}] /\ Wired' = {}
    BY <2>2, <2>3 DEF Wires, Wired
  <2>5. ASSUME NEW c \in Own, peer'[c] = "up", Live(c)' PROVE FALSE
    <3>1. peer[c] = "up" /\ Live(c) /\ (Live(wire[fd]) => c # wire[fd])
      <4>1. CASE Live(wire[fd])
        <5>1. peer' = [peer EXCEPT ![wire[fd]] = "gone"] /\ link' = link
          BY <1>7, <4>1 DEF Leaves, HungUp, Live, Disconnect
        <5>2. QED
          BY <1>2, <1>3, <2>5, <5>1 DEF Live, LinkType
      <4>2. CASE ~Live(wire[fd])
        <5>1. peer' = peer /\ link' = link
          BY <1>7, <4>2 DEF Leaves, HungUp, Live
        <5>2. QED
          BY <2>5, <4>2, <5>1 DEF Live
      <4>3. QED
        BY <4>1, <4>2
    <3>2. PICK d \in Wired : wire[d] = c
      BY <2>5, <3>1 DEF Wires
    <3>3. QED
      BY <2>1, <3>1, <3>2
  <2>6. QED
    BY <1>7, <2>3, <2>4, <2>5 DEF Leaves, Wires
<1>8. ASSUME NEW fd \in Wired, Reads(fd) PROVE Wires'
  <2>1. /\ stream[fd] # << >> /\ stream' = [stream EXCEPT ![fd] = Client!Rest(@)]
        /\ server' = server /\ sent' = sent
    BY <1>8 DEF Reads, Client!Receives
  <2>2. \A d \in Wired : d = fd
    BY <1>2, <1>3 DEF OneConnection
  <2>3. PICK c \in Conns : c = wire[fd] /\ Len(stream[fd]) = unread[c] * Client!PoolSize
    BY <1>3 DEF Agree
  <2>4. ClientReads(c) /\ wire' = wire
    BY <1>8, <2>3 DEF Reads
  <2>5. Len(stream'[fd]) = IF Len(stream[fd]) <= Client!PoolSize THEN 0
                           ELSE Len(stream[fd]) - Client!PoolSize
    BY <1>2, <1>3, <2>1, ClientAssumptions, Client!RestType
  <2>6. /\ unread[c] \in Nat /\ unread[c] > 0 /\ unread'[c] = unread[c] - 1
        /\ UNCHANGED <<peer, link, got>>
    BY <1>2, <2>4 DEF ClientReads
  <2>7. Len(stream'[fd]) = unread'[c] * Client!PoolSize
    <3>1. /\ (unread[c] - 1) * Client!PoolSize = unread[c] * Client!PoolSize - Client!PoolSize
          /\ unread[c] * Client!PoolSize <= Client!PoolSize => unread[c] = 1
      BY <2>6, StructuresType
    <3>2. CASE Len(stream[fd]) <= Client!PoolSize
      <4>1. unread'[c] = 0 /\ Len(stream'[fd]) = 0
        BY <2>3, <2>5, <2>6, <3>1, <3>2
      <4>2. QED
        BY <4>1, FieldsType
    <3>3. CASE ~(Len(stream[fd]) <= Client!PoolSize)
      BY <2>3, <2>5, <2>6, <3>1, <3>3
    <3>4. QED
      BY <3>2, <3>3
  <2>8. Agree(fd)'
    BY <1>3, <2>1, <2>3, <2>4, <2>6, <2>7 DEF Agree, Live
  <2>9. QED
    BY <2>1, <2>2, <2>4, <2>6, <2>8 DEF Wires, Wired, Live
<1>9. QED
  BY <1>4, <1>5, <1>6, <1>7, <1>8, ClientEvents

-----------------------------------------------------------------------------
(* The theorems *)

\* The programs start with nothing connected.
LEMMA SystemInvInit == SystemInit => SystemInv
<1> SUFFICES ASSUME SystemInit PROVE SystemInv
  OBVIOUS
<1>1. ProcessInv
  BY IndInvInit DEF SystemInit, IndInv
<1>2. Client!IndInv /\ Client!DataInv
  BY ClientInvInit DEF SystemInit
<1>3. ServerLife
  BY DEF SystemInit, Init, LibraryInit, ServerLife, Sending
<1>4. GivenInv
  <2>1. /\ pc = "idle" /\ nsent = 0 /\ cut = {}
        /\ got = [c \in Conns |-> << >>] /\ unread = [c \in Conns |-> 0]
        /\ joined = [c \in Conns |-> 0]
    BY DEF SystemInit, Init, LibraryInit
  <2>2. QED
    BY <2>1, ServerConstants DEF GivenInv, Sending
<1>5. Wires
  BY DEF SystemInit, Init, Client!Init, Wires, Wired, Live
<1>6. QED
  BY <1>1, <1>2, <1>3, <1>4, <1>5, WiresSuffice DEF SystemInv

\* No step of any process breaks the invariant of the whole.
LEMMA SystemInvStep == SystemInv /\ [SystemNext]_allVars => SystemInv'
<1> SUFFICES ASSUME SystemInv, SystemNext \/ UNCHANGED allVars PROVE SystemInv'
  OBVIOUS
<1>0. /\ ProcessInv /\ Client!IndInv /\ Client!DataInv /\ ServerLife /\ GivenInv /\ WireInv
      /\ EndsAgree /\ Wires
  BY WiresNeeded DEF SystemInv
<1>1. ProcessInv' /\ Client!IndInv' /\ Client!DataInv'
  BY <1>0, ServerInvStep, ClientInvStep
<1>2. ServerLife' /\ GivenInv'
  BY <1>0, ServerLifeStep, GivenInvStep
<1>3. Wires'
  <2>1. CASE ServerSide(ServerAction)
    BY <1>0, <2>1, ServerKeepsWires
  <2>2. CASE ClientSide(ClientAction)
    BY <1>0, <1>1, <2>2, ClientKeepsWires
  <2>3. QED
    BY <1>0, <2>1, <2>2, OthersKeepWires, NextIsServerOrEnvironment DEF Environment
<1>4. WireInv' /\ EndsAgree'
  <2>1. (ProcessInv /\ Client!IndInv /\ ServerLife /\ Wires => WireInv /\ EndsAgree)'
    BY WiresSuffice, PTL
  <2>2. QED
    BY <1>1, <1>2, <1>3, <2>1
<1>5. QED
  BY <1>1, <1>2, <1>4 DEF SystemInv

\* SystemInv holds in every reachable state of the two programs, for any number of other
\* clients, of slots and of fields, whatever system calls fail, processes die and files are
\* taken away.
THEOREM SystemInvariance == SystemSpec => []SystemInv
<1>1. QED
  BY SystemInvInit, SystemInvStep, PTL DEF SystemSpec

\* The two processes agree on every connection of the client program: what one holds open
\* the other does, what one has written is what the other has received or will
\* (ipcAcceptClient, ipcSendMessage, ipcCloseClient; ipcAddClient, ipcRemoveClient,
\* ipcReceiveDataFromServer, ipcCloseConnectFromServer).
THEOREM BothEndsAgree == SystemSpec => []EndsAgree
<1>1. SystemInv => EndsAgree
  BY DEF SystemInv
<1>2. QED
  BY <1>1, SystemInvariance, PTL

\* The client library keeps its invariant with a real server at the other end, and its pools
\* hold exactly the last structure received.
THEOREM ClientStaysSound == SystemSpec => [](Client!IndInv /\ Client!PoolIsLastMessage)
<1>1. SystemInv => Client!IndInv /\ Client!PoolIsLastMessage
  BY DEF SystemInv, Client!DataInv
<1>2. QED
  BY <1>1, SystemInvariance, PTL

\* So does the server library with a real client, although another program takes the socket
\* file away: its slots, its lock and its control pipe stay sound.
THEOREM ServerStaysSound == SystemSpec => []ProcessInv
<1>1. SystemInv => ProcessInv
  BY DEF SystemInv
<1>2. QED
  BY <1>1, SystemInvariance, PTL
=============================================================================
