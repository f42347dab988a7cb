------------------------------ MODULE IpcSystem ------------------------------
(***************************************************************************)
(* A server process and a client process together, connected by the socket *)
(* file and the streams: IpcServer and IpcClient side by side, each one's  *)
(* environment replaced by what the other does.  The processes are the     *)
(* programs of ipc_unit_test, which fix the order of the API calls: start, *)
(* send or read at an operator's command, stop, exit.  Around them are     *)
(* other clients of the server, deaths of the processes at any moment, and *)
(* a second server program, whose start fails and takes the file away.     *)
(*                                                                         *)
(* The variables of IpcServer keep their names; those of IpcClient that    *)
(* would clash have a c in front.                                          *)
(***************************************************************************)
EXTENDS IpcServer

CONSTANTS
  Own,          \* the connections the client program opens, one in each of its lives
  Fields, Watched, Values, Zero, Junk, \* data structures, as in IpcClient
  Data,         \* the structures that are sent, in this order
  MaxPipe,      \* bound: no start of the client while so many wake-up bytes are unread
  MaxServers,   \* bound: lives of the server program in which it gets to listen
  Quits,        \* the programs at which 'q' is typed
  OtherServer   \* whether a second server program is started

VARIABLES
  cInited, cThreadRunning, info, cMutex, cPipe, cWatch, allocs, cPc, cArg, size, out,
  cTpc, batch, local, cCancelled, refused, server, use, stream, sent, told,
  wire,         \* the connection behind each descriptor of the client
  serverMain, clientMain \* where main() of each program is; "off": there is no process

ASSUME SystemConstants ==
  /\ Own \subseteq Conns /\ Cardinality(Usages) = 1
  /\ Cardinality(Fields) \in Nat \ {0} /\ Fields = 1 .. Cardinality(Fields)
  /\ Watched \subseteq Fields /\ Zero \in Values
  /\ None \notin [Fields -> Values \cup {Junk}]
  /\ Data \in Seq([Fields -> Values \ {Zero}]) /\ MaxSends <= Len(Data)
  /\ \A i, j \in 1 .. Len(Data) : Data[i] = Data[j] => i = j
  /\ MaxPipe \in Nat /\ MaxServers \in Nat
  /\ Quits \subseteq {"server", "client"} /\ OtherServer \in BOOLEAN

\* IPC_USAGE_TYPE_IC_SERVICE, the only one the programs use.
IcService == CHOOSE u \in Usages : TRUE

\* The client comes with its theorems (IpcClientProofs), for those about the whole.
Client == INSTANCE IpcClientProofs WITH
  FirstUsage <- IcService, Readers <- Usages, SlotNum <- 1, SysFail <- {}, CallbackErrno <- FALSE,
  Messages <- {Data[k] : k \in 1 .. Len(Data)}, Sizes <- {Cardinality(Fields)},
  inited <- cInited, threadRunning <- cThreadRunning, mutex <- cMutex, pipe <- cPipe,
  watch <- cWatch, pc <- cPc, arg <- cArg, tpc <- cTpc, cancelled <- cCancelled

serverVars == vars
clientVars == <<cInited, cThreadRunning, info, cMutex, cPipe, cWatch, allocs, cPc, cArg, size, out,
                cTpc, batch, local, cCancelled, refused, server, use, stream, sent, told>>
mains == <<serverMain, clientMain>>
allVars == <<serverVars, clientVars, wire, mains>>

SystemInit ==
  /\ Init
  /\ Client!Init
  /\ wire = [fd \in Client!Fds |-> None]
  /\ serverMain = "off" /\ clientMain = "off"

Wired == {fd \in Client!Fds : wire[fd] # None}

-----------------------------------------------------------------------------
(* What a step of one process does to the other end of its connections *)

\* A message written to the client arrives in its stream, a socket that is shut down,
\* closed or dropped from the backlog hangs up.
ServerSide(A) ==
  /\ A
  /\ UNCHANGED <<wire, clientMain>>
  /\ LET written == {fd \in Wired : unread'[wire[fd]] > unread[wire[fd]]}
         ended   == {fd \in Wired : server[fd] = "up" /\ link'[wire[fd]] \in {"shut", "closed"}}
     IN \/ written = {} /\ ended = {} /\ UNCHANGED clientVars
        \/ \E fd \in written : Client!ServerSends(fd, Data[nsent], Client!PoolSize)
        \/ \E fd \in ended : Client!ServerCloses(fd)

\* The other way round: connect(), recv() and close() of the client. connect() fails
\* unless the file is bound to a socket that listens.
Connected(fd) ==
  \E c \in {d \in Own : peer[d] = "none"} :
    Connect(c, IcService) /\ wire' = [wire EXCEPT ![fd] = c]

HungUp(fd) ==
  /\ wire' = [wire EXCEPT ![fd] = None]
  /\ IF link[wire[fd]] \in {"queued", "open"} THEN Disconnect(wire[fd])
                                              ELSE UNCHANGED serverVars

ClientSide(A) ==
  /\ A
  /\ UNCHANGED serverMain
  /\ (cPc = "start_connect" /\ cPc' = "failed") => path[IcService] \notin listening
  /\ LET opened == {fd \in Client!Fds : server[fd] = "none" /\ server'[fd] # "none"}
         closed == {fd \in Wired : server'[fd] = "none"}
         read   == {fd \in Wired \ closed : stream'[fd] # stream[fd]}
     IN \/ opened \cup closed \cup read = {} /\ UNCHANGED <<serverVars, wire>>
        \/ \E fd \in opened : Connected(fd)
        \/ \E fd \in closed : HungUp(fd)
        \/ \E fd \in read : ClientReads(wire[fd]) /\ UNCHANGED wire

-----------------------------------------------------------------------------
(* main() of ipc_unit_test_server *)

RunServer ==
  /\ serverMain = "off" /\ nsock < MaxServers
  /\ serverMain' = "start"
  /\ UNCHANGED <<serverVars, clientVars, wire, clientMain>>

\* An API function has been called and has returned.
ServerAt(step) == serverMain = step /\ pc = "idle"

\* The end of main(): the kernel closes what ipcServerStop has left open.
ExitServer ==
  /\ ServerAt("stop")
  /\ serverMain' = "off" /\ ProcessDies /\ UNCHANGED crashes

ServerCalls ==
  \/ ServerAt("start") /\ serverMain' = "started" /\ CallServerStart(IcService)
  \/ ServerAt("started") /\ ret # "OK" /\ serverMain' = "stop" /\ CallServerStop(IcService)
  \/ ExitServer

\* The commands 's' and 'q'.
ServerCommands ==
  /\ ServerAt("menu") \/ (ServerAt("started") /\ ret = "OK")
  /\ \/ serverMain' = "menu" /\ CallSendMessage(IcService)
     \/ "server" \in Quits /\ serverMain' = "stop" /\ CallServerStop(IcService)

ServerApp == /\ \/ StartSteps \/ StopSteps
                \/ SendLock \/ SendWrite \/ SendBlocks \/ SendBroken \/ SendDone
             /\ UNCHANGED serverMain
ServerThread == ThreadStep /\ UNCHANGED serverMain
ServerDies == (SendKilled \/ Crash) /\ serverMain' = "off"

-----------------------------------------------------------------------------
(* main() of ipc_unit_test_client *)

RunClient ==
  /\ clientMain = "off" /\ \E c \in Own : peer[c] = "none"
  /\ clientMain' = "start"
  /\ UNCHANGED <<serverVars, clientVars, wire, serverMain>>

ClientAt(step) == clientMain = step /\ cPc = "idle"

\* The process ends, by itself or killed: the kernel closes its socket.
ClientProcessDies ==
  /\ clientMain' = "off"
  /\ cInited' = FALSE /\ cThreadRunning' = FALSE
  /\ info' = [i \in Client!Slots |-> Client!Static] /\ allocs' = 0
  /\ cMutex' = None /\ cPipe' = 0 /\ cWatch' = {}
  /\ cPc' = "idle" /\ cArg' = None /\ size' = 0 /\ out' = None
  /\ cTpc' = "none" /\ batch' = {} /\ local' = Client!Blank
  /\ cCancelled' = FALSE /\ refused' = FALSE
  /\ server' = [fd \in Client!Fds |-> "none"] /\ use' = [fd \in Client!Fds |-> None]
  /\ stream' = [fd \in Client!Fds |-> << >>] /\ sent' = [fd \in Client!Fds |-> << >>]
  /\ told' = [i \in Client!Slots |-> Client!Zeros]

ClientCalls ==
  \/ ClientAt("start") /\ clientMain' = "started" /\ Client!CallClientStart(IcService)
  \/ ClientAt("started") /\ clientMain' = "menu" /\ Client!CallRegisterCallback(IcService)
  \/ ClientAt("failed") /\ clientMain' = "stop" /\ Client!CallClientStop(IcService)
  \/ ClientAt("stop") /\ ClientProcessDies

\* The command 'q'. The command 'r' only looks at the pool (IpcConsole).
ClientCommands ==
  /\ ClientAt("menu") /\ "client" \in Quits
  /\ clientMain' = "stop" /\ Client!CallClientStop(IcService)

\* A start that fails, or a registration that finds no entry, sends main() to its end.
ClientApp ==
  /\ Client!StartSteps \/ Client!ReadSteps \/ Client!StopSteps
  /\ LET registerFails == cPc = "register_lock" /\ Client!EntriesOf(IcService) = {}
     IN clientMain' = IF cPc' = "failed" \/ registerFails THEN "failed" ELSE clientMain
ClientThread == Client!ThreadStep /\ UNCHANGED clientMain
ClientKilled == clientMain \notin {"off", "start"} /\ ClientProcessDies

-----------------------------------------------------------------------------
(* The other processes *)

OtherClients == \E c \in Conns \ Own :
  Connect(c, IcService) \/ Disconnect(c) \/ ClientReads(c)

\* The second server program: bind() fails, and the error path unlinks the file.
OtherServerFails ==
  /\ OtherServer /\ path[IcService] # None
  /\ path' = [path EXCEPT ![IcService] = None]
  /\ UNCHANGED <<library, table, mutex, epoll, app, thread, listening, nsock, links, traffic,
                 starts, crashes>>

Others == /\ OtherClients \/ OtherServerFails
          /\ UNCHANGED <<clientVars, wire, mains>>

-----------------------------------------------------------------------------
SystemNext ==
  \/ RunServer \/ RunClient \/ Others
  \/ ServerSide(ServerCalls \/ ServerCommands \/ ServerApp \/ ServerThread \/ ServerDies)
  \/ ClientSide(ClientCalls \/ ClientCommands \/ ClientApp \/ ClientThread \/ ClientKilled)

SystemSpec == SystemInit /\ [][SystemNext]_allVars

\* Fairness: every thread of both processes runs when it can, main() included where it
\* does not wait for a command. Nothing makes the operator type a command or start a
\* program, a process die, or another client read. What a step does to the other
\* process is always possible, so that only connect(), which waits for the other one, is
\* fair in terms of both.
SystemFairness ==
  /\ WF_<<serverVars, serverMain>>(ServerApp \/ ServerCalls \/ (SendKilled /\ serverMain' = "off"))
  /\ WF_serverVars(ThreadStep)
  /\ WF_<<clientVars, clientMain>>(cPc # "start_connect" /\ (ClientApp \/ ClientCalls))
  /\ WF_allVars(cPc = "start_connect" /\ ClientSide(ClientApp))
  /\ WF_clientVars(Client!ThreadStep)

FairSystem == SystemSpec /\ SystemFairness

-----------------------------------------------------------------------------
(* Properties *)

\* The two processes agree on every connection of the client program. It has an entry in
\* the client's table; it is up there exactly while the server or its backlog holds it; if
\* the server has accepted it, it has a slot; what the server has written is what the
\* client has received or will (ipcAcceptClient, ipcCloseClient, ipcSendMessage on one
\* side; ipcAddClient, ipcCloseConnectFromServer, ipcRemoveClient on the other).
EndsAgree ==
  /\ \A fd \in Wired :
       LET c == wire[fd] IN
       /\ \E i \in Client!InUse : info[i].fd = fd
       /\ peer[c] = "up"
       /\ server[fd] = "up" <=> link[c] \in {"queued", "open"}
       /\ (link[c] = "open" /\ usage = IcService) => c \in Subscribed
       /\ Len(stream[fd]) = unread[c] * Client!PoolSize
       /\ Len(sent[fd]) = Len(got[c])
  /\ \A c \in Own : peer[c] = "up" /\ link[c] \in {"queued", "open"} =>
       \E fd \in Wired : wire[fd] = c

\* The server program calls the API in an order in which a server that is in the table is
\* the first of its process: what listens is its socket, and what is connected, is to it.
ServerLife ==
  /\ serverMain \in {"off", "start"} => pc = "idle"
  /\ pc \in {"start_add", "start_spawn", "start_flag", "start_wake"} => serverMain = "started"
  /\ pc = "send_lock" \/ Sending => serverMain = "menu"
  /\ pc \in {"stop_lock", "stop_deinit", "stop_cancel", "stop_join", "stop_clear"} =>
       serverMain = "stop"
  /\ pc = "start_add" => usage = None
  /\ usage = None /\ serverMain # "stop" =>
       listening = {} /\ \A c \in Conns : link[c] \notin {"queued", "open"}
  /\ usage # None =>
       /\ serverMain \notin {"off", "start"} /\ listening \subseteq {listenFd}
       /\ \A c \in Conns : link[c] \in {"queued", "open"} => on[c] = listenFd

\* What a connection has been given are broadcasts that have begun, without the one under
\* way as long as its slot is ahead of the loop; nothing before it is accepted.
GivenInv ==
  /\ \A c \in Conns : joined[c] <= nsent /\ got[c] \in Seq(1 .. nsent)
  /\ cut \subseteq 1 .. nsent
  /\ Sending => nsent # 0 /\ nsent \notin cut
  /\ \A c \in Conns : link[c] \in {"none", "queued"} => unread[c] = 0 /\ got[c] = << >>
  /\ nsent <= MaxSends /\ (pc = "send_lock" => nsent < MaxSends)

\* A descriptor of the client stands for a connection of its own while it is open.
WireInv ==
  /\ wire \in [Client!Fds -> Own \cup {None}]
  /\ \A fd \in Client!Fds : wire[fd] = None <=> server[fd] = "none"
  /\ \A d, e \in Wired : wire[d] = wire[e] => d = e

SystemInv ==
  /\ ProcessInv /\ Client!IndInv /\ Client!DataInv
  /\ ServerLife /\ GivenInv /\ WireInv /\ EndsAgree

\* What the client program has been sent are the broadcasts its connection has been given.
SentInv ==
  \A fd \in Wired : \A k \in 1 .. Len(sent[fd]) : sent[fd][k] = Data[got[wire[fd]][k]]
EndToEndInv == SystemInv /\ MissedOnlyIfReported /\ SentInv

Held == {wire[fd] : fd \in Wired}
PoolOf(c) == LET i == CHOOSE j \in Client!InUse : wire[info[j].fd] = c IN info[i].pool
NotSent == MaxSends + 1
LastStored(c) ==
  LET same == {k \in 1 .. Len(Data) : Data[k] = PoolOf(c)}
  IN IF PoolOf(c) = Client!Zeros THEN joined[c]
     ELSE IF same # {} THEN CHOOSE k \in same : TRUE ELSE NotSent
Receiving == {c \in Held : link[c] = "open" \/ got[c] # << >>}
EndToEnd == INSTANCE IpcBroadcast WITH
  Subscribers <- Conns, published <- nsent, failed <- cut, member <- Receiving,
  last <- [c \in Conns |-> IF c \in Receiving THEN LastStored(c) ELSE 0]

\* From ipcSendMessage in one process to the data pool in the other: from the moment it is
\* accepted until it stops or its server is gone, a client's pool goes through the
\* broadcasts one by one, but for those that failed, whoever else connects, leaves, dies or
\* takes the file away.
PoolFollowsBroadcasts == EndToEnd!Spec

\* A broadcast that has begun reaches the pool of every client that was accepted before,
\* unless it fails, the client's connection ends, its service thread has lost the race of
\* its start, or another client, which does not read, holds the server up for ever.
BroadcastArrives ==
  \A c \in Own, k \in 1 .. MaxSends :
    c \in Receiving /\ joined[c] < k /\ k <= nsent ~>
      \/ c \notin Receiving \/ LastStored(c) >= k \/ k \in cut \/ cTpc = "exited"
      \/ \E d \in Conns : []HeldUpBy(d)

\* A client is told that it was turned away, because others have all the slots, and that
\* the server program has ended or died: its entry goes, and the usage type can be started
\* again. ipcServerStop itself closes no connection it has accepted, the end of the process
\* does.
HangupReachesClient ==
  \A c \in Own : (c \in Held /\ (link[c] = "closed" \/ serverMain = "off"))
    ~> (c \notin Held \/ cTpc = "exited")
=============================================================================
