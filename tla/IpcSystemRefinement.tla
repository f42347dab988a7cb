------------------------- MODULE IpcSystemRefinement -------------------------
(***************************************************************************)
(* The proof that the two programs together implement IpcBroadcast: the    *)
(* data pool of the client process goes through the broadcasts of the      *)
(* server process one by one, but for those that failed.  By SentInv a     *)
(* stream carries what the connection has been given, by the client's own  *)
(* invariant its pool is the last one taken from the stream, and by        *)
(* MissedOnlyIfReported what lies between that one and the next has        *)
(* failed.                                                                 *)
(***************************************************************************)
EXTENDS IpcSystemProofs

USE DEF vars, library, table, epoll, app, thread, files, links, traffic, serverVars

-----------------------------------------------------------------------------
(* What the server does to broadcasts and to those that have joined *)

\* A step of the server process begins a broadcast, is the end of one in an error, or leaves
\* them alone; a client joins behind the last one when it is accepted, and not otherwise.
Publishes == nsent' = nsent + 1 /\ UNCHANGED <<link, joined, unread, got, cut>>
Fails == Sending /\ cut' = cut \cup {nsent} /\ UNCHANGED <<link, joined, unread, got, nsent>>
Joins(c) == \/ Accepts(c) /\ joined'[c] = nsent
            \/ ~Accepts(c) /\ joined'[c] = joined[c]
LEMMA ServerMoves ==
  ASSUME ProcessInv, ServerStep
  PROVE  Publishes \/ Fails \/ (UNCHANGED <<nsent, cut>> /\ \A c \in Conns : Joins(c))
<1> USE DEF Joins
<1>0. LinkType /\ joined \in [Conns -> Nat]
  BY DEF ProcessInv, TypeOK, TrafficType
<1>1. CASE Call
  BY <1>1, CallFrame DEF Accepts
<1>2. CASE StartSteps
  BY <1>2, StartFrame DEF Accepts
<1>3. CASE SendLive
  <2>1. link' = link /\ joined' = joined
    BY <1>3, SendFrame
  <2>2. CASE SendLock
    BY <2>1, <2>2 DEF SendLock, Publishes, Accepts
  <2>3. CASE SendWrite \/ SendBlocks \/ SendDone
    BY <2>1, <2>3 DEF SendWrite, SendBlocks, SendDone, Accepts
  <2>4. CASE SendBroken
    BY <2>1, <2>4 DEF SendBroken, SendFails, Fails
  <2>5. QED
    BY <1>3, <2>2, <2>3, <2>4 DEF SendLive
<1>4. CASE StopSteps
  <2>1. UNCHANGED traffic
    BY <1>4, StopFrame DEF DeinitJoin
  <2>2. \A c \in Conns : ~Accepts(c)
    BY <1>4 DEF StopSteps, RemoveServer, DeinitFlag, DeinitCancel, DeinitJoin, DeinitClear, Drop,
       Accepts
  <2>3. QED
    BY <2>1, <2>2
<1>5. CASE ThreadStep
  <2>1. nsent' = nsent /\ cut' = cut
    BY <1>5, ThreadFrame
  <2>2. CASE AcceptClient
    BY <1>0, <2>1, <2>2 DEF AcceptClient, Accepts, LinkType, Waiting
  <2>3. CASE CloseClient
    BY <1>0, <2>1, <2>3 DEF CloseClient, Accepts, LinkType
  <2>4. CASE CloseFd
    BY <1>0, <2>1, <2>4 DEF CloseFd, Accepts, LinkType
  <2>5. QED
    BY <1>5, <2>1, <2>2, <2>3, <2>4, ThreadLinks DEF Accepts
<1>6. CASE Dies
  BY <1>0, <1>6 DEF Dies, ProcessDies, Accepts
<1>7. QED
  BY <1>1, <1>2, <1>3, <1>4, <1>5, <1>6 DEF ServerStep

-----------------------------------------------------------------------------
(* What a stream carries *)

\* The server delivers as it does without a client program (IpcServerProofs).
LEMMA DeliveryKept ==
  ASSUME DeliveryInv, WireInv, SystemNext \/ UNCHANGED allVars
  PROVE  DeliveryInv'
<1>1. CASE Step \/ UNCHANGED vars
  BY <1>1, DeliveryStep
<1>2. CASE OtherServerFails
  <2>1. UNCHANGED <<link, got, clientFd, cut, joined, pc, slot, nsent>>
    BY <1>2 DEF OtherServerFails
  <2>2. Unaccepted' /\ MissedOnlyIfReported'
    BY <2>1 DEF DeliveryInv, Unaccepted, MissedOnlyIfReported, LastGiven, Before, Given, Sending
  <2>3. ProcessInv'
    BY ServerInvStep DEF DeliveryInv
  <2>4. QED
    BY <2>2, <2>3 DEF DeliveryInv
<1>3. QED
  BY <1>1, <1>2, ServerSteps DEF DeliveryInv

\* What SentInv says of one connection.
Carries(fd) == \A k \in 1 .. Len(sent[fd]) : sent[fd][k] = Data[got[wire[fd]][k]]

\* What the steps of a connection rest on.
LEMMA FollowTypes ==
  ASSUME SystemInv
  PROVE  /\ joined \in [Conns -> Nat] /\ got \in [Conns -> Seq(Nat)] /\ nsent \in Nat
         /\ sent \in [Client!Fds -> Seq([Fields -> Values])]
         /\ wire \in [Client!Fds -> Own \cup {None}]
         /\ \A fd \in Wired : /\ fd \in Client!Fds /\ wire[fd] \in Own /\ wire[fd] \in Conns
                              /\ server[fd] # "none" /\ Len(sent[fd]) \in Nat
                              /\ Len(sent[fd]) = Len(got[wire[fd]])
         /\ \A d, e \in Wired : d = e
<1>1. joined \in [Conns -> Nat] /\ got \in [Conns -> Seq(Nat)] /\ nsent \in Nat
  BY DEF SystemInv, ProcessInv, TypeOK, TrafficType
<1>2. sent \in [Client!Fds -> Seq([Fields -> Values])] /\ OneConnection
  BY ClientTypes, ClientHasOneConnection DEF SystemInv
<1>3. /\ wire \in [Client!Fds -> Own \cup {None}]
      /\ \A fd \in Client!Fds : wire[fd] = None <=> server[fd] = "none"
  BY DEF SystemInv, WireInv
<1>4. ASSUME NEW fd \in Wired
      PROVE  /\ fd \in Client!Fds /\ wire[fd] \in Own /\ wire[fd] \in Conns
             /\ server[fd] # "none" /\ Len(sent[fd]) \in Nat
  <2>1. fd \in Client!Fds /\ wire[fd] \in Own /\ server[fd] # "none"
    BY <1>3 DEF Wired
  <2>2. sent[fd] \in Seq([Fields -> Values])
    BY <1>2, <2>1
  <2>3. QED
    BY <2>1, <2>2, LenProperties, SystemConstants
<1>5. \A fd \in Wired : Len(sent[fd]) = Len(got[wire[fd]])
  BY DEF SystemInv, EndsAgree
<1>6. \A d, e \in Wired : d = e
  BY <1>2, <1>4 DEF OneConnection
<1>7. QED
  BY <1>1, <1>2, <1>3, <1>4, <1>5, <1>6

\* A stream carries what its connection has been given through whatever the server does.
LEMMA ServerKeepsSent ==
  ASSUME SystemInv, SentInv, ServerSide(ServerAction)
  PROVE  SentInv'
<1>0. /\ got \in [Conns -> Seq(Nat)] /\ nsent \in Nat
      /\ sent \in [Client!Fds -> Seq([Fields -> Values])]
      /\ \A fd \in Wired : /\ fd \in Client!Fds /\ wire[fd] \in Conns
                           /\ Len(sent[fd]) \in Nat /\ Len(sent[fd]) = Len(got[wire[fd]])
      /\ \A d, e \in Wired : d = e
  BY FollowTypes
<1>1. wire' = wire /\ Wired' = Wired
  BY DEF ServerSide, Wired
<1>2. ASSUME NEW fd \in Wired, sent'[fd] = sent[fd], got'[wire[fd]] = got[wire[fd]]
      PROVE  Carries(fd)'
  BY <1>1, <1>2 DEF SentInv, Carries
<1>3. ASSUME NEW fd \in Wired, Sends(fd) PROVE Carries(fd)'
  <2>1. PICK c \in Conns : c = wire[fd]
    BY <1>0
  <2>2. PICK n \in Nat : n = Len(sent[fd]) /\ n = Len(got[c])
    BY <1>0, <2>1
  <2>3. Sending /\ got'[c] = Append(got[c], nsent)
    BY <1>0, <1>3, <2>1 DEF Sends, Writes
  <2>4. sent'[fd] = Append(sent[fd], Data[nsent])
    BY <1>0, <1>3 DEF Sends, Client!ServerSends
  <2>5. Data[nsent] \in [Fields -> Values]
    <3>1. nsent \in 1 .. Len(Data)
      BY <1>0, <2>3, DataType DEF SystemInv, GivenInv
    <3>2. QED
      BY <3>1, DataType
  <2>6. /\ Len(sent'[fd]) = n + 1 /\ sent'[fd][n + 1] = Data[nsent]
        /\ \A k \in 1 .. n : sent'[fd][k] = sent[fd][k]
    <3> DEFINE T == [Fields -> Values]
               s == sent[fd]
               d == Data[nsent]
    <3>1. s \in Seq(T) /\ d \in T /\ Len(s) = n /\ sent'[fd] = Append(s, d)
      BY <1>0, <2>2, <2>4, <2>5
    <3> HIDE DEF T, s, d
    <3>2. /\ Len(Append(s, d)) = n + 1 /\ Append(s, d)[n + 1] = d
          /\ \A k \in 1 .. n : Append(s, d)[k] = s[k]
      BY <3>1, AppendProperties
    <3>3. QED
      BY <3>1, <3>2 DEF s, d
  <2>7. got'[c][n + 1] = nsent /\ \A k \in 1 .. n : got'[c][k] = got[c][k]
    <3>1. got[c] \in Seq(Nat)
      BY <1>0
    <3>2. QED
      BY <1>0, <2>2, <2>3, <3>1, AppendProperties
  <2>8. \A k \in 1 .. n + 1 : sent'[fd][k] = Data[got'[c][k]]
    <3>1. \A k \in 1 .. n : sent[fd][k] = Data[got[c][k]]
      BY <2>1, <2>2 DEF SentInv
    <3>2. \A k \in 1 .. n + 1 : k \in 1 .. n \/ k = n + 1
      OBVIOUS
    <3>3. QED
      BY <2>6, <2>7, <3>1, <3>2
  <2>9. QED
    BY <1>1, <2>1, <2>6, <2>8 DEF Carries
<1>4. \A fd \in Wired : Carries(fd)'
  <2>1. CASE UNCHANGED clientVars /\ \A fd \in Wired : Quiet(fd)
    BY <1>2, <2>1 DEF clientVars, Quiet
  <2>2. ASSUME NEW fd \in Wired, HangsUp(fd) PROVE Carries(fd)'
    <3>1. sent'[fd] = sent[fd] /\ got'[wire[fd]] = got[wire[fd]]
      BY <2>2 DEF HangsUp, Client!ServerCloses
    <3>2. QED
      BY <1>2, <3>1
  <2>3. QED
    BY <1>0, <1>3, <2>1, <2>2, ServerEvents, WiresNeeded DEF SystemInv
<1>5. QED
  BY <1>1, <1>4 DEF SentInv, Carries

\* And through whatever the client and the other processes do.
LEMMA OthersKeepSent ==
  ASSUME SystemInv, SentInv, Environment
  PROVE  SentInv'
<1>0. /\ wire \in [Client!Fds -> Own \cup {None}]
      /\ \A fd \in Wired : fd \in Client!Fds
      /\ \A d, e \in Wired : d = e
  BY FollowTypes
<1>1. got' = got
  BY EnvironmentFrame DEF SystemInv
<1>2. ASSUME NEW fd \in Wired, wire'[fd] = wire[fd], sent'[fd] = sent[fd] PROVE Carries(fd)'
  BY <1>1, <1>2 DEF SentInv, Carries
<1> SUFFICES ASSUME NEW fd \in Wired' PROVE Carries(fd)'
  BY DEF SentInv, Carries
<1>3. CASE UNCHANGED <<wire, sent>>
  BY <1>2, <1>3 DEF Wired
<1>4. CASE RunServer \/ RunClient \/ Others \/ UNCHANGED allVars
  BY <1>3, <1>4 DEF RunServer, RunClient, Others, allVars, clientVars
<1>5. CASE ClientSide(ClientAction)
  <2>1. CASE NotConnected
    BY <1>0, <2>1 DEF NotConnected, Wired
  <2>2. ASSUME NEW e \in Client!Fds, NEW c \in Own, OpensTo(e, c) PROVE Carries(fd)'
    <3>1. wire' = [wire EXCEPT ![e] = c] /\ sent' = sent
      BY <2>2 DEF OpensTo, Client!Opens
    <3>2. CASE fd # e
      BY <1>0, <1>2, <3>1, <3>2 DEF Wired
    <3>3. CASE fd = e
      <4>1. sent[fd] = << >>
        BY <2>2, <3>3 DEF OpensTo, Client!Opens, SystemInv, Client!DataInv, Client!StreamInv
      <4>2. Len(sent'[fd]) = 0
        BY <3>1, <4>1
      <4>3. QED
        BY <4>2 DEF Carries
    <3>4. QED
      BY <3>2, <3>3
  <2>3. ASSUME NEW e \in Wired, Leaves(e) PROVE Carries(fd)'
    <3>1. wire' = [wire EXCEPT ![e] = None]
      BY <2>3 DEF Leaves, HungUp
    <3>2. fd # e /\ fd \in Wired
      BY <1>0, <3>1 DEF Wired
    <3>3. QED
      BY <1>0, <3>2
  <2>4. ASSUME NEW e \in Wired, Reads(e) PROVE Carries(fd)'
    BY <1>3, <2>4 DEF Reads, Client!Receives
  <2>5. QED
    BY <1>3, <1>5, <2>1, <2>2, <2>3, <2>4, ClientEvents, WiresNeeded DEF SystemInv
<1>6. QED
  BY <1>4, <1>5 DEF Environment

\* All together.
FollowsInv == SystemInv /\ DeliveryInv /\ SentInv
LEMMA FollowsInvStep == FollowsInv /\ [SystemNext]_allVars => FollowsInv'
<1> SUFFICES ASSUME FollowsInv, SystemNext \/ UNCHANGED allVars PROVE FollowsInv'
  OBVIOUS
<1> USE DEF FollowsInv
<1>1. SystemInv' /\ DeliveryInv'
  BY SystemInvStep, DeliveryKept DEF SystemInv
<1>2. SentInv'
  BY NextIsServerOrEnvironment, ServerKeepsSent, OthersKeepSent
<1>3. QED
  BY <1>1, <1>2

LEMMA FollowsInvInit == SystemInit => FollowsInv
<1> SUFFICES ASSUME SystemInit PROVE FollowsInv
  OBVIOUS
<1>1. SystemInv /\ ProcessInv
  BY SystemInvInit DEF SystemInv
<1>2. Unaccepted /\ MissedOnlyIfReported
  BY DEF SystemInit, Init, LibraryInit, Unaccepted, MissedOnlyIfReported
<1>3. Wired = {}
  BY DEF SystemInit, Wired
<1>4. QED
  BY <1>1, <1>2, <1>3 DEF FollowsInv, DeliveryInv, SentInv

\* From ipcSendMessage of one process to the stream of the other: the broadcasts a client is
\* sent are those since it was accepted, in their order, none twice, and those it misses
\* ended in an error of ipcSendMessage, whoever else connects, leaves, dies or takes the
\* socket file away.
THEOREM StreamsCarryBroadcasts == SystemSpec => []EndToEndInv
<1>1. FollowsInv => EndToEndInv
  BY DEF FollowsInv, DeliveryInv, EndToEndInv
<1>2. QED
  BY <1>1, FollowsInvInit, FollowsInvStep, PTL DEF SystemSpec

-----------------------------------------------------------------------------
(* The refinement mapping *)

\* The pool of a connection is at the last message taken from its stream, or, without one,
\* where the connection was accepted.
Unread(fd) == unread[wire[fd]]
Reached(fd) == Len(got[wire[fd]]) - Unread(fd)
At(fd) == Before(wire[fd], Reached(fd) + 1)

LEMMA TakenFromStream ==
  ASSUME FollowsInv, NEW fd \in Wired
  PROVE  /\ Unread(fd) \in Nat /\ Len(got[wire[fd]]) \in Nat
         /\ Reached(fd) \in 0 .. Len(got[wire[fd]])
         /\ Client!Taken(fd) = Reached(fd)
<1>1. fd \in Client!Fds /\ wire[fd] \in Conns
  BY FollowTypes DEF FollowsInv
<1>2. PICK n \in Nat : n = unread[wire[fd]]
  BY <1>1 DEF FollowsInv, SystemInv, ProcessInv, TypeOK, TrafficType
<1>3. Len(stream[fd]) = n * Client!PoolSize
  BY <1>2 DEF FollowsInv, SystemInv, EndsAgree
<1>4. Len(stream[fd]) \div Client!PoolSize = n
  <2>1. n * Client!PoolSize = Client!PoolSize * n
    BY FieldsType
  <2>2. (Client!PoolSize * n) \div Client!PoolSize = n
    BY ClientAssumptions, Client!MultiplesOfPoolSize
  <2>3. QED
    BY <1>3, <2>1, <2>2
<1>5. Len(stream[fd]) \div Client!PoolSize <= Len(sent[fd])
  BY <1>1 DEF FollowsInv, SystemInv, Client!DataInv, Client!StreamInv, Client!Queued
<1>6. PICK l \in Nat : l = Len(sent[fd]) /\ l = Len(got[wire[fd]])
  BY FollowTypes DEF FollowsInv
<1>7. Client!Taken(fd) = l - n /\ n <= l
  BY <1>4, <1>5, <1>6 DEF Client!Taken
<1>8. QED
  BY <1>2, <1>6, <1>7 DEF Reached, Unread

\* What it has reached is a broadcast there has been.
LEMMA AtIsReached ==
  ASSUME FollowsInv, NEW fd \in Wired
  PROVE  /\ At(fd) = IF Reached(fd) = 0 THEN joined[wire[fd]] ELSE got[wire[fd]][Reached(fd)]
         /\ joined[wire[fd]] \in Nat
         /\ \A k \in 1 .. Len(got[wire[fd]]) : got[wire[fd]][k] \in 1 .. nsent
<1>1. PICK t \in Nat : t = Reached(fd)
  BY TakenFromStream
<1>2. At(fd) = IF t = 0 THEN joined[wire[fd]] ELSE got[wire[fd]][t]
  BY <1>1 DEF At, Before
<1>3. wire[fd] \in Conns /\ joined[wire[fd]] \in Nat
  BY FollowTypes DEF FollowsInv
<1>4. got[wire[fd]] \in Seq(1 .. nsent)
  BY <1>3 DEF FollowsInv, SystemInv, GivenInv
<1>5. QED
  BY <1>1, <1>2, <1>3, <1>4, ElementOfSeq

\* The client library has one entry, the pool of a connection is that entry's.
LEMMA PoolOfConnection ==
  ASSUME FollowsInv, NEW fd \in Wired
  PROVE  PoolOf(wire[fd]) = IF Client!Taken(fd) = 0 THEN Client!Zeros
                            ELSE sent[fd][Client!Taken(fd)]
<1>1. PICK i \in Client!InUse : info[i].fd = fd
  BY DEF FollowsInv, SystemInv, EndsAgree
<1>2. cInited
  BY FollowTypes DEF FollowsInv, SystemInv, Client!IndInv, Client!NothingLeaks
<1>3. info[i].pool = IF Client!Taken(fd) = 0 THEN Client!Zeros ELSE sent[fd][Client!Taken(fd)]
  BY <1>1, <1>2 DEF FollowsInv, SystemInv, Client!DataInv, Client!PoolIsLastMessage
<1>4. \A j \in Client!InUse : j = i
  BY DEF Client!InUse, Client!Slots
<1>5. (CHOOSE j \in Client!InUse : wire[info[j].fd] = wire[fd]) = i
  BY <1>1, <1>4
<1>6. QED
  BY <1>3, <1>5 DEF PoolOf

LEMMA StoredPosition ==
  ASSUME FollowsInv, NEW fd \in Wired
  PROVE  LastStored(wire[fd]) = At(fd)
<1> DEFINE c == wire[fd]
<1>1. PICK n \in Nat : n = Len(sent[fd]) /\ n = Len(got[c])
  BY FollowTypes DEF FollowsInv
<1>2. PICK t \in Nat : t = Client!Taken(fd) /\ t = Reached(fd) /\ t <= n
  BY <1>1, TakenFromStream
<1>3. CASE t = 0
  <2>1. PoolOf(c) = Client!Zeros
    BY <1>2, <1>3, PoolOfConnection
  <2>2. QED
    BY <1>2, <1>3, <2>1, AtIsReached DEF LastStored
<1>4. CASE t # 0
  <2>1. PoolOf(c) = sent[fd][t]
    BY <1>2, <1>4, PoolOfConnection
  <2>2. t \in 1 .. n
    BY <1>2, <1>4
  <2>3. PICK b \in 1 .. nsent : b = got[c][t] /\ At(fd) = b
    BY <1>1, <1>2, <1>4, <2>2, AtIsReached
  <2>4. sent[fd][t] = Data[b] /\ b \in 1 .. Len(Data)
    <3>1. sent[fd][t] = Data[got[c][t]]
      BY <1>1, <2>2 DEF FollowsInv, SentInv
    <3>2. nsent \in Nat /\ nsent <= MaxSends
      BY FollowTypes DEF FollowsInv, SystemInv, GivenInv
    <3>3. QED
      BY <2>3, <3>1, <3>2, DataType
  <2>5. Data[b] # Client!Zeros
    <3>1. Data[b] \in [Fields -> Values \ {Zero}]
      BY <2>4, DataType
    <3>2. 1 \in Fields
      <4>1. PICK m \in Nat : m >= 1 /\ Fields = 1 .. m
        BY FieldsType
      <4>2. 1 \in 1 .. m
        BY <4>1
      <4>3. QED
        BY <4>1, <4>2, Zenon
    <3>3. Data[b][1] # Zero /\ Client!Zeros[1] = Zero
      BY <3>1, <3>2 DEF Client!Zeros
    <3>4. QED
      BY <3>3
  <2>6. {k \in 1 .. Len(Data) : Data[k] = PoolOf(c)} = {b}
    <3>1. \A i, j \in 1 .. Len(Data) : Data[i] = Data[j] => i = j
      BY SystemConstants
    <3>2. QED
      BY <2>1, <2>4, <3>1
  <2>7. QED
    BY <2>1, <2>3, <2>4, <2>5, <2>6 DEF LastStored
<1>5. QED
  BY <1>3, <1>4

\* The client program is a subscriber when it is accepted or has been sent something.
Mem(fd) == link[wire[fd]] = "open" \/ got[wire[fd]] # << >>
Last == [c \in Conns |-> IF c \in Receiving THEN LastStored(c) ELSE 0]
View ==
  /\ Wired = {} => Receiving = {} /\ Last = [c \in Conns |-> 0]
  /\ \A fd \in Wired :
       /\ Receiving = IF Mem(fd) THEN {wire[fd]} ELSE {}
       /\ Last = [c \in Conns |-> IF Mem(fd) /\ c = wire[fd] THEN At(fd) ELSE 0]
LEMMA ViewHolds == FollowsInv => View
<1> SUFFICES ASSUME FollowsInv PROVE View
  OBVIOUS
<1>1. ASSUME Wired = {} PROVE Receiving = {} /\ Last = [c \in Conns |-> 0]
  BY <1>1 DEF Receiving, Held, Last
<1>2. ASSUME NEW fd \in Wired
      PROVE  /\ Receiving = IF Mem(fd) THEN {wire[fd]} ELSE {}
             /\ Last = [c \in Conns |-> IF Mem(fd) /\ c = wire[fd] THEN At(fd) ELSE 0]
  <2>1. \A d \in Wired : d = fd
    BY FollowTypes DEF FollowsInv
  <2>2. Held = {wire[fd]}
    BY <2>1 DEF Held
  <2>3. Receiving = IF Mem(fd) THEN {wire[fd]} ELSE {}
    BY <2>2 DEF Receiving, Mem
  <2>4. LastStored(wire[fd]) = At(fd)
    BY StoredPosition
  <2>5. QED
    BY <2>3, <2>4 DEF Last
<1>3. QED
  BY <1>1, <1>2 DEF View

-----------------------------------------------------------------------------
(* What the steps are for a subscriber *)

\* The abstract step [EndToEnd!Next]_EndToEnd!vars.
Abstract == EndToEnd!Next \/ UNCHANGED EndToEnd!vars

\* Nothing is received, nothing begins.
LEMMA Unseen == UNCHANGED <<nsent, cut, Receiving, Last>> => Abstract
  BY DEF Abstract, EndToEnd!vars, Last

LEMMA SeenAsPublish == nsent' = nsent + 1 /\ UNCHANGED <<cut, Receiving, Last>> => Abstract
  BY DEF Abstract, EndToEnd!Next, EndToEnd!Publish, Last

LEMMA SeenAsFail ==
  nsent # 0 /\ cut' = cut \cup {nsent} /\ UNCHANGED <<nsent, Receiving, Last>> => Abstract
  BY DEF Abstract, EndToEnd!Next, EndToEnd!Fail, Last

\* All that a connection shows is whether it receives and where it is.
LEMMA ConnectionKept ==
  ASSUME View, View', NEW fd \in Wired, fd \in Wired', wire'[fd] = wire[fd],
         Mem(fd)' <=> Mem(fd), Mem(fd) => At(fd)' = At(fd)
  PROVE  UNCHANGED <<Receiving, Last>>
<1>1. PICK c \in {wire[fd]} : c = wire[fd]
  OBVIOUS
<1>2. /\ Receiving = IF Mem(fd) THEN {c} ELSE {}
      /\ Last = [d \in Conns |-> IF Mem(fd) /\ d = c THEN At(fd) ELSE 0]
  BY <1>1 DEF View
<1>3. /\ Receiving' = IF Mem(fd)' THEN {c} ELSE {}
      /\ Last' = [d \in Conns |-> IF Mem(fd)' /\ d = c THEN At(fd)' ELSE 0]
  BY <1>1 DEF View
<1>4. QED
  BY <1>2, <1>3

\* A client whose connection ends before it was sent anything, or that gives it up, leaves.
LEMMA SeenAsLeave ==
  ASSUME UNCHANGED <<nsent, cut>>, Receiving \subseteq Conns, Receiving' = {},
         Last' = [c \in Conns |-> 0]
  PROVE  Abstract
<1>1. PICK S \in SUBSET Conns : S = Receiving
  OBVIOUS
<1>2. Last' = [c \in Conns |-> IF c \in S THEN 0 ELSE Last[c]]
  BY <1>1 DEF Last
<1>3. EndToEnd!Leave(S)
  BY <1>1, <1>2 DEF EndToEnd!Leave, Last
<1>4. QED
  BY <1>3 DEF Abstract, EndToEnd!Next

\* What receives is a connection.
LEMMA ReceivingType == FollowsInv => Receiving \subseteq Conns
  BY FollowTypes DEF FollowsInv, Receiving, Held

LEMMA ServerRefines ==
  ASSUME FollowsInv, FollowsInv', View, View', ServerSide(ServerAction)
  PROVE  Abstract
<1>1. wire' = wire /\ Wired' = Wired
  BY DEF ServerSide, Wired
<1>2. Publishes \/ Fails \/ (UNCHANGED <<nsent, cut>> /\ \A d \in Conns : Joins(d))
  BY ServerActionIsStep, ServerMoves DEF ServerSide, FollowsInv, SystemInv
<1>3. Fails => nsent # 0
  BY DEF Fails, FollowsInv, SystemInv, GivenInv
<1>4. CASE Wired = {}
  <2>1. UNCHANGED <<Receiving, Last>>
    BY <1>1, <1>4 DEF View
  <2>2. QED
    BY <1>2, <1>3, <2>1, Unseen, SeenAsPublish, SeenAsFail DEF Publishes, Fails
<1>5. ASSUME NEW fd \in Wired PROVE Abstract
  <2>1. PICK c \in Conns : c = wire[fd]
    BY FollowTypes DEF FollowsInv
  <2>2. fd \in Wired' /\ wire'[fd] = c /\ \A d \in Wired : d = fd
    BY <1>1, <2>1, FollowTypes DEF FollowsInv
  <2>3. ASSUME unread'[c] = unread[c], got'[c] = got[c] PROVE Abstract
    <3>1. joined'[c] = joined[c] => At(fd)' = At(fd)
      BY <2>1, <2>2, <2>3 DEF At, Reached, Unread, Before
    <3>2. CASE Publishes \/ Fails
      <4>1. Mem(fd)' <=> Mem(fd)
        BY <2>1, <2>2, <2>3, <3>2 DEF Publishes, Fails, Mem
      <4>2. UNCHANGED <<Receiving, Last>>
        BY <2>1, <2>2, <3>1, <3>2, <4>1, ConnectionKept DEF Publishes, Fails
      <4>3. QED
        BY <1>3, <3>2, <4>2, SeenAsPublish, SeenAsFail DEF Publishes, Fails
    <3>3. CASE UNCHANGED <<nsent, cut>> /\ ~Accepts(c) /\ joined'[c] = joined[c]
      <4>1. Mem(fd)' => Mem(fd)
        <5>1. link'[c] = link[c] \/ Ends(c)
          BY <3>3, ServerActionIsStep, ServerConnections DEF ServerSide, FollowsInv, SystemInv
        <5>2. QED
          BY <2>1, <2>2, <2>3, <5>1 DEF Mem, Ends
      <4>2. CASE Mem(fd) => Mem(fd)'
        BY <2>1, <2>2, <3>1, <3>3, <4>1, <4>2, ConnectionKept, Unseen
      <4>3. CASE ~Mem(fd)'
        <5>1. Receiving' = {} /\ Last' = [d \in Conns |-> 0]
          BY <2>2, <4>3 DEF View
        <5>2. QED
          BY <3>3, <5>1, SeenAsLeave, ReceivingType
      <4>4. QED
        BY <4>1, <4>2, <4>3
    <3>4. CASE UNCHANGED <<nsent, cut>> /\ Accepts(c) /\ joined'[c] = nsent
      <4>1. got[c] = << >> /\ link[c] = "queued" /\ link'[c] = "open"
        BY <3>4 DEF Accepts, FollowsInv, SystemInv, GivenInv
      <4>2. Reached(fd)' = 0
        <5>1. unread[c] = 0
          BY <4>1 DEF FollowsInv, SystemInv, GivenInv
        <5>2. Len(got[c]) = 0
          BY <4>1
        <5>3. QED
          BY <2>2, <2>3, <5>1, <5>2 DEF Reached, Unread
      <4>3. ~Mem(fd) /\ Mem(fd)'
        BY <2>1, <2>2, <4>1 DEF Mem
      <4>4. At(fd)' = nsent
        BY <2>1, <2>2, <3>4, <4>2 DEF At, Before
      <4>5. Receiving = {} /\ Receiving' = {c} /\ Last = [d \in Conns |-> 0]
        BY <2>1, <2>2, <4>3 DEF View
      <4>6. Last' = [Last EXCEPT ![c] = nsent]
        <5>1. Last' = [d \in Conns |-> IF d = c THEN nsent ELSE 0]
          BY <2>2, <4>3, <4>4 DEF View
        <5>2. QED
          BY <4>5, <5>1
      <4>7. EndToEnd!Join(c)
        BY <3>4, <4>5, <4>6 DEF EndToEnd!Join, Last
      <4>8. QED
        BY <4>7 DEF Abstract, EndToEnd!Next
    <3>5. QED
      BY <1>2, <3>2, <3>3, <3>4 DEF Joins
  <2>4. CASE Sends(fd)
    <3>1. Writes(c) /\ Client!ServerSends(fd, Data[nsent], Client!PoolSize)
      BY <2>1, <2>4 DEF Sends
    <3>2. /\ UNCHANGED <<nsent, cut, joined, link>> /\ unread'[c] = unread[c] + 1
          /\ got' = [got EXCEPT ![c] = Append(@, nsent)]
      BY <3>1 DEF Writes, FollowsInv, SystemInv, ProcessInv, TypeOK, TrafficType
    <3>3. PICK l \in Nat : l = Len(got[c])
      BY <2>1, TakenFromStream
    <3>4. PICK u \in 0 .. l : u = unread[c] /\ u = Unread(fd)
      BY <2>1, <3>3, TakenFromStream DEF Reached, Unread
    <3>5. /\ Len(got'[c]) = l + 1
          /\ \A k \in 1 .. l : got'[c][k] = got[c][k]
      BY <3>2, <3>3, WriteAppends DEF FollowsInv, SystemInv, ProcessInv
    <3>6. Mem(fd) /\ Mem(fd)'
      <4>1. link[c] \in {"queued", "open"}
        BY <2>1, <3>1 DEF Client!ServerSends, FollowsInv, SystemInv, EndsAgree
      <4>2. got'[c] # << >>
        BY <3>5, <3>3
      <4>3. link'[c] # "queued"
        BY <4>2 DEF FollowsInv, SystemInv, GivenInv
      <4>4. QED
        BY <2>1, <2>2, <3>2, <4>1, <4>2, <4>3 DEF Mem
    <3>7. At(fd)' = At(fd)
      <4>1. PICK t \in 0 .. l : t = l - u
        BY <3>4
      <4>2. Reached(fd) = t /\ Reached(fd)' = t
        <5>1. (l + 1) - (u + 1) = l - u
          BY <3>4
        <5>2. QED
          BY <2>1, <2>2, <3>2, <3>3, <3>4, <3>5, <4>1, <5>1 DEF Reached, Unread
      <4>3. t # 0 => got'[c][t] = got[c][t]
        BY <3>5, <4>1
      <4>4. At(fd) = IF t = 0 THEN joined[c] ELSE got[c][t]
        BY <2>1, <4>2 DEF At, Before
      <4>5. At(fd)' = IF t = 0 THEN joined[c] ELSE got'[c][t]
        <5>1. (t + 1 = 1 <=> t = 0) /\ (t + 1) - 1 = t
          BY <4>1
        <5>2. At(fd)' = IF t + 1 = 1 THEN joined'[c] ELSE got'[c][(t + 1) - 1]
          BY <2>2, <4>2 DEF At, Before
        <5>3. QED
          BY <3>2, <5>1, <5>2
      <4>6. QED
        BY <4>3, <4>4, <4>5
    <3>8. QED
      BY <2>1, <2>2, <3>2, <3>6, <3>7, ConnectionKept, Unseen
  <2>5. CASE HangsUp(fd)
    BY <2>1, <2>3, <2>5 DEF HangsUp
  <2>6. CASE UNCHANGED clientVars /\ Quiet(fd)
    BY <2>1, <2>3, <2>6 DEF Quiet
  <2>7. QED
    BY <2>2, <2>4, <2>5, <2>6, ServerEvents, WiresNeeded DEF FollowsInv, SystemInv
<1>6. QED
  BY <1>4, <1>5

LEMMA OthersRefine ==
  ASSUME FollowsInv, FollowsInv', View, View', Environment
  PROVE  Abstract
<1>1. /\ UNCHANGED <<got, joined, nsent, cut>>
      /\ \A c \in Conns : link'[c] = link[c] \/ Connects(c)
      /\ \A c \in Conns : unread'[c] = unread[c] \/ unread[c] > 0
  BY EnvironmentFrame DEF FollowsInv, SystemInv
<1>2. ASSUME NEW fd \in Wired, fd \in Wired', wire'[fd] = wire[fd] PROVE Mem(fd)' <=> Mem(fd)
  <2>1. PICK c \in Conns : c = wire[fd]
    BY FollowTypes DEF FollowsInv
  <2>2. peer[c] = "up"
    BY <2>1 DEF FollowsInv, SystemInv, EndsAgree
  <2>3. link'[c] = link[c]
    BY <1>1, <2>2 DEF Connects
  <2>4. QED
    BY <1>1, <1>2, <2>1, <2>3 DEF Mem
<1>3. CASE wire' = wire /\ \A fd \in Wired : /\ sent'[fd] = sent[fd]
                                           /\ unread'[wire[fd]] = unread[wire[fd]]
  <2>1. Wired' = Wired
    BY <1>3 DEF Wired
  <2>2. CASE Wired = {}
    BY <1>1, <2>1, <2>2, Unseen DEF View
  <2>3. ASSUME NEW fd \in Wired PROVE Abstract
    <3>1. At(fd)' = At(fd)
      BY <1>1, <1>3 DEF At, Reached, Unread, Before
    <3>2. UNCHANGED <<Receiving, Last>>
      BY <1>2, <1>3, <2>1, <3>1, ConnectionKept
    <3>3. QED
      BY <1>1, <3>2, Unseen
  <2>4. QED
    BY <2>2, <2>3
<1>4. CASE RunServer \/ RunClient \/ Others \/ UNCHANGED allVars
  <2>1. wire' = wire /\ sent' = sent
    BY <1>4 DEF RunServer, RunClient, Others, allVars, clientVars
  <2>2. ASSUME NEW fd \in Wired PROVE unread'[wire[fd]] = unread[wire[fd]]
    <3>1. PICK c \in Own : c = wire[fd] /\ c \in Conns
      BY FollowTypes DEF FollowsInv
    <3>2. CASE RunServer \/ RunClient \/ UNCHANGED allVars \/ OtherServerFails
      BY <3>2 DEF RunServer, RunClient, allVars, OtherServerFails
    <3>3. ASSUME NEW d \in Conns \ Own, Connect(d, IcService) \/ Disconnect(d) \/ ClientReads(d)
          PROVE  unread'[c] = unread[c]
      <4>1. unread \in [Conns -> Nat]
        BY DEF FollowsInv, SystemInv, ProcessInv, TypeOK, TrafficType
      <4>2. QED
        BY <3>1, <3>3, <4>1 DEF Connect, Disconnect, ClientReads
    <3>4. QED
      BY <1>4, <3>1, <3>2, <3>3 DEF Others, OtherClients
  <2>3. QED
    BY <1>3, <2>1, <2>2
<1>5. CASE ClientSide(ClientAction)
  <2>1. CASE UNCHANGED <<serverVars, wire, server, stream, sent>>
    BY <1>3, <2>1
  <2>2. CASE NotConnected
    BY <1>3, <2>2 DEF NotConnected
  <2>3. ASSUME NEW fd \in Client!Fds, NEW c \in Own, OpensTo(fd, c) PROVE Abstract
    <3>1. /\ wire' = [wire EXCEPT ![fd] = c] /\ server[fd] = "none"
          /\ peer[c] = "none" /\ c \in Conns /\ c # None /\ link' = [link EXCEPT ![c] = "queued"]
      BY <2>3, SystemConstants, DescriptorsDiffer DEF OpensTo, Client!Opens, Connect
    <3>2. wire'[fd] = c /\ fd \in Wired' /\ \A d \in Client!Fds : d # fd => wire'[d] = wire[d]
      BY <2>3, <3>1, FollowTypes DEF FollowsInv, Wired
    <3>3. Wired = {}
      <4>1. \A d, e \in Wired' : d = e
        <5>1. (SystemInv => \A d, e \in Wired : d = e)'
          BY FollowTypes, PTL
        <5>2. QED
          BY <5>1 DEF FollowsInv
      <4>2. fd \notin Wired
        BY <3>1, FollowTypes DEF FollowsInv
      <4>3. \A d \in Wired : d \in Wired'
        BY <3>2, <4>2 DEF Wired
      <4>4. QED
        BY <3>2, <4>1, <4>2, <4>3
    <3>4. got'[c] = << >> /\ link'[c] = "queued"
      BY <1>1, <3>1 DEF FollowsInv, SystemInv, ProcessInv, SocketInv, TypeOK, LinkType, GivenInv
    <3>5. ~Mem(fd)'
      BY <3>2, <3>4 DEF Mem
    <3>6. UNCHANGED <<Receiving, Last>>
      BY <3>2, <3>3, <3>5 DEF View
    <3>7. QED
      BY <1>1, <3>6, Unseen
  <2>4. ASSUME NEW fd \in Wired, Leaves(fd) PROVE Abstract
    <3>1. Wired' = {}
      <4>1. wire' = [wire EXCEPT ![fd] = None]
        BY <2>4 DEF Leaves, HungUp
      <4>2. QED
        BY <4>1, FollowTypes DEF FollowsInv, Wired
    <3>2. Receiving' = {} /\ Last' = [c \in Conns |-> 0]
      BY <3>1 DEF View
    <3>3. QED
      BY <1>1, <3>2, SeenAsLeave, ReceivingType
  <2>5. ASSUME NEW fd \in Wired, Reads(fd) PROVE Abstract
    <3>1. PICK c \in Conns : c = wire[fd]
      BY FollowTypes DEF FollowsInv
    <3>2. PICK l \in Nat : l = Len(got[c])
      BY <3>1, TakenFromStream
    <3>3. PICK u \in 0 .. l : u = unread[c] /\ u = Unread(fd)
      BY <3>1, <3>2, TakenFromStream DEF Reached, Unread
    <3>4. sent' = sent /\ wire' = wire /\ ClientReads(c)
      BY <2>5, <3>1 DEF Reads, Client!Receives
    <3>5. u > 0 /\ unread'[c] = u - 1
      BY <3>1, <3>3, <3>4 DEF ClientReads, FollowsInv, SystemInv, ProcessInv, TypeOK, TrafficType
    <3>6. PICK n \in 1 .. l : n = (l - u) + 1
      BY <3>3, <3>5
    <3>7. At(fd) = Before(c, n) /\ At(fd)' = got[c][n]
      <4>1. Reached(fd) = n - 1 /\ Reached(fd)' = n
        <5>1. l - u = n - 1 /\ l - (u - 1) = n
          BY <3>3, <3>6
        <5>2. QED
          BY <1>1, <3>1, <3>2, <3>3, <3>4, <3>5, <5>1 DEF Reached, Unread
      <4>2. (n - 1) + 1 = n /\ n # 0 /\ (n + 1) - 1 = n /\ n + 1 # 1
        BY <3>6
      <4>3. At(fd) = Before(c, n)
        BY <3>1, <4>1, <4>2 DEF At
      <4>4. At(fd)' = got[c][n]
        BY <1>1, <3>1, <3>4, <4>1, <4>2 DEF At, Before
      <4>5. QED
        BY <4>3, <4>4
    <3>8. PICK k \in At(fd) + 1 .. nsent : k = At(fd)' /\ At(fd) + 1 .. k - 1 \subseteq cut
      <4>1. At(fd) < got[c][n] /\ At(fd) + 1 .. got[c][n] - 1 \subseteq cut
        BY <3>2, <3>7 DEF FollowsInv, DeliveryInv, MissedOnlyIfReported
      <4>2. got[c][n] \in 1 .. nsent /\ At(fd) \in Nat
        BY <3>1, <3>2, AtIsReached, TakenFromStream
      <4>3. nsent \in Nat
        BY FollowTypes DEF FollowsInv
      <4>4. got[c][n] \in At(fd) + 1 .. nsent
        BY <4>1, <4>2, <4>3
      <4>5. QED
        BY <3>7, <4>1, <4>4
    <3>9. Mem(fd)
      BY <3>1, <3>2, <3>6 DEF Mem
    <3>10. fd \in Wired' /\ wire'[fd] = c /\ Mem(fd)'
      BY <1>2, <3>1, <3>4, <3>9 DEF Wired
    <3>11. /\ Receiving = {c} /\ Receiving' = {c}
          /\ Last = [d \in Conns |-> IF d = c THEN At(fd) ELSE 0]
          /\ Last' = [d \in Conns |-> IF d = c THEN k ELSE 0]
      BY <3>1, <3>8, <3>9, <3>10 DEF View
    <3>12. Last' = [Last EXCEPT ![c] = k] /\ Last[c] = At(fd)
      BY <3>11
    <3>13. EndToEnd!Deliver(c)
      BY <1>1, <3>8, <3>11, <3>12 DEF EndToEnd!Deliver, Last
    <3>14. QED
      BY <3>13 DEF Abstract, EndToEnd!Next
  <2>6. QED
    BY <1>5, <2>1, <2>2, <2>3, <2>4, <2>5, ClientEvents, WiresNeeded DEF FollowsInv, SystemInv
<1>6. QED
  BY <1>4, <1>5 DEF Environment

-----------------------------------------------------------------------------
(* The theorem *)

\* From ipcSendMessage in one process, over its table of clients, the stream and the service
\* thread of the other process to ipcReceiveDataFromServer's copy in the data pool: the two
\* programs implement a broadcast, for every number of slots and of other clients, with
\* either process dying at any moment, but for the broadcasts whose ipcSendMessage returned
\* an error.
THEOREM SystemImplementsBroadcast == SystemSpec => PoolFollowsBroadcasts
<1>1. SystemInit => EndToEnd!Init
  <2> SUFFICES ASSUME SystemInit PROVE EndToEnd!Init
    OBVIOUS
  <2>1. Wired = {} /\ nsent = 0 /\ cut = {}
    BY DEF SystemInit, Wired, Init, LibraryInit
  <2>2. Receiving = {}
    BY <2>1 DEF Receiving, Held
  <2>3. QED
    BY <2>1, <2>2 DEF EndToEnd!Init
<1>2. FollowsInv /\ FollowsInv' /\ View /\ View' /\ [SystemNext]_allVars
        => [EndToEnd!Next]_EndToEnd!vars
  <2>1. SystemNext \/ UNCHANGED allVars => ServerSide(ServerAction) \/ Environment
    BY NextIsServerOrEnvironment
  <2>2. QED
    BY <2>1, ServerRefines, OthersRefine DEF Abstract
<1>3. FollowsInv /\ [SystemNext]_allVars => FollowsInv'
  BY FollowsInvStep
<1>4. QED
  BY <1>1, <1>2, <1>3, FollowsInvInit, ViewHolds, PTL
     DEF SystemSpec, PoolFollowsBroadcasts, EndToEnd!Spec
=============================================================================
