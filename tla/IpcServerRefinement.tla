------------------------- MODULE IpcServerRefinement -------------------------
(***************************************************************************)
(* The proof that IpcServer implements IpcBroadcast.  By DeliveryInv all   *)
(* that lies between the client in slot i and broadcast Given(i) has       *)
(* failed, so that a write of ipcSendMessage takes it to the broadcast it  *)
(* writes, an error of ipcSendMessage is a broadcast that fails, and no    *)
(* other step moves a client.                                              *)
(***************************************************************************)
EXTENDS IpcServerProofs

USE DEF vars, library, table, epoll, app, thread, files, links, traffic

-----------------------------------------------------------------------------
(* The refinement mapping *)

\* The client in a slot is a subscriber, at the last broadcast it has been given.
LEMMA PositionOfSlot ==
  ASSUME DeliveryInv, NEW i \in Slots, clientFd[i] # None
  PROVE  clientFd[i] \in Subscribed /\ Position[clientFd[i]] = LastGiven(clientFd[i])
<1>1. clientFd[i] \in Conns /\ clientFd[i] \in Subscribed
  BY DEF DeliveryInv, ProcessInv, TypeOK, TableType, Subscribed
<1>2. QED
  BY <1>1 DEF Position

\* Only clients are subscribers.
LEMMA SubscribedIsSubset == DeliveryInv => Subscribed \subseteq Conns
  BY DEF DeliveryInv, ProcessInv, TypeOK, TableType, Subscribed

-----------------------------------------------------------------------------
(* What the steps are for a subscriber *)

\* A step that touches neither the table nor the broadcasts is invisible.
LEMMA Invisible ==
  UNCHANGED <<clientFd, got, cut, joined, nsent>> => UNCHANGED Broadcast!vars
  BY DEF Broadcast!vars, Subscribed, Position, LastGiven

\* Giving up the table is the leaving of all its clients.
LEMMA TableGivenUp ==
  clientFd' = [i \in Slots |-> None] /\ UNCHANGED <<got, cut, joined, nsent>>
    => Broadcast!Leave(Subscribed)
<1> SUFFICES ASSUME clientFd' = [i \in Slots |-> None], UNCHANGED <<got, cut, joined, nsent>>
             PROVE  Broadcast!Leave(Subscribed)
  OBVIOUS
<1>1. Subscribed' = {}
  BY DEF Subscribed
<1>2. Position' = [c \in Conns |-> IF c \in Subscribed THEN 0 ELSE Position[c]]
  BY <1>1 DEF Position
<1>3. QED
  BY <1>1, <1>2 DEF Broadcast!Leave

\* The lock of ipcSendMessage begins a broadcast.
LEMMA SendLockRefines ==
  ASSUME SendLock PROVE Broadcast!Publish \/ UNCHANGED Broadcast!vars
<1>1. UNCHANGED <<clientFd, got, cut, joined>> /\ (nsent' = nsent + 1 \/ nsent' = nsent)
  BY DEF SendLock
<1>2. Subscribed' = Subscribed /\ Position' = Position
  BY <1>1 DEF Subscribed, Position, LastGiven
<1>3. QED
  BY <1>1, <1>2 DEF Broadcast!Publish, Broadcast!vars

\* A write of ipcSendMessage takes the client of its slot to the broadcast it writes.
LEMMA SendWriteRefines ==
  ASSUME DeliveryInv, SendWrite
  PROVE  (\E c \in Conns : Broadcast!Deliver(c)) \/ UNCHANGED Broadcast!vars
<1> USE DescriptorsDiffer
<1>1. slot \in Slots /\ Sending /\ UNCHANGED <<clientFd, cut, joined, nsent>>
  BY DEF SendWrite, LoopSlots
<1>2. CASE got' = got
  BY <1>1, <1>2, Invisible
<1>3. ASSUME NEW c \in Conns, clientFd[slot] = c, got' = [got EXCEPT ![c] = Append(@, nsent)]
      PROVE  Broadcast!Deliver(c)
  <2>1. Subscribed' = Subscribed
    BY <1>1 DEF Subscribed
  <2>2. c \in Subscribed /\ Position[c] = LastGiven(c)
    BY <1>1, <1>3, PositionOfSlot
  <2>3. LastGiven(c) <= nsent - 1 /\ LastGiven(c) + 1 .. nsent - 1 \subseteq cut
    BY <1>1, <1>3 DEF DeliveryInv, MissedOnlyIfReported, Given, Slots
  <2>4. LastGiven(c) \in Nat /\ nsent \in Nat /\ LastGiven(c)' = nsent
    BY <1>1, <1>3, LastGivenType, WriteAppends DEF DeliveryInv, ProcessInv, TypeOK, TrafficType
  <2>5. \A d \in Conns : d # c => LastGiven(d)' = LastGiven(d)
    BY <1>1, <1>3 DEF LastGiven, DeliveryInv, ProcessInv, TypeOK, TrafficType
  <2>6. Position' = [Position EXCEPT ![c] = nsent]
    BY <2>1, <2>2, <2>4, <2>5 DEF Position
  <2>7. nsent \in Position[c] + 1 .. nsent
    BY <2>2, <2>3, <2>4
  <2>8. QED
    BY <1>1, <2>1, <2>2, <2>3, <2>6, <2>7 DEF Broadcast!Deliver
<1>4. QED
  BY <1>2, <1>3 DEF SendWrite

\* An error of ipcSendMessage is the failing of the broadcast that is being written.
LEMMA SendBrokenRefines ==
  ASSUME DeliveryInv, SendBroken PROVE Broadcast!Fail
<1>1. UNCHANGED <<clientFd, got, joined, nsent>> /\ cut' = cut \cup {nsent}
  BY DEF SendBroken, SendFails
<1>2. PICK c \in Conns : slot \in Slots /\ Sending /\ clientFd[slot] = c
  BY DEF SendBroken, LoopSlots
<1>3. nsent # 0
  <2>1. LastGiven(c) <= nsent - 1
    BY <1>2, DescriptorsDiffer DEF DeliveryInv, MissedOnlyIfReported, Given, Slots
  <2>2. LastGiven(c) \in Nat /\ nsent \in Nat
    BY LastGivenType DEF DeliveryInv, ProcessInv, TypeOK, TrafficType
  <2>3. QED
    BY <2>1, <2>2
<1>4. Subscribed' = Subscribed /\ Position' = Position
  BY <1>1 DEF Subscribed, Position, LastGiven
<1>5. QED
  BY <1>1, <1>3, <1>4 DEF Broadcast!Fail

\* accept is the joining of a client, behind the last broadcast there has been.
LEMMA AcceptRefines ==
  ASSUME DeliveryInv, AcceptClient
  PROVE  (\E c \in Conns : Broadcast!Join(c)) \/ UNCHANGED Broadcast!vars
<1> USE DEF DeliveryInv, ProcessInv, TypeOK, TableType, TrafficType, LinkType
<1>1. UNCHANGED <<got, cut, nsent>>
  BY DEF AcceptClient
<1>2. CASE UNCHANGED <<clientFd, joined>>
  BY <1>1, <1>2, Invisible
<1>3. ASSUME NEW c \in Conns, link[c] = "queued", FreeSlots # {},
             clientFd' = [clientFd EXCEPT ![FirstOf(FreeSlots)] = c],
             joined' = [joined EXCEPT ![c] = nsent]
      PROVE  Broadcast!Join(c)
  <2> DEFINE i == FirstOf(FreeSlots)
  <2>1. i \in Slots /\ clientFd[i] = None
    <3>1. FreeSlots \in SUBSET Slots /\ \A j \in FreeSlots : clientFd[j] = None
      BY DEF FreeSlots
    <3>2. FirstOf(FreeSlots) \in FreeSlots
      BY <1>3, <3>1, FirstOfIsIn
    <3>3. QED
      BY <3>1, <3>2
  <2>2. c \notin Subscribed
    BY <1>3 DEF Subscribed, SlotsSound
  <2>3. Subscribed' = Subscribed \cup {c}
    BY <1>3, <2>1, DescriptorsDiffer DEF Subscribed
  <2>4. LastGiven(c)' = nsent
    BY <1>1, <1>3 DEF LastGiven, Unaccepted
  <2>5. \A d \in Conns : d # c => LastGiven(d)' = LastGiven(d)
    BY <1>1, <1>3 DEF LastGiven
  <2>6. Position' = [Position EXCEPT ![c] = nsent]
    BY <2>3, <2>4, <2>5 DEF Position
  <2>7. QED
    BY <1>1, <2>2, <2>3, <2>6 DEF Broadcast!Join
<1>4. QED
  BY <1>2, <1>3 DEF AcceptClient, Waiting

\* ipcCloseClient is the leaving of the client it finds in the table.
LEMMA CloseRefines ==
  ASSUME DeliveryInv, CloseClient
  PROVE  (\E S \in SUBSET Subscribed : Broadcast!Leave(S)) \/ UNCHANGED Broadcast!vars
<1> USE DEF DeliveryInv, ProcessInv, TypeOK, TableType
<1>1. UNCHANGED <<got, cut, joined, nsent>> /\ event \in Conns
  BY DEF CloseClient
<1>2. CASE UNCHANGED clientFd
  BY <1>1, <1>2, Invisible
<1>3. CASE SlotsOf(event) # {} /\ clientFd' = [clientFd EXCEPT ![FirstOf(SlotsOf(event))] = None]
  <2> DEFINE i == FirstOf(SlotsOf(event))
  <2>1. i \in Slots /\ clientFd[i] = event
    BY <1>3, FirstOfIsIn DEF SlotsOf
  <2>2. \A j \in Slots : clientFd[j] = event => j = i
    BY <1>1, <2>1, DescriptorsDiffer DEF SlotsSound
  <2>3. event \in Subscribed /\ Subscribed' = Subscribed \ {event}
    BY <1>1, <1>3, <2>1, <2>2, DescriptorsDiffer DEF Subscribed
  <2>4. Position' = [c \in Conns |-> IF c \in {event} THEN 0 ELSE Position[c]]
    BY <1>1, <2>3 DEF Position, LastGiven
  <2>5. Broadcast!Leave({event})
    BY <1>1, <2>3, <2>4 DEF Broadcast!Leave
  <2>6. QED
    BY <2>3, <2>5
<1>4. QED
  BY <1>2, <1>3 DEF CloseClient, ReleaseSlot

-----------------------------------------------------------------------------
(* Every step *)

\* A step of the library, of a client or of the kernel is a step of a broadcast, or is
\* none of its business.
LEMMA StepRefines ==
  ASSUME DeliveryInv, [Step]_vars
  PROVE  [Broadcast!Next]_Broadcast!vars
<1> DEFINE Quiet == UNCHANGED <<got, cut, joined, nsent>>
           GivesUp == clientFd' = [i \in Slots |-> None]
<1>1. CASE Quiet /\ (GivesUp \/ UNCHANGED clientFd)
  <2>1. CASE UNCHANGED clientFd
    BY <1>1, <2>1, Invisible
  <2>2. CASE GivesUp
    BY <1>1, <2>2, TableGivenUp, SubscribedIsSubset DEF Broadcast!Next
  <2>3. QED
    BY <1>1, <2>1, <2>2
<1>2. CASE Call
  <2>1. GivesUp \/ UNCHANGED clientFd
    BY <1>2 DEF Call, CallServerStart, CallSendMessage, CallServerStop, ServerInfoClear
  <2>2. QED
    BY <1>1, <1>2, <2>1, CallFrame
<1>3. CASE StartSteps
  <2>1. GivesUp \/ UNCHANGED clientFd
    BY <1>3 DEF StartSteps, AddServer, AddServerSucceeds, AddServerFails, ReleaseEntry,
                ServerInfoClear, StartThread, SetThreadRunning, WakeThread
  <2>2. QED
    BY <1>1, <1>3, <2>1, StartFrame
<1>4. CASE SendLive
  <2>1. CASE SendBlocks \/ SendDone
    BY <1>1, <2>1 DEF SendBlocks, SendDone
  <2>2. QED
    BY <1>4, <2>1, SendLockRefines, SendWriteRefines, SendBrokenRefines
       DEF SendLive, Broadcast!Next
<1>5. CASE StopSteps
  <2>1. GivesUp \/ UNCHANGED clientFd
    BY <1>5 DEF StopSteps, RemoveServer, DeinitFlag, DeinitCancel, DeinitJoin, DeinitClear,
                ServerInfoClear
  <2>2. Quiet
    BY <1>5, StopFrame DEF DeinitJoin
  <2>3. QED
    BY <1>1, <2>1, <2>2
<1>6. CASE ThreadStep
  <2>1. CASE CloseFd
    BY <1>1, <2>1 DEF CloseFd
  <2>2. CASE CloseClient
    BY <2>2, CloseRefines, SubscribedIsSubset DEF Broadcast!Next
  <2>3. QED
    BY <1>1, <1>6, <2>1, <2>2, AcceptRefines, ThreadLinks DEF Broadcast!Next
<1>7. CASE Clients
  BY <1>1, <1>7, ClientsFrame
<1>8. CASE Dies
  BY <1>1, <1>8 DEF Dies, ProcessDies, ServerInfoClear
<1>9. CASE UNCHANGED vars
  BY <1>1, <1>9
<1>10. QED
  BY <1>2, <1>3, <1>4, <1>5, <1>6, <1>7, <1>8, <1>9 DEF Step

\* A process that starts has no subscribers.
LEMMA InitRefines == Init => Broadcast!Init
<1> SUFFICES ASSUME Init PROVE Broadcast!Init
  OBVIOUS
<1>1. Subscribed = {}
  BY DEF Init, LibraryInit, Subscribed
<1>2. QED
  BY <1>1 DEF Init, Position, Broadcast!Init

\* The table of clients, the writes to it, the thread that accepts and closes clients and
\* the calls that give the table up implement a broadcast, for every number of slots, of
\* clients and of failing system calls: a client misses a broadcast only if its
\* ipcSendMessage returned an error, at whatever slot and for whatever reason.
THEOREM ServerImplementsBroadcast == Spec => ImplementsBroadcast
<1>1. Spec => []DeliveryInv
  BY DeliveryInvariance
<1>2. DeliveryInv /\ [Next]_vars => [Broadcast!Next]_Broadcast!vars
  BY StepRefines, NextIsStep
<1>3. QED
  BY <1>1, <1>2, InitRefines, PTL DEF Spec, ImplementsBroadcast, Broadcast!Spec
=============================================================================
