--------------------------- MODULE IpcClientProofs ---------------------------
(***************************************************************************)
(* What holds of IpcClient for every number of entries and usage types,    *)
(* every layout of the data and every choice of failing system calls: the  *)
(* safety properties that MCClient checks on small instances.  IndInv is   *)
(* the inductive invariant of the process; DataInv, on top of it, is the   *)
(* one of what its pools hold when servers send whole structures.          *)
(***************************************************************************)
EXTENDS IpcClient, FiniteSetTheorems, SequenceTheorems, WellFoundedInduction, TLAPS

USE DEF vars, library, epoll, heap, app, thread, links

-----------------------------------------------------------------------------
(* The constants and the operators *)

\* A new pool and an uninitialised buffer are pools, and no pool is None; there is a
\* first entry and as many descriptors as entries.
LEMMA ConstantsType ==
  /\ SlotNum \in Nat /\ SlotNum >= 1 /\ PoolSize \in Nat /\ PoolSize >= 1
  /\ Zeros \in Pools /\ Blank \in Pools /\ Slots \subseteq Nat /\ Fds \subseteq Nat
  /\ Readers \subseteq Usages
  BY ClientConstants DEF Zeros, Blank, Pools, Slots, Fds

\* No usage type, no descriptor and no owner of the mutex is None.
LEMMA NoneIsNone ==
  /\ None \notin Usages /\ None \notin Fds /\ None # 0 /\ None # "app" /\ None # "thread"
  /\ PipeFd \notin Fds /\ PipeFd # None /\ PipeFd # 0
  BY NamesDiffer DEF Fds

\* A data pool is not the NULL pointer.
LEMMA NoPoolIsNone == None \notin Pools
  BY NamesDiffer DEF Pools

\* The scans of g_clientInfo, and the kernel's choice of a descriptor, end at a member of
\* the set they look for, whenever there is one.
LEMMA FirstOfIsIn ==
  ASSUME NEW S \in SUBSET Nat, S # {}
  PROVE  FirstOf(S) \in S
<1> DEFINE less == OpToRel(<, Nat)
<1>1. PICK m \in S : \A j \in S : <<j, m>> \notin less
  <2>1. IsWellFoundedOn(less, Nat)
    BY NatLessThanWellFounded
  <2> HIDE DEF less
  <2>2. QED
    BY <2>1, WFMin
<1>2. \A j \in S : m <= j
  <2> SUFFICES ASSUME NEW j \in S PROVE m <= j
    OBVIOUS
  <2>1. ~(j < m)
    BY <1>1 DEF OpToRel
  <2>2. QED
    BY <2>1
<1>3. QED
  BY <1>2 DEF FirstOf

\* The entries in use are a finite set, no larger than the table.
LEMMA SubsetFinite ==
  ASSUME NEW S \in SUBSET Slots
  PROVE  IsFiniteSet(S) /\ Cardinality(S) \in Nat /\ Cardinality(S) <= SlotNum
<1>1. IsFiniteSet(Slots) /\ Cardinality(Slots) = SlotNum
  BY ConstantsType, FS_Interval DEF Slots
<1>2. QED
  BY <1>1, FS_Subset, FS_CardinalityType

\* The same of the entries in use now.
LEMMA InUseFinite ==
  IsFiniteSet(InUse) /\ Cardinality(InUse) \in Nat /\ Cardinality(InUse) <= SlotNum
<1>1. InUse \in SUBSET Slots
  BY DEF InUse
<1>2. QED
  BY <1>1, SubsetFinite

-----------------------------------------------------------------------------
(* The steps of the process and its servers *)

\* Calling an API function touches nothing the service thread or the servers own.
LEMMA CallFrame ==
  Call => /\ UNCHANGED <<mutex, allocs, thread, links, told>>
          /\ UNCHANGED <<library, info, epoll>> \/ ~inited
  BY DEF Call, CallClientStart, CallClientStartInvalid, CallReadDataPool,
         CallRegisterCallback, CallClientStop, Fail, Goto, Return

\* ipcClientStart past its call leaves the events and the buffer of the thread alone.
LEMMA StartFrame ==
  StartSteps => UNCHANGED <<inited, batch, cancelled, refused, stream, sent, told>>
  BY DEF StartSteps, AddClient, Connect, StartThread, SetThreadRunning, WakeThread,
         CheckRejected, StartFailed, CountAfterFailure

\* Only ipcAddClient changes entries and connections in a start.
LEMMA StartEntries ==
  StartSteps => AddClient \/ Connect \/ UNCHANGED <<heap, watch, links, told>>
  BY DEF StartSteps, StartThread, SetThreadRunning, WakeThread, CheckRejected, StartFailed,
         CountAfterFailure

\* ipcReadDataPool and ipcRegisterCallback leave the library and the thread alone.
LEMMA ReadFrame ==
  ReadSteps => UNCHANGED <<library, epoll, allocs, mutex, thread, links>>
  BY DEF ReadSteps, ReadDataPool, ReadReturns, RegisterCallback

\* ipcClientStop and ipcClientDeinit leave the mutex free and the thread alone, but for
\* joining it.
LEMMA StopFrame ==
  StopSteps => /\ mutex' = mutex
               /\ UNCHANGED <<tpc, batch, local, refused>> \/ DeinitJoin
  BY DEF StopSteps, RemoveClient, DeinitFlag, DeinitCancel, DeinitJoin, DeinitClear

\* Receiving data changes pools and what the callback is told, and nothing else.
LEMMA DataFrame ==
  ASSUME NEW fd, HandleData(fd)
  PROVE  /\ tpc = "handle" /\ tpc' = "handle" /\ batch' \subseteq batch
         /\ UNCHANGED <<library, epoll, allocs, mutex, app, server, use, sent, cancelled>>
  BY Zenon DEF HandleData, Take

\* ipcClientThread leaves the caller and the flags alone.
LEMMA ThreadFrame ==
  ThreadStep => UNCHANGED <<library, app, cancelled>>
  BY DataFrame DEF ThreadStep, HandlerSteps, LoopTest, EpollWait, CancelledInWait, ActOnCancel,
         ThreadRecheck, ThreadLock, ThreadUnlock, ReadPipe, CancelledInHandler,
         HandleHangup, HandleRefused, HandleEnd, HandleRecvFails, HandleUnknown, Take, Stay

\* The service thread runs while there is one.
LEMMA ThreadIsThere ==
  ThreadStep => tpc # "none" /\ tpc' # "none"
  BY DataFrame DEF ThreadStep, HandlerSteps, LoopTest, EpollWait, CancelledInWait, ActOnCancel,
         ThreadRecheck, ThreadLock, ThreadUnlock, ReadPipe, CancelledInHandler,
         HandleHangup, HandleRefused, HandleEnd, HandleRecvFails, HandleUnknown, Take, Stay

\* Servers change nothing in the process but what is to be received.
LEMMA ServersFrame ==
  Servers => UNCHANGED <<library, epoll, heap, mutex, app, thread, use, told>>
  BY DEF Servers, ServerSends, ServerCloses

\* What the service thread does to the entries and the connections: it releases the entry
\* of an event's descriptor, or receives for it, or neither.
LEMMA ThreadEffect ==
  ASSUME ThreadStep
  PROVE  \/ UNCHANGED <<heap, watch, links, told>>
         \/ /\ tpc = "handle" /\ tpc' = "handle" /\ mutex' = mutex /\ pipe' = pipe
            /\ \/ \E fd \in Fds : /\ EntriesAt(fd) # {}
                                  /\ Release(FirstOf(EntriesAt(fd)))
               \/ \E fd \in Fds : HandleData(fd)
<1>1. CASE HandlerSteps
  <2>1. CASE ReadPipe \/ CancelledInHandler
    BY <2>1 DEF ReadPipe, CancelledInHandler, ActOnCancel
  <2>2. ASSUME NEW fd \in Fds, HandleHangup(fd) \/ HandleRefused(fd) \/ HandleEnd(fd)
                               \/ HandleRecvFails(fd) \/ HandleUnknown(fd)
        PROVE  \/ UNCHANGED <<heap, watch, links, told>>
               \/ /\ tpc = "handle" /\ tpc' = "handle" /\ mutex' = mutex /\ pipe' = pipe
                  /\ EntriesAt(fd) # {} /\ Release(FirstOf(EntriesAt(fd)))
    BY <2>2 DEF HandleHangup, HandleRefused, HandleEnd, HandleRecvFails, HandleUnknown, Take,
       CloseConnect
  <2>3. ASSUME NEW fd \in Fds, HandleData(fd)
        PROVE  tpc = "handle" /\ tpc' = "handle" /\ mutex' = mutex /\ pipe' = pipe
    BY <2>3, DataFrame
  <2>4. QED
    BY <1>1, <2>1, <2>2, <2>3 DEF HandlerSteps
<1>2. CASE ~HandlerSteps
  BY <1>2 DEF ThreadStep, LoopTest, EpollWait, CancelledInWait, ActOnCancel, ThreadRecheck,
              ThreadLock, ThreadUnlock
<1>3. QED
  BY <1>1, <1>2

-----------------------------------------------------------------------------
(* Entries *)

Entry == [usage : Usages \cup {None}, fd : Fds \cup {0, None}, pool : Pools \cup {None},
          cb : BOOLEAN]

\* An event's descriptor is in the entry of a client that is connected, if it is in any
\* (ipcCloseConnectFromServer, ipcReceiveDataFromServer).
LEMMA EntryOfEvent ==
  ASSUME IndInv, tpc # "none", NEW fd \in Fds, EntriesAt(fd) # {}
  PROVE  LET i == FirstOf(EntriesAt(fd)) IN inited /\ i \in InUse /\ info[i].fd = fd
<1> DEFINE i == FirstOf(EntriesAt(fd))
<1>1. i \in Slots /\ info[i].fd = fd
  BY ConstantsType, FirstOfIsIn DEF EntriesAt
<1> HIDE DEF i
<1>2. inited
  BY DEF IndInv, DeinitLeavesNothing
<1>3. info[i].usage # None
  <2> SUFFICES ASSUME info[i] = Empty PROVE FALSE
    BY <1>1, <1>2 DEF IndInv, UnusedAreEmpty
  <2> QED
    BY <1>1, NoneIsNone DEF Empty
<1>4. QED
  BY <1>1, <1>2, <1>3 DEF InUse, i

\* A usage type that is found has the entry of a client (ipcRemoveClient).
LEMMA EntryOfUsage ==
  ASSUME arg # None, EntriesOf(arg) # {}
  PROVE  FirstOf(EntriesOf(arg)) \in InUse /\ info[FirstOf(EntriesOf(arg))].usage = arg
<1>1. FirstOf(EntriesOf(arg)) \in EntriesOf(arg)
  BY ConstantsType, FirstOfIsIn DEF EntriesOf
<1>2. QED
  BY <1>1 DEF EntriesOf, InUse

\* Where there is an empty entry there is a descriptor for a new socket: every open one is of
\* an entry in use.
LEMMA FreeDescriptor ==
  ASSUME IndInv, EntriesOf(None) # {}
  PROVE  LET fd == FirstOf({d \in Fds : server[d] = "none"})
         IN  fd \in Fds /\ server[fd] = "none"
<1> DEFINE free == {d \in Fds : server[d] = "none"}
<1>1. free # {}
  <2> SUFFICES ASSUME \A d \in Fds : server[d] # "none" PROVE FALSE
    OBVIOUS
  <2> DEFINE owner == [d \in Fds |-> CHOOSE i \in InUse : info[i].fd = d]
  <2>1. \A d \in Fds : owner[d] \in InUse /\ info[owner[d]].fd = d
    BY DEF IndInv, NothingLeaks
  <2>2. IsFiniteSet(Fds) /\ Cardinality(Fds) = SlotNum
    BY ConstantsType, FS_Interval DEF Fds
  <2>3. owner \in [Fds -> InUse]
    BY <2>1
  <2> HIDE DEF owner
  <2>4. \E d, e \in Fds : d # e /\ owner[d] = owner[e]
    <3>1. Cardinality(InUse) < Cardinality(Fds)
      <4>1. PICK i \in Slots : i \notin InUse
        BY DEF EntriesOf, InUse
      <4>2. IsFiniteSet(Slots) /\ Cardinality(Slots) = SlotNum
        BY ConstantsType, FS_Interval DEF Slots
      <4>3. IsFiniteSet(Slots \ {i}) /\ Cardinality(Slots \ {i}) = SlotNum - 1
        BY <4>2, FS_RemoveElement
      <4>4. InUse \subseteq Slots \ {i}
        BY <4>1 DEF InUse
      <4>5. Cardinality(InUse) <= SlotNum - 1
        BY <4>3, <4>4, FS_Subset
      <4>6. QED
        BY <2>2, <4>5, InUseFinite, ConstantsType
    <3>2. QED
      BY <2>2, <2>3, <3>1, InUseFinite, FS_PigeonHole
  <2>5. QED
    BY <2>1, <2>4
<1>2. free \in SUBSET Nat
  BY ConstantsType
<1>3. FirstOf(free) \in free
  BY <1>1, <1>2, FirstOfIsIn
<1>4. QED
  BY <1>3

-----------------------------------------------------------------------------
(* What a step does to the entries, the connections and the pools *)

\* The pool ipcAddClient has allocated and not entered yet.
Pending == IF pc = "start_connect" THEN 1 ELSE 0

\* A step that leaves the entries and connections alone, except for the malloc and free of
\* ipcAddClient.
Same ==
  /\ UNCHANGED <<inited, info, watch, links, told>>
  /\ allocs' = allocs + Pending' - Pending

\* ipcClientInfoClear, called before anything is open or when everything is closed.
Cleared ==
  /\ ClientInfoClear
  /\ ~inited \/ (InUse = {} /\ ~inited')
  /\ watch' \subseteq watch \cup {PipeFd}
  /\ Pending = 0 /\ Pending' = 0
  /\ UNCHANGED <<allocs, links, told>>

\* The connection of ipcAddClient is there, and is entered.
Added(i, fd) ==
  /\ inited /\ inited' /\ arg # None /\ EntriesOf(arg) = {}
  /\ info[i].usage = None /\ info' = [info EXCEPT ![i] = NewEntry(fd)]
  /\ server[fd] = "none" /\ watch' = watch \cup {fd}
  /\ server' = [server EXCEPT ![fd] = "up"] /\ use' = [use EXCEPT ![fd] = arg]
  /\ Pending = 1 /\ Pending' = 0
  /\ UNCHANGED <<allocs, stream, sent, told>>

\* ipcRemoveClient or ipcCloseConnectFromServer gives an entry and its connection up.
Released(i) ==
  /\ inited /\ inited' /\ Release(i)
  /\ Pending = 0 /\ Pending' = 0

\* ipcRegisterCallback sets the callback of an entry.
Registered(i) ==
  /\ info[i].usage # None
  /\ info' = [info EXCEPT ![i].cb = TRUE]
  /\ told' = [told EXCEPT ![i] = IF info[i].pool = None THEN Zeros ELSE info[i].pool]
  /\ Pending = 0 /\ Pending' = 0
  /\ UNCHANGED <<inited, allocs, watch, links>>

\* ipcReceiveDataFromServer takes a message from a connection.
Delivered(fd) == HandleData(fd) /\ Pending = 0 /\ Pending' = 0

\* There is nothing else a step of the process can do to them.
Effect ==
  \/ Same \/ Cleared
  \/ \E i \in Slots, fd \in Fds : Added(i, fd)
  \/ \E i \in InUse : Released(i)
  \/ \E i \in Slots : Registered(i)
  \/ \E fd \in Fds : Delivered(fd)

ProcessStep == Call \/ StartSteps \/ ReadSteps \/ StopSteps \/ ThreadStep

\* Every step of the process has one of these effects.
LEMMA ProcessHasEffect == ASSUME IndInv, ProcessStep \/ UNCHANGED vars PROVE Effect
<1> USE DEF Pending
<1>0. allocs \in Nat
  BY DEF IndInv, TypeOK, HeapType
<1>1. CASE UNCHANGED vars
  BY <1>0, <1>1 DEF Effect, Same
<1>2. CASE Call
  <2>1. Pending = 0 /\ Pending' = 0
    BY <1>2 DEF Call, CallClientStart, CallClientStartInvalid, CallReadDataPool,
                CallRegisterCallback, CallClientStop, Fail, Goto, Return
  <2>2. Same \/ Cleared
    BY <1>0, <1>2, <2>1, CallFrame DEF Same, Cleared, Call, CallClientStart, CallClientStartInvalid,
         CallReadDataPool, CallRegisterCallback, CallClientStop
  <2>3. QED
    BY <2>2 DEF Effect
<1>3. CASE StartSteps
  <2>1. CASE AddClient
    <3>1. allocs \in Nat
      BY DEF IndInv, TypeOK, HeapType
    <3>2. Same
      BY <1>0, <2>1, <3>1 DEF Same, AddClient, Goto, Fail
    <3>3. QED
      BY <3>2 DEF Effect
  <2>2. CASE Connect
    <3> DEFINE fd == FirstOf({d \in Fds : server[d] = "none"})
               i == FirstOf(EntriesOf(None))
    <3>1. inited /\ inited' /\ arg # None /\ EntriesOf(arg) = {} /\ EntriesOf(None) # {}
      BY <1>3, <2>2, StartFrame DEF Connect, IndInv, CallInv
    <3>2. fd \in Fds /\ server[fd] = "none"
      BY <3>1, FreeDescriptor
    <3>3. i \in Slots /\ info[i].usage = None
      BY <3>1, ConstantsType, FirstOfIsIn DEF EntriesOf
    <3>4. allocs \in Nat
      BY DEF IndInv, TypeOK, HeapType
    <3> HIDE DEF i, fd
    <3>5. Added(i, fd) \/ Same
      BY <1>0, <2>2, <3>1, <3>2, <3>3, <3>4, StartFrame
      DEF Connect, Added, Same, Goto, Fail, FreePool, i, fd
    <3>6. QED
      BY <3>2, <3>3, <3>5 DEF Effect
  <2>3. CASE ~AddClient /\ ~Connect
    <3>1. UNCHANGED <<heap, inited, watch, links, told>>
      BY <1>3, <2>3, StartEntries, StartFrame
    <3>2. Pending' = Pending
      BY <1>3, <2>3 DEF StartSteps, StartThread, SetThreadRunning, WakeThread, CheckRejected,
           StartFailed, CountAfterFailure, Goto, Fail, Return
    <3>3. QED
      BY <1>0, <3>1, <3>2 DEF Effect, Same
  <2>4. QED
    BY <2>1, <2>2, <2>3
<1>4. CASE ReadSteps
  <2>1. Pending = 0 /\ Pending' = 0
    BY <1>4 DEF ReadSteps, ReadDataPool, ReadReturns, RegisterCallback, Return
  <2>2. CASE RegisterCallback /\ EntriesOf(arg) # {}
    <3> DEFINE i == FirstOf(EntriesOf(arg))
    <3>1. i \in Slots /\ info[i].usage # None
      <4>1. arg # None
        BY <2>2 DEF RegisterCallback, IndInv, CallInv
      <4>2. QED
        BY <2>2, <4>1, ConstantsType, FirstOfIsIn DEF EntriesOf
    <3> HIDE DEF i
    <3>2. Registered(i)
      BY Zenon, <2>1, <2>2, <3>1 DEF RegisterCallback, Registered, i
    <3>3. QED
      BY <3>1, <3>2 DEF Effect
  <2>3. CASE ~(RegisterCallback /\ EntriesOf(arg) # {})
    <3>1. UNCHANGED <<info, told>>
      BY <1>4, <2>3 DEF ReadSteps, ReadDataPool, ReadReturns, RegisterCallback
    <3>2. QED
      BY <1>0, <1>4, <2>1, <3>1, ReadFrame DEF Effect, Same
  <2>4. QED
    BY <2>2, <2>3
<1>5. CASE StopSteps
  <2>1. Pending = 0 /\ Pending' = 0
    BY <1>5 DEF StopSteps, RemoveClient, DeinitFlag, DeinitCancel, DeinitJoin, DeinitClear,
         Return, Goto
  <2>2. CASE RemoveClient /\ EntriesOf(arg) # {}
    <3>1. inited /\ inited' /\ arg # None
      BY <2>2 DEF RemoveClient, IndInv, CallInv
    <3>2. Released(FirstOf(EntriesOf(arg)))
      BY <2>1, <2>2, <3>1 DEF RemoveClient, Released
    <3>3. QED
      BY <2>2, <3>1, <3>2, EntryOfUsage DEF Effect
  <2>3. CASE DeinitClear
    <3>1. InUse = {}
      BY <2>3 DEF DeinitClear, IndInv, CallInv
    <3>2. Cleared
      BY <2>1, <2>3, <3>1 DEF DeinitClear, Cleared
    <3>3. QED
      BY <3>2 DEF Effect
  <2>4. CASE UNCHANGED <<inited, info, allocs, watch, links, told>>
    BY <1>0, <2>1, <2>4 DEF Effect, Same
  <2>5. QED
    BY <1>5, <2>2, <2>3, <2>4 DEF StopSteps, RemoveClient, DeinitFlag, DeinitCancel, DeinitJoin
<1>6. CASE ThreadStep
  <2>1. UNCHANGED <<inited, pc>> /\ tpc # "none"
    BY <1>6, ThreadFrame, ThreadIsThere
  <2>2. CASE UNCHANGED <<heap, watch, links, told>>
    BY <1>0, <2>1, <2>2 DEF Effect, Same
  <2>3. CASE tpc = "handle"
    <3>1. Pending = 0 /\ Pending' = 0
      BY <2>1, <2>3 DEF IndInv, LockInv, LockHeldByLiveThread
    <3>2. ASSUME NEW fd \in Fds, EntriesAt(fd) # {}, Release(FirstOf(EntriesAt(fd)))
          PROVE  Effect
      <4>1. inited /\ FirstOf(EntriesAt(fd)) \in InUse
        BY <2>1, <3>2, EntryOfEvent
      <4>2. Released(FirstOf(EntriesAt(fd)))
        BY <2>1, <3>1, <3>2, <4>1 DEF Released
      <4>3. QED
        BY <4>1, <4>2 DEF Effect
    <3>3. ASSUME NEW fd \in Fds, HandleData(fd) PROVE Effect
      BY <3>1, <3>3 DEF Effect, Delivered
    <3>4. QED
      BY <1>6, <2>2, <3>2, <3>3, ThreadEffect
  <2>4. QED
    BY <1>6, <2>2, <2>3, ThreadEffect
<1>7. QED
  BY <1>1, <1>2, <1>3, <1>4, <1>5, <1>6 DEF ProcessStep

\* Every other step is one of the servers.
LEMMA StepHasEffect == ASSUME IndInv, [Next]_vars PROVE Effect \/ Servers
  BY ProcessHasEffect DEF Next, ProcessStep

-----------------------------------------------------------------------------
(* The effects, field by field *)

\* Added, with what the type invariant and EntriesSound say of the entries around it.
AddedAt(i, fd) ==
  /\ inited /\ inited' /\ i \notin InUse /\ InUse' = InUse \cup {i}
  /\ info' \in [Slots -> Entry] /\ info'[i].usage = arg /\ info'[i].fd = fd
  /\ info'[i].pool = Zeros /\ info'[i].cb = FALSE /\ Zeros # None /\ arg # None
  /\ \A j \in Slots : j # i => info'[j] = info[j]
  /\ \A j \in InUse : info[j].usage # arg /\ info[j].fd # fd
  /\ \A d \in Fds : d # fd => server'[d] = server[d] /\ use'[d] = use[d]
  /\ server'[fd] = "up" /\ use'[fd] = arg /\ watch' = watch \cup {fd}
  /\ UNCHANGED <<allocs, stream, sent, told>> /\ Pending = 1 /\ Pending' = 0

\* A client that ipcAddClient enters gets an entry, a usage type and a descriptor that no
\* other entry has.
LEMMA AddedFacts ==
  ASSUME IndInv, NEW i \in Slots, NEW fd \in Fds, Added(i, fd)
  PROVE  AddedAt(i, fd)
<1> USE DEF Added, IndInv, TypeOK, HeapType, LinkType, AppType
<1>1. info \in [Slots -> Entry] /\ NewEntry(fd) \in Entry
  BY ConstantsType DEF Entry, NewEntry
<1>2. i \notin InUse /\ InUse' = InUse \cup {i}
  BY <1>1 DEF InUse, NewEntry
<1>3. \A j \in InUse : info[j].usage # arg /\ info[j].fd # fd
  BY DEF EntriesSound, EntriesOf, InUse
<1>4. info' \in [Slots -> Entry] /\ info'[i] = NewEntry(fd)
  BY <1>1
<1>5. /\ info'[i].usage = arg /\ info'[i].fd = fd /\ info'[i].pool = Zeros
      /\ info'[i].cb = FALSE
  BY <1>4 DEF NewEntry
<1>6. Zeros # None
  BY ConstantsType, NoPoolIsNone
<1>7. \A j \in Slots : j # i => info'[j] = info[j]
  BY <1>1
<1>8. QED
  BY <1>2, <1>3, <1>4, <1>5, <1>6, <1>7 DEF AddedAt

\* Released, likewise.
ReleasedAt(i) ==
  LET fd == info[i].fd IN
  /\ inited /\ inited' /\ fd \in Fds /\ i \in Slots /\ InUse' = InUse \ {i}
  /\ info' \in [Slots -> Entry] /\ info'[i] = Empty
  /\ \A j \in Slots : j # i => info'[j] = info[j] /\ told'[j] = told[j]
  /\ \A j \in InUse : j # i => info[j].fd # fd
  /\ \A d \in Fds : d # fd => /\ server'[d] = server[d] /\ use'[d] = use[d]
                              /\ stream'[d] = stream[d] /\ sent'[d] = sent[d]
  /\ server'[fd] = "none" /\ stream'[fd] = << >> /\ sent'[fd] = << >>
  /\ watch' = watch \ {fd} /\ allocs' = allocs - 1 /\ Pending = 0 /\ Pending' = 0

\* An entry that is given up closes its own connection and nobody else's.
LEMMA ReleasedFacts ==
  ASSUME IndInv, NEW i \in InUse, Released(i)
  PROVE  ReleasedAt(i)
<1> USE DEF Released, Release, CloseSocket, IndInv, TypeOK, HeapType, LinkType
<1>1. info \in [Slots -> Entry] /\ Empty \in Entry
  BY DEF Entry, Empty
<1>2. info[i].fd \in Fds /\ i \in Slots /\ \A j \in InUse : j # i => info[j].fd # info[i].fd
  BY DEF EntriesSound, InUse
<1>3. info' \in [Slots -> Entry] /\ info'[i] = Empty
  BY <1>1, <1>2
<1>4. \A j \in Slots : j # i => info'[j] = info[j] /\ told'[j] = told[j]
  BY <1>1
<1>5. InUse' = InUse \ {i}
  BY <1>1, <1>2, <1>3, <1>4 DEF InUse, Empty
<1>6. QED
  BY <1>2, <1>3, <1>4, <1>5 DEF ReleasedAt

\* Registered, likewise.
RegisteredAt(i) ==
  /\ info' \in [Slots -> Entry] /\ InUse' = InUse
  /\ \A j \in Slots : /\ info'[j].usage = info[j].usage /\ info'[j].fd = info[j].fd
                      /\ info'[j].pool = info[j].pool
                      /\ j # i => info'[j] = info[j] /\ told'[j] = told[j]
  /\ info[i].pool # None => told'[i] = info[i].pool
  /\ info[i].usage # None /\ told' \in [Slots -> Pools]
  /\ UNCHANGED <<inited, allocs, watch, links>> /\ Pending = 0 /\ Pending' = 0

\* Registering a callback changes the callback of one entry, and what that one is told.
LEMMA RegisteredFacts ==
  ASSUME IndInv, NEW i \in Slots, Registered(i)
  PROVE  RegisteredAt(i)
<1>1. /\ info' \in [Slots -> Entry]
      /\ \A j \in Slots : /\ info'[j].usage = info[j].usage /\ info'[j].fd = info[j].fd
                          /\ info'[j].pool = info[j].pool
                          /\ j # i => info'[j] = info[j]
  <2>1. info \in [Slots -> Entry]
    BY DEF IndInv, TypeOK, HeapType, Entry
  <2>2. info' = [info EXCEPT ![i].cb = TRUE]
    BY Zenon DEF Registered
  <2>3. QED
    BY <2>1, <2>2 DEF Entry
<1>2. InUse' = InUse
  BY <1>1 DEF InUse
<1>3. info[i].pool \in Pools \cup {None} /\ told \in [Slots -> Pools]
  BY DEF IndInv, TypeOK, HeapType
<1>4. told' \in [Slots -> Pools] /\ (info[i].pool # None => told'[i] = info[i].pool)
  BY <1>3, ConstantsType DEF Registered
<1>5. \A j \in Slots : j # i => told'[j] = told[j]
  BY <1>3 DEF Registered
<1>6. QED
  BY <1>1, <1>2, <1>4, <1>5 DEF Registered, RegisteredAt

\* What recv() leaves in localDataPool is a pool.
LEMMA ReceivedIsPool ==
  ASSUME TypeOK, NEW fd \in Fds PROVE Received(fd) \in Pools
<1>1. stream[fd] \in Seq(Values) /\ local \in [Fields -> Values \cup {Junk}]
  BY DEF TypeOK, LinkType, ThreadType, Pools
<1>2. \A f \in Fields : f \in Nat /\ f >= 1
  BY ClientConstants
<1>3. \A f \in Fields : f <= Len(stream[fd]) => stream[fd][f] \in Values
  BY <1>1, <1>2
<1>4. QED
  BY <1>1, <1>3 DEF Received, Pools

\* Delivered to the pool of entry i.
DeliveredTo(i, fd) ==
  /\ inited /\ inited' /\ i \in Slots /\ info[i].fd = fd /\ stream[fd] # << >>
  /\ info' \in [Slots -> Entry] /\ InUse' = InUse
  /\ \A j \in Slots : /\ info'[j].usage = info[j].usage /\ info'[j].fd = info[j].fd
                      /\ info'[j].cb = info[j].cb
                      /\ j # i => info'[j] = info[j] /\ told'[j] = told[j]
  /\ info'[i].pool = Received(fd) /\ info[i].pool \in Pools
  /\ info[i].cb => \A f \in Watched :
       told'[i][f] = IF info[i].pool[f] # Received(fd)[f] THEN Received(fd)[f] ELSE told[i][f]
  /\ told' \in [Slots -> Pools] /\ local' = Received(fd)
  /\ stream' = [stream EXCEPT ![fd] = Rest(@)]
  /\ UNCHANGED <<allocs, watch, server, use, sent>> /\ Pending = 0 /\ Pending' = 0

\* A message that is received goes to the pool of the one entry whose connection it came
\* from, and its callback is told of the watched fields that differ.
LEMMA DeliveredFacts ==
  ASSUME IndInv, NEW fd \in Fds, Delivered(fd)
  PROVE  \E i \in InUse : DeliveredTo(i, fd)
<1> DEFINE i == FirstOf(EntriesAt(fd))
           new == Received(fd)
<1>1. tpc = "handle" /\ EntriesAt(fd) # {} /\ stream[fd] # << >>
  BY Zenon DEF Delivered, HandleData, Take
<1>2. inited /\ i \in InUse /\ i \in Slots /\ info[i].fd = fd
  BY <1>1, EntryOfEvent DEF InUse
<1>3. new \in Pools
  BY ReceivedIsPool DEF IndInv
<1>4. /\ info' = [info EXCEPT ![i].pool = new]
      /\ told' = [told EXCEPT ![i] =
             IF info[i].cb
               THEN [f \in Fields |-> IF f \in Changed(info[i].pool, new) THEN new[f] ELSE @[f]]
               ELSE @]
      /\ local' = new /\ stream' = [stream EXCEPT ![fd] = Rest(@)]
  BY Zenon DEF Delivered, HandleData, Stored
<1>5. UNCHANGED <<inited, allocs, watch, server, use, sent>>
  BY DataFrame DEF Delivered
<1> HIDE DEF i, new
<1>6. /\ info' \in [Slots -> Entry] /\ info'[i].pool = new
      /\ \A j \in Slots : /\ info'[j].usage = info[j].usage /\ info'[j].fd = info[j].fd
                          /\ info'[j].cb = info[j].cb
                          /\ j # i => info'[j] = info[j]
  <2>1. info \in [Slots -> Entry]
    BY DEF IndInv, TypeOK, HeapType, Entry
  <2>2. info' = [info EXCEPT ![i].pool = new]
    BY <1>4
  <2>3. QED
    BY <1>2, <1>3, <2>1, <2>2 DEF Entry
<1>7. InUse' = InUse
  BY <1>6 DEF InUse
<1>8. info[i].pool \in Pools
  BY <1>2 DEF IndInv, TypeOK, HeapType, EntriesSound
<1>9. told \in [Slots -> Pools] /\ Watched \subseteq Fields
  BY ClientConstants DEF IndInv, TypeOK
<1>10. told' \in [Slots -> Pools]
  BY <1>2, <1>3, <1>4, <1>9 DEF Pools
<1>11. \A j \in Slots : j # i => told'[j] = told[j]
  BY <1>4, <1>9
<1>12. info[i].cb => \A f \in Watched :
         told'[i][f] = IF info[i].pool[f] # new[f] THEN new[f] ELSE told[i][f]
  BY <1>2, <1>4, <1>9 DEF Changed
<1>13. QED
  BY <1>1, <1>2, <1>4, <1>5, <1>6, <1>7, <1>8, <1>10, <1>11, <1>12 DEF new, Delivered, DeliveredTo

\* What the process does to its connections: connect() opens one, close() ends one, recv()
\* takes a structure from one.
Opens(fd) ==
  server[fd] = "none" /\ server' = [server EXCEPT ![fd] = "up"] /\ UNCHANGED <<stream, sent>>
Closes(fd) ==
  /\ server[fd] # "none" /\ server' = [server EXCEPT ![fd] = "none"]
  /\ stream' = [stream EXCEPT ![fd] = << >>] /\ sent' = [sent EXCEPT ![fd] = << >>]
Receives(fd) ==
  stream[fd] # << >> /\ stream' = [stream EXCEPT ![fd] = Rest(@)] /\ UNCHANGED <<server, sent>>

\* It does no more than one of these at a time.
LEMMA ConnectionStep ==
  ASSUME IndInv, ProcessStep \/ UNCHANGED vars
  PROVE  \/ UNCHANGED <<server, stream, sent>>
         \/ \E fd \in Fds : Opens(fd) \/ Closes(fd) \/ Receives(fd)
<1>1. CASE Same \/ Cleared \/ \E i \in Slots : Registered(i)
  BY <1>1 DEF Same, Cleared, Registered
<1>2. ASSUME NEW i \in Slots, NEW fd \in Fds, Added(i, fd) PROVE Opens(fd)
  BY <1>2 DEF Added, Opens
<1>3. ASSUME NEW i \in InUse, Released(i) PROVE \E fd \in Fds : Closes(fd)
  <2>1. inited /\ Release(i)
    BY <1>3 DEF Released
  <2>2. info[i].fd \in Fds /\ server[info[i].fd] # "none"
    BY <2>1 DEF IndInv, EntriesSound
  <2>3. Closes(info[i].fd)
    BY <2>1, <2>2 DEF Release, CloseSocket, Closes
  <2>4. QED
    BY <2>2, <2>3
<1>4. ASSUME NEW fd \in Fds, Delivered(fd) PROVE Receives(fd)
  <2>1. PICK i \in InUse : DeliveredTo(i, fd)
    BY <1>4, DeliveredFacts
  <2>2. QED
    BY <2>1 DEF DeliveredTo, Receives
<1>5. QED
  BY <1>1, <1>2, <1>3, <1>4, ProcessHasEffect DEF Effect

-----------------------------------------------------------------------------
(* The entries, the connections and the pools *)

\* What a server does to a connection leaves the process as it is.
ServersAct ==
  /\ UNCHANGED <<inited, info, allocs, watch, use, told>> /\ Pending' = Pending
  /\ \A d \in Fds : server'[d] = server[d] \/ (server[d] = "up" /\ server'[d] = "closed")

\* Servers send and hang up; they open no connection and close none for good.
LEMMA ServersFacts ==
  ASSUME IndInv, Servers
  PROVE  ServersAct
<1>1. UNCHANGED <<inited, info, allocs, watch, use, told>> /\ Pending' = Pending
  BY ServersFrame DEF Pending
<1>2. \A d \in Fds : server'[d] = server[d] \/ (server[d] = "up" /\ server'[d] = "closed")
  BY DEF Servers, ServerSends, ServerCloses, IndInv, TypeOK, LinkType
<1>3. QED
  BY <1>1, <1>2 DEF ServersAct

\* Every step keeps the unused entries empty (ipcClientInfoClear, ipcRemoveClient,
\* ipcCloseConnectFromServer).
LEMMA UnusedStep == ASSUME IndInv, [Next]_vars PROVE UnusedAreEmpty'
<1> USE DEF UnusedAreEmpty, IndInv
<1>1. CASE Same
  BY <1>1 DEF Same
<1>2. CASE Cleared
  BY <1>2 DEF Cleared, ClientInfoClear
<1>3. CASE Servers
  <2>0. ServersAct
    BY <1>3, ServersFacts
  <2>1. QED
    BY <2>0 DEF ServersAct
<1>4. ASSUME NEW i \in Slots, NEW fd \in Fds, Added(i, fd) PROVE UnusedAreEmpty'
  <2>0. AddedAt(i, fd)
    BY <1>4, AddedFacts
  <2>1. QED
    BY <2>0 DEF AddedAt
<1>5. ASSUME NEW i \in InUse, Released(i) PROVE UnusedAreEmpty'
  <2>0. ReleasedAt(i)
    BY <1>5, ReleasedFacts
  <2>1. QED
    BY <2>0 DEF ReleasedAt
<1>6. ASSUME NEW i \in Slots, Registered(i) PROVE UnusedAreEmpty'
  <2>0. RegisteredAt(i)
    BY <1>6, RegisteredFacts
  <2> SUFFICES ASSUME inited', NEW j \in Slots, info'[j].usage = None PROVE info'[j] = Empty
    OBVIOUS
  <2>1. CASE j # i
    BY <2>0, <2>1 DEF RegisteredAt
  <2>2. CASE j = i
    BY <2>0, <2>2 DEF RegisteredAt
  <2>3. QED
    BY <2>1, <2>2
<1>7. ASSUME NEW fd \in Fds, Delivered(fd) PROVE UnusedAreEmpty'
  <2>1. PICK i \in InUse : DeliveredTo(i, fd)
    BY <1>7, DeliveredFacts
  <2>2. ASSUME NEW j \in Slots, info'[j].usage = None PROVE info'[j] = Empty
    BY <2>1, <2>2 DEF DeliveredTo, InUse
  <2>3. QED
    BY <2>2
<1>8. QED
  BY <1>1, <1>2, <1>3, <1>4, <1>5, <1>6, <1>7, StepHasEffect DEF Effect

\* Every step keeps each entry in use a connection of its own (ipcAddClient,
\* ipcRemoveClient, ipcCloseConnectFromServer).
LEMMA EntriesStep == ASSUME IndInv, [Next]_vars PROVE EntriesSound'
<1> USE DEF EntriesSound
<1>0. EntriesSound
  BY DEF IndInv
<1>1. CASE Same
  BY <1>0, <1>1 DEF Same, InUse
<1>2. CASE Cleared
  BY <1>2 DEF Cleared, ClientInfoClear, InUse, Empty
<1>3. CASE Servers
  <2>0. ServersAct
    BY <1>3, ServersFacts
  <2>1. InUse' = InUse
    BY <2>0 DEF InUse, ServersAct
  <2>2. QED
    BY <1>0, <2>0, <2>1 DEF ServersAct
<1>4. ASSUME NEW i \in Slots, NEW fd \in Fds, Added(i, fd) PROVE EntriesSound'
  <2>0. AddedAt(i, fd)
    BY <1>4, AddedFacts
  <2>1. \A j \in InUse : j \in Slots /\ j # i
    BY <2>0 DEF InUse, AddedAt
  <2>2. QED
    BY <1>0, <2>0, <2>1 DEF AddedAt
<1>5. ASSUME NEW i \in InUse, Released(i) PROVE EntriesSound'
  <2>0. ReleasedAt(i)
    BY <1>5, ReleasedFacts
  <2>1. \A j \in InUse' : j \in InUse /\ j \in Slots /\ j # i /\ info'[j] = info[j]
    BY <2>0 DEF InUse, ReleasedAt
  <2>2. QED
    BY <1>0, <2>0, <2>1 DEF ReleasedAt
<1>6. ASSUME NEW i \in Slots, Registered(i) PROVE EntriesSound'
  <2>0. RegisteredAt(i)
    BY <1>6, RegisteredFacts
  <2>1. \A j \in InUse : j \in Slots
    BY DEF InUse
  <2>2. QED
    BY <1>0, <2>0, <2>1 DEF RegisteredAt
<1>7. ASSUME NEW fd \in Fds, Delivered(fd) PROVE EntriesSound'
  <2>1. PICK i \in InUse : DeliveredTo(i, fd)
    BY <1>7, DeliveredFacts
  <2>2. Received(fd) # None
    BY ReceivedIsPool, NoPoolIsNone DEF IndInv
  <2>3. \A j \in InUse : j \in Slots
    BY DEF InUse
  <2>4. QED
    BY <1>0, <2>1, <2>2, <2>3 DEF DeliveredTo
<1>8. QED
  BY <1>1, <1>2, <1>3, <1>4, <1>5, <1>6, <1>7, StepHasEffect DEF Effect

\* The pools that are accounted for.
Owned == IF inited THEN Cardinality(InUse) ELSE 0

\* Every step keeps the pools and the sockets accounted for (ipcAddClient, whose error path
\* frees what it allocated, ipcRemoveClient, ipcCloseConnectFromServer).
LEMMA LeaksStep == ASSUME IndInv, [Next]_vars PROVE NothingLeaks'
<1> DEFINE Open(fd) == inited /\ \E i \in InUse : info[i].fd = fd
<1> SUFFICES allocs' = Owned' + Pending' /\ \A fd \in Fds : server'[fd] # "none" => Open(fd)'
  BY DEF NothingLeaks, Owned, Pending
<1>a. allocs = Owned + Pending /\ \A fd \in Fds : server[fd] # "none" => Open(fd)
  BY DEF IndInv, NothingLeaks, Owned, Pending
<1>b. Owned \in Nat /\ Pending \in {0, 1} /\ Pending' \in {0, 1}
  BY InUseFinite DEF Owned, Pending
<1>1. CASE Same
  <2>1. InUse' = InUse /\ Owned' = Owned
    BY <1>1 DEF Same, InUse, Owned
  <2>2. QED
    BY <1>1, <1>a, <1>b, <2>1 DEF Same
<1>2. CASE Cleared
  <2>1. InUse' = {}
    BY <1>2 DEF Cleared, ClientInfoClear, InUse, Empty
  <2>2. Owned' = 0
    BY <2>1, FS_EmptySet DEF Owned
  <2>3. Owned = 0 /\ \A fd \in Fds : server[fd] = "none"
    BY <1>2, <1>a, FS_EmptySet DEF Cleared, Owned
  <2>4. QED
    BY <1>2, <1>a, <2>2, <2>3 DEF Cleared
<1>3. CASE Servers
  <2>0. ServersAct
    BY <1>3, ServersFacts
  <2>1. InUse' = InUse /\ Owned' = Owned
    BY <2>0 DEF InUse, Owned, ServersAct
  <2>2. QED
    BY <2>0, <1>a, <2>1 DEF ServersAct
<1>4. ASSUME NEW i \in Slots, NEW fd \in Fds, Added(i, fd)
      PROVE  allocs' = Owned' + Pending' /\ \A d \in Fds : server'[d] # "none" => Open(d)'
  <2>0. AddedAt(i, fd)
    BY <1>4, AddedFacts
  <2>1. Owned' = Owned + 1
    BY <2>0, InUseFinite, FS_AddElement DEF Owned, AddedAt
  <2>2. \A j \in InUse : j \in Slots
    BY DEF InUse
  <2>3. \A d \in Fds : server'[d] # "none" => Open(d)'
    BY <2>0, <1>a, <2>2 DEF AddedAt
  <2>4. QED
    BY <2>0, <1>a, <1>b, <2>1, <2>3 DEF AddedAt
<1>5. ASSUME NEW i \in InUse, Released(i)
      PROVE  allocs' = Owned' + Pending' /\ \A d \in Fds : server'[d] # "none" => Open(d)'
  <2>0. ReleasedAt(i)
    BY <1>5, ReleasedFacts
  <2>1. Owned' = Owned - 1
    BY <2>0, InUseFinite, FS_RemoveElement DEF Owned, ReleasedAt
  <2>2. \A j \in InUse : j \in Slots
    BY DEF InUse
  <2>3. \A d \in Fds : server'[d] # "none" => Open(d)'
    BY <2>0, <1>a, <2>2 DEF ReleasedAt
  <2>4. QED
    BY <2>0, <1>a, <1>b, <2>1, <2>3 DEF ReleasedAt
<1>6. ASSUME NEW i \in Slots, Registered(i)
      PROVE  allocs' = Owned' + Pending' /\ \A d \in Fds : server'[d] # "none" => Open(d)'
  <2>0. RegisteredAt(i)
    BY <1>6, RegisteredFacts
  <2>1. Owned' = Owned /\ \A j \in InUse : j \in Slots
    BY <2>0 DEF Owned, InUse, RegisteredAt
  <2>2. QED
    BY <2>0, <1>a, <2>1 DEF RegisteredAt
<1>7. ASSUME NEW fd \in Fds, Delivered(fd)
      PROVE  allocs' = Owned' + Pending' /\ \A d \in Fds : server'[d] # "none" => Open(d)'
  <2>1. PICK i \in InUse : DeliveredTo(i, fd)
    BY <1>7, DeliveredFacts
  <2>2. Owned' = Owned /\ \A j \in InUse : j \in Slots
    BY <2>1 DEF Owned, InUse, DeliveredTo
  <2>3. QED
    BY <1>a, <2>1, <2>2 DEF DeliveredTo
<1>8. QED
  BY <1>1, <1>2, <1>3, <1>4, <1>5, <1>6, <1>7, StepHasEffect DEF Effect

\* Every step keeps what the callback knows in agreement with the pool
\* (ipcCheckChangeAndCallback, ipcWriteToDataPool, ipcRegisterCallback).
LEMMA CallbackStep == ASSUME IndInv, [Next]_vars PROVE CallbackTellsPool'
<1> USE DEF CallbackTellsPool
<1>0. CallbackTellsPool /\ EntriesSound
  BY DEF IndInv
<1>1. CASE Same
  BY <1>0, <1>1 DEF Same, InUse
<1>2. CASE Cleared
  BY <1>2 DEF Cleared, ClientInfoClear, InUse, Empty
<1>3. CASE Servers
  <2>0. ServersAct
    BY <1>3, ServersFacts
  <2>1. InUse' = InUse
    BY <2>0 DEF InUse, ServersAct
  <2>2. QED
    BY <1>0, <2>0, <2>1 DEF ServersAct
<1>4. ASSUME NEW i \in Slots, NEW fd \in Fds, Added(i, fd) PROVE CallbackTellsPool'
  <2>0. AddedAt(i, fd)
    BY <1>4, AddedFacts
  <2>1. \A j \in InUse : j \in Slots /\ j # i
    BY <2>0 DEF InUse, AddedAt
  <2>2. QED
    BY <1>0, <2>0, <2>1 DEF AddedAt
<1>5. ASSUME NEW i \in InUse, Released(i) PROVE CallbackTellsPool'
  <2>0. ReleasedAt(i)
    BY <1>5, ReleasedFacts
  <2>1. \A j \in InUse' : j \in InUse /\ j \in Slots /\ j # i /\ info'[j] = info[j]
    BY <2>0 DEF InUse, ReleasedAt
  <2>2. QED
    BY <1>0, <2>0, <2>1 DEF ReleasedAt
<1>6. ASSUME NEW i \in Slots, Registered(i) PROVE CallbackTellsPool'
  <2>0. RegisteredAt(i)
    BY <1>6, RegisteredFacts
  <2> SUFFICES ASSUME inited', NEW j \in InUse, info'[j].cb
               PROVE  \A f \in Watched : told'[j][f] = info'[j].pool[f]
    BY <2>0 DEF RegisteredAt
  <2>1. inited /\ j \in Slots /\ info'[j].pool = info[j].pool /\ info[j].pool # None
    BY <1>0, <2>0 DEF InUse, EntriesSound, RegisteredAt
  <2>2. CASE j = i
    BY <1>0, <2>0, <2>1, <2>2 DEF RegisteredAt
  <2>3. CASE j # i
    BY <1>0, <2>0, <2>1, <2>3 DEF RegisteredAt
  <2>4. QED
    BY <2>2, <2>3
<1>7. ASSUME NEW fd \in Fds, Delivered(fd) PROVE CallbackTellsPool'
  <2>1. PICK i \in InUse : DeliveredTo(i, fd)
    BY <1>7, DeliveredFacts
  <2> SUFFICES ASSUME NEW j \in InUse, info'[j].cb
               PROVE  \A f \in Watched : told'[j][f] = info'[j].pool[f]
    BY <2>1 DEF DeliveredTo
  <2>2. CASE j = i
    BY <1>0, <2>1, <2>2 DEF DeliveredTo
  <2>3. CASE j # i
    BY <1>0, <2>1, <2>3 DEF DeliveredTo, InUse
  <2>4. QED
    BY <2>2, <2>3
<1>8. QED
  BY <1>1, <1>2, <1>3, <1>4, <1>5, <1>6, <1>7, StepHasEffect DEF Effect

-----------------------------------------------------------------------------
(* Type correctness *)

\* A process that starts has every variable in its range.
LEMMA TypeInit == Init => TypeOK
<1> SUFFICES ASSUME Init PROVE TypeOK
  OBVIOUS
<1> USE ConstantsType, ClientConstants DEF Init
<1>1. LibraryType /\ EpollType /\ AppType
  BY DEF LibraryType, EpollType, AppType, AppSteps
<1>2. HeapType
  BY DEF HeapType, Static
<1>3. ThreadType
  BY DEF ThreadType, ThreadSteps
<1>4. LinkType
  <2>1. << >> \in Seq(Values) /\ << >> \in Seq([Fields -> Values])
    OBVIOUS
  <2>2. QED
    BY <2>1 DEF LinkType
<1>5. told \in [Slots -> Pools]
  OBVIOUS
<1>6. QED
  BY <1>1, <1>2, <1>3, <1>4, <1>5 DEF TypeOK

\* Every step keeps the flags and the mutex in their ranges.
LEMMA LibraryTypeStep == ASSUME IndInv, [Next]_vars PROVE LibraryType'
<1>0. LibraryType
  BY DEF IndInv, TypeOK
<1> USE DEF LibraryType
<1>1. CASE UNCHANGED vars
  BY <1>0, <1>1
<1>2. CASE Call
  BY <1>0, <1>2 DEF Call, CallClientStart, CallClientStartInvalid, CallReadDataPool,
     CallRegisterCallback, CallClientStop
<1>3. CASE StartSteps
  BY <1>0, <1>3 DEF StartSteps, AddClient, Connect, EndAdd, StartThread, SetThreadRunning,
     WakeThread, CheckRejected, StartFailed, CountAfterFailure
<1>4. CASE ReadSteps
  BY <1>0, <1>4, ReadFrame
<1>5. CASE StopSteps
  BY <1>0, <1>5 DEF StopSteps, RemoveClient, DeinitFlag, DeinitCancel, DeinitJoin, DeinitClear
<1>6. CASE ThreadStep
  <2>1. mutex' \in {mutex, "thread", None}
    BY <1>6, DataFrame DEF ThreadStep, HandlerSteps, LoopTest, EpollWait, CancelledInWait,
       ActOnCancel, ThreadRecheck, ThreadLock, ThreadUnlock, EndHandling, ReadPipe,
       CancelledInHandler, HandleHangup, HandleRefused, HandleEnd, HandleRecvFails, HandleUnknown
  <2>2. QED
    BY <1>0, <1>6, <2>1, ThreadFrame
<1>7. CASE Servers
  BY <1>0, <1>7, ServersFrame
<1>8. QED
  BY <1>1, <1>2, <1>3, <1>4, <1>5, <1>6, <1>7 DEF Next

\* Every step keeps the control pipe from holding less than nothing: a byte is read only
\* for an event that says there is one (ipcClientThread).
LEMMA EpollTypeStep == ASSUME IndInv, [Next]_vars PROVE EpollType'
<1>0. pipe \in Nat /\ watch \subseteq Fds \cup {PipeFd}
  BY DEF IndInv, TypeOK, EpollType
<1>1. pipe' \in Nat
  <2>1. CASE Call \/ StartSteps \/ ReadSteps \/ StopSteps \/ Servers \/ UNCHANGED vars
    <3>1. pipe' \in {0, pipe, pipe + 1}
      BY <2>1, ReadFrame, ServersFrame DEF Call, CallClientStart, CallClientStartInvalid,
         CallReadDataPool, CallRegisterCallback, CallClientStop, StartSteps, AddClient, Connect,
         StartThread, SetThreadRunning, WakeThread, CheckRejected, StartFailed,
         CountAfterFailure, StopSteps, RemoveClient, DeinitFlag, DeinitCancel, DeinitJoin,
         DeinitClear
    <3>2. QED
      BY <1>0, <3>1
  <2>2. CASE ThreadStep
    <3>1. CASE ReadPipe
      <4>1. pipe > 0 /\ pipe' = pipe - 1
        BY <3>1 DEF ReadPipe, ReadByte, Take, Readable, IndInv, EventInv
      <4>2. QED
        BY <1>0, <4>1
    <3>2. CASE ~ReadPipe
      <4>1. pipe' = pipe
        BY <2>2, <3>2, DataFrame DEF ThreadStep, HandlerSteps, LoopTest, EpollWait,
           CancelledInWait, ActOnCancel, ThreadRecheck, ThreadLock, ThreadUnlock,
           CancelledInHandler, HandleHangup, HandleRefused, HandleEnd, HandleRecvFails,
           HandleUnknown
      <4>2. QED
        BY <1>0, <4>1
    <3>3. QED
      BY <3>1, <3>2
  <2>3. QED
    BY <2>1, <2>2 DEF Next
<1>2. watch' \subseteq Fds \cup {PipeFd}
  <2>1. ASSUME NEW i \in InUse, Released(i) PROVE watch' \subseteq watch
    BY <2>1, ReleasedFacts DEF ReleasedAt
  <2>2. ASSUME NEW fd \in Fds, Delivered(fd) PROVE watch' = watch
    BY <2>2, DataFrame DEF Delivered
  <2>3. QED
    BY <1>0, <2>1, <2>2, StepHasEffect, ServersFrame DEF Effect, Same, Cleared, Added, Registered
<1>3. QED
  BY <1>1, <1>2 DEF EpollType

\* Every step keeps g_clientInfo and the count of pools in their ranges.
LEMMA HeapTypeStep == ASSUME IndInv, [Next]_vars PROVE HeapType'
<1>1. info' \in [Slots -> Entry]
  <2>0. info \in [Slots -> Entry]
    BY DEF IndInv, TypeOK, HeapType, Entry
  <2>1. CASE Same
    BY <2>0, <2>1 DEF Same
  <2>2. CASE Cleared
    BY <2>2 DEF Cleared, ClientInfoClear, Empty, Entry
  <2>3. CASE Servers
    BY <2>0, <2>3, ServersFrame
  <2>4. ASSUME NEW i \in Slots, NEW fd \in Fds, Added(i, fd) PROVE info' \in [Slots -> Entry]
    BY <2>4, AddedFacts DEF AddedAt
  <2>5. ASSUME NEW i \in InUse, Released(i) PROVE info' \in [Slots -> Entry]
    BY <2>5, ReleasedFacts DEF ReleasedAt
  <2>6. ASSUME NEW i \in Slots, Registered(i) PROVE info' \in [Slots -> Entry]
    BY <2>6, RegisteredFacts DEF RegisteredAt
  <2>7. ASSUME NEW fd \in Fds, Delivered(fd) PROVE info' \in [Slots -> Entry]
    BY <2>7, DeliveredFacts DEF DeliveredTo
  <2>8. QED
    BY <2>1, <2>2, <2>3, <2>4, <2>5, <2>6, <2>7, StepHasEffect DEF Effect
<1>2. allocs' \in Nat
  <2>1. InUse' \in SUBSET Slots
    BY DEF InUse
  <2>2. Cardinality(InUse') \in Nat
    BY <2>1, SubsetFinite
  <2>3. NothingLeaks'
    BY LeaksStep
  <2>4. QED
    BY <2>2, <2>3 DEF NothingLeaks
<1>3. QED
  BY <1>1, <1>2 DEF HeapType, Entry

\* Every step keeps the caller in its range.
LEMMA AppTypeStep == ASSUME IndInv, [Next]_vars PROVE AppType'
<1>0. AppType
  BY DEF IndInv, TypeOK
<1> USE DEF AppType, AppSteps
<1>1. CASE UNCHANGED vars
  BY <1>0, <1>1
<1>2. CASE Call
  BY <1>0, <1>2, ConstantsType DEF Call, CallClientStart, CallClientStartInvalid,
     CallReadDataPool, CallRegisterCallback, CallClientStop, Return, Fail, Goto
<1>3. CASE StartSteps
  BY <1>0, <1>3 DEF StartSteps, AddClient, Connect, StartThread, SetThreadRunning, WakeThread,
     CheckRejected, StartFailed, CountAfterFailure, Return, Fail, Goto
<1>4. CASE ReadSteps
  <2>1. CASE ReadDataPool /\ pc' = "read_done"
    <3> DEFINE found == {i \in EntriesOf(arg) : info[i].pool # None /\ size >= PoolSize}
    <3>1. found # {} /\ out' = info[FirstOf(found)].pool /\ UNCHANGED <<arg, size>>
      BY <2>1 DEF ReadDataPool, Return
    <3>2. FirstOf(found) \in Slots
      BY <3>1, ConstantsType, FirstOfIsIn DEF EntriesOf
    <3> HIDE DEF found
    <3>3. out' \in Pools \cup {None}
      BY <3>1, <3>2 DEF IndInv, TypeOK, HeapType
    <3>4. QED
      BY <1>0, <2>1, <3>1, <3>3
  <2>2. CASE ~(ReadDataPool /\ pc' = "read_done")
    BY <1>0, <1>4, <2>2 DEF ReadSteps, ReadDataPool, ReadReturns, RegisterCallback, Return
  <2>3. QED
    BY <2>1, <2>2
<1>5. CASE StopSteps
  BY <1>0, <1>5 DEF StopSteps, RemoveClient, DeinitFlag, DeinitCancel, DeinitJoin, DeinitClear,
     Return, Goto
<1>6. CASE ThreadStep
  BY <1>0, <1>6, ThreadFrame
<1>7. CASE Servers
  BY <1>0, <1>7, ServersFrame
<1>8. QED
  BY <1>1, <1>2, <1>3, <1>4, <1>5, <1>6, <1>7 DEF Next

\* Every step keeps ipcClientThread in its range.
LEMMA ThreadTypeStep == ASSUME IndInv, [Next]_vars PROVE ThreadType'
<1>0. ThreadType /\ watch \subseteq Fds \cup {PipeFd}
  BY DEF IndInv, TypeOK, EpollType
<1> USE DEF ThreadType, ThreadSteps
<1>1. CASE UNCHANGED vars
  BY <1>0, <1>1
<1>2. CASE Call
  BY <1>0, <1>2, CallFrame
<1>3. CASE StartSteps
  <2>1. tpc' \in {tpc, "check"} /\ local' \in {local, Blank}
    BY <1>3 DEF StartSteps, AddClient, Connect, StartThread, SetThreadRunning, WakeThread,
       CheckRejected, StartFailed, CountAfterFailure
  <2>2. QED
    BY <1>0, <1>3, <2>1, StartFrame, ConstantsType
<1>4. CASE ReadSteps
  BY <1>0, <1>4, ReadFrame
<1>5. CASE StopSteps
  BY <1>0, <1>5, ConstantsType DEF StopSteps, RemoveClient, DeinitFlag, DeinitCancel, DeinitJoin,
     DeinitClear
<1>6. CASE ThreadStep
  <2>1. CASE EpollWait
    <3>1. \A d \in watch : HungUp(d) \in Events /\ Readable(d) \in Events
      BY <1>0 DEF HungUp, Readable, Events
    <3>2. Ready \subseteq Events
      BY <3>1 DEF Ready
    <3>3. QED
      BY <1>0, <2>1, <3>2 DEF EpollWait, Stay
  <2>2. ASSUME NEW fd \in Fds, HandleData(fd) PROVE ThreadType'
    <3>1. tpc' = tpc /\ cancelled' = cancelled
      BY <2>2, DataFrame
    <3>2. batch' \subseteq batch
      BY Zenon, <2>2 DEF HandleData, Take
    <3>3. local' = Received(fd)
      BY Zenon, <2>2 DEF HandleData
    <3>4. refused' \in BOOLEAN
      BY Zenon, <2>2 DEF HandleData
    <3>5. QED
      BY <1>0, <3>1, <3>2, <3>3, <3>4, ReceivedIsPool DEF IndInv
  <2>3. ASSUME NEW fd \in Fds, HandleRefused(fd) PROVE ThreadType'
    BY <1>0, <2>3, ReceivedIsPool DEF IndInv, HandleRefused, Take, ErrnoOfClose
  <2>4. CASE ~EpollWait /\ \A fd \in Fds : ~HandleData(fd) /\ ~HandleRefused(fd)
    BY <1>0, <1>6, <2>4 DEF ThreadStep, HandlerSteps, LoopTest, CancelledInWait, ActOnCancel,
       ThreadRecheck, ThreadLock, ThreadUnlock, ReadPipe, CancelledInHandler, HandleHangup,
       HandleEnd, HandleRecvFails, HandleUnknown, Take, Stay, ErrnoOfClose
  <2>5. QED
    BY <2>1, <2>2, <2>3, <2>4
<1>7. CASE Servers
  BY <1>0, <1>7, ServersFrame
<1>8. QED
  BY <1>1, <1>2, <1>3, <1>4, <1>5, <1>6, <1>7 DEF Next

\* A message, and what is sent or left of one, is a sequence of values.
LEMMA MessageType ==
  ASSUME NEW m \in Messages, NEW n \in Sizes
  PROVE  /\ n \in 1 .. PoolSize /\ m \in [Fields -> Values]
         /\ m \in Seq(Values) /\ Len(m) = PoolSize
         /\ SubSeq(m, 1, n) \in Seq(Values) /\ Len(SubSeq(m, 1, n)) = n
         /\ \A f \in 1 .. n : SubSeq(m, 1, n)[f] = m[f]
<1>1. m \in [1 .. PoolSize -> Values] /\ n \in 1 .. PoolSize /\ PoolSize \in Nat
  BY ClientConstants
<1>2. m \in Seq(Values) /\ Len(m) = PoolSize
  BY <1>1
<1>3. QED
  BY <1>1, <1>2, SubSeqProperties, ClientConstants

\* recv() takes a structure off the stream, or what there is.
LEMMA RestType ==
  ASSUME NEW s \in Seq(Values)
  PROVE  /\ Rest(s) \in Seq(Values)
         /\ Len(Rest(s)) = IF Len(s) <= PoolSize THEN 0 ELSE Len(s) - PoolSize
         /\ \A k \in 1 .. Len(Rest(s)) : Rest(s)[k] = s[PoolSize + k]
<1>1. CASE Len(s) <= PoolSize
  BY <1>1 DEF Rest
<1>2. CASE Len(s) > PoolSize
  <2>1. Rest(s) = SubSeq(s, PoolSize + 1, Len(s))
    BY <1>2, ConstantsType DEF Rest
  <2>2. PoolSize + 1 \in 1 .. Len(s) + 1 /\ Len(s) \in PoolSize .. Len(s)
    BY <1>2, ConstantsType
  <2>3. QED
    BY <1>2, <2>1, <2>2, ConstantsType, SubSeqProperties
<1>3. QED
  BY <1>1, <1>2, ConstantsType

\* Every step keeps the connections and what is under way on them in their ranges.
LEMMA LinkTypeStep == ASSUME IndInv, [Next]_vars PROVE LinkType'
<1>0. LinkType
  BY DEF IndInv, TypeOK
<1> USE DEF LinkType
<1>1. CASE Same
  BY <1>0, <1>1 DEF Same
<1>2. CASE Cleared
  BY <1>0, <1>2 DEF Cleared
<1>3. CASE Servers
  <2>1. ASSUME NEW fd \in Fds, ServerCloses(fd) PROVE LinkType'
    BY <1>0, <2>1 DEF ServerCloses
  <2>2. ASSUME NEW fd \in Fds, NEW m \in Messages, NEW n \in Sizes, ServerSends(fd, m, n)
        PROVE  LinkType'
    <3>1. /\ stream[fd] \o SubSeq(m, 1, n) \in Seq(Values)
          /\ Append(sent[fd], m) \in Seq([Fields -> Values])
      BY <1>0, MessageType
    <3>2. stream' = [stream EXCEPT ![fd] = stream[fd] \o SubSeq(m, 1, n)]
          /\ sent' = [sent EXCEPT ![fd] = Append(sent[fd], m)] /\ UNCHANGED <<server, use>>
      BY <2>2 DEF ServerSends
    <3>3. QED
      BY <1>0, <3>1, <3>2
  <2>3. QED
    BY <1>3, <2>1, <2>2 DEF Servers
<1>4. ASSUME NEW i \in Slots, NEW fd \in Fds, Added(i, fd) PROVE LinkType'
  <2>1. arg \in Usages \cup {None}
    BY DEF IndInv, TypeOK, AppType
  <2>2. QED
    BY <1>0, <1>4, <2>1 DEF Added
<1>5. ASSUME NEW i \in InUse, Released(i) PROVE LinkType'
  <2>1. << >> \in Seq(Values) /\ << >> \in Seq([Fields -> Values])
    OBVIOUS
  <2>2. QED
    BY <1>0, <1>5, <2>1 DEF Released, Release, CloseSocket
<1>6. ASSUME NEW i \in Slots, Registered(i) PROVE LinkType'
  BY <1>0, <1>6 DEF Registered
<1>7. ASSUME NEW fd \in Fds, Delivered(fd) PROVE LinkType'
  <2>1. PICK i \in InUse : DeliveredTo(i, fd)
    BY <1>7, DeliveredFacts
  <2>2. Rest(stream[fd]) \in Seq(Values)
    BY <1>0, RestType
  <2>3. QED
    BY <1>0, <2>1, <2>2 DEF DeliveredTo
<1>8. QED
  BY <1>1, <1>2, <1>3, <1>4, <1>5, <1>6, <1>7, StepHasEffect DEF Effect

\* Every step keeps what callbacks have been told in its range.
LEMMA ToldTypeStep == ASSUME IndInv, [Next]_vars PROVE told' \in [Slots -> Pools]
<1>0. told \in [Slots -> Pools]
  BY DEF IndInv, TypeOK
<1>1. ASSUME NEW i \in InUse, Released(i) PROVE told' \in [Slots -> Pools]
  BY <1>0, <1>1, ConstantsType DEF Released, Release
<1>2. ASSUME NEW i \in Slots, Registered(i) PROVE told' \in [Slots -> Pools]
  BY <1>2, RegisteredFacts DEF RegisteredAt
<1>3. ASSUME NEW fd \in Fds, Delivered(fd) PROVE told' \in [Slots -> Pools]
  BY <1>3, DeliveredFacts DEF DeliveredTo
<1>4. QED
  BY <1>0, <1>1, <1>2, <1>3, StepHasEffect, ServersFrame DEF Effect, Same, Cleared, Added

\* Every step preserves the type invariant.
LEMMA TypeStep == ASSUME IndInv, [Next]_vars PROVE TypeOK'
  BY LibraryTypeStep, EpollTypeStep, HeapTypeStep, AppTypeStep, ThreadTypeStep, LinkTypeStep,
     ToldTypeStep DEF TypeOK

-----------------------------------------------------------------------------
(* The caller, the service thread and the mutex *)

\* Every step keeps the caller where the code lets it be (ipcClientStart, ipcAddClient,
\* ipcClientStop, ipcClientDeinit).
LEMMA CallInvStep == ASSUME IndInv, [Next]_vars PROVE CallInv'
<1>0. CallInv /\ ThreadInv /\ LockInv /\ EntriesSound /\ DeinitLeavesNothing
  BY DEF IndInv
<1> USE DEF CallInv
<1>1. CASE UNCHANGED vars
  BY <1>0, <1>1 DEF EntriesOf, InUse
<1>2. CASE Call
  BY <1>0, <1>2, NoneIsNone, ConstantsType DEF Call, CallClientStart, CallClientStartInvalid,
     CallReadDataPool, CallRegisterCallback, CallClientStop, Return, Fail, Goto
<1>3. CASE StartSteps
  <2>1. inited' = inited /\ (~inited => pc = "failed" /\ ~threadRunning)
    BY <1>0, <1>3, StartFrame DEF StartSteps, AddClient, Connect, StartThread, SetThreadRunning,
       WakeThread, CheckRejected, StartFailed, CountAfterFailure, DeinitLeavesNothing
  <2>2. ~inited => pc' = "idle"
    BY <1>3, <2>1 DEF StartSteps, AddClient, Connect, StartThread, SetThreadRunning,
       WakeThread, CheckRejected, StartFailed, CountAfterFailure, Return
  <2>3. pc' \notin {"start_add", "register_lock", "stop_lock", "cancel", "join", "clear"}
    BY <1>3 DEF StartSteps, AddClient, Connect, StartThread, SetThreadRunning,
       WakeThread, CheckRejected, StartFailed, CountAfterFailure, Return, Goto, Fail
  <2>4. pc' = "start_connect" => AddClient /\ arg' = arg /\ info' = info
    BY <1>3 DEF StartSteps, AddClient, Connect, StartThread, SetThreadRunning,
       WakeThread, CheckRejected, StartFailed, CountAfterFailure, Return, Goto, Fail
  <2>5. pc' = "start_connect" => pc = "start_add" /\ EntriesOf(arg) = {} /\ EntriesOf(None) # {}
    BY <2>4 DEF AddClient, Goto, Fail
  <2>6. pc' = "deinit" => InUse = {} /\ info' = info
    BY <1>3 DEF StartSteps, AddClient, Connect, StartThread, SetThreadRunning,
       WakeThread, CheckRejected, StartFailed, CountAfterFailure, Return, Goto, Fail
  <2>7. QED
    BY <1>0, <2>1, <2>2, <2>3, <2>4, <2>5, <2>6 DEF EntriesOf, InUse
<1>4. CASE ReadSteps
  BY <1>0, <1>4, ReadFrame DEF ReadSteps, ReadDataPool, ReadReturns, RegisterCallback, Return
<1>5. CASE StopSteps
  <2>1. CASE RemoveClient /\ pc' = "deinit"
    <3> DEFINE i == FirstOf(EntriesOf(arg))
    <3>1. EntriesOf(arg) # {} /\ InUse = EntriesOf(arg) /\ info' = [info EXCEPT ![i] = Empty]
          /\ pc = "stop_lock" /\ UNCHANGED library
      BY <2>1 DEF RemoveClient, Return, Goto, Release
    <3>2. i \in InUse /\ info[i].usage = arg /\ inited /\ inited'
      BY <1>0, <3>1, EntryOfUsage
    <3> HIDE DEF i
    <3>3. \A j \in InUse : j = i
      BY <1>0, <3>1, <3>2 DEF EntriesSound, EntriesOf
    <3>4. InUse' = {}
      BY <3>1, <3>2, <3>3 DEF InUse, Empty, IndInv, TypeOK, HeapType
    <3>5. QED
      BY <2>1, <3>2, <3>4
  <2>2. CASE ~(RemoveClient /\ pc' = "deinit")
    BY <1>0, <1>5, <2>2 DEF StopSteps, RemoveClient, DeinitFlag, DeinitCancel, DeinitJoin,
       DeinitClear, Return, Goto, InUse
  <2>3. QED
    BY <2>1, <2>2
<1>6. CASE ThreadStep
  <2>1. UNCHANGED <<inited, pc, arg>>
    BY <1>6, ThreadFrame
  <2>2. pc = "start_connect" => info' = info
    BY <1>0, <1>6, ThreadEffect, NoneIsNone DEF LockInv, LockHeldByLiveThread
  <2>3. InUse = {} => InUse' = {}
    <3>1. ASSUME NEW fd \in Fds, EntriesAt(fd) # {} PROVE InUse # {}
      BY <1>6, <3>1, EntryOfEvent, ThreadIsThere
    <3>2. ASSUME NEW fd \in Fds, HandleData(fd) PROVE InUse # {}
      <4>1. EntriesAt(fd) # {}
        BY Zenon, <3>2 DEF HandleData
      <4>2. QED
        BY <3>1, <4>1
    <3>3. QED
      BY <1>6, <3>1, <3>2, ThreadEffect DEF InUse
  <2>4. QED
    BY <1>0, <2>1, <2>2, <2>3 DEF EntriesOf
<1>7. CASE Servers
  BY <1>0, <1>7, ServersFrame DEF EntriesOf, InUse
<1>8. QED
  BY <1>1, <1>2, <1>3, <1>4, <1>5, <1>6, <1>7 DEF Next

\* Every step keeps g_threadRunning in agreement with the thread there is
\* (ipcClientStart, ipcClientDeinit).
LEMMA ThreadInvStep == ASSUME IndInv, [Next]_vars PROVE ThreadInv'
<1>0. ThreadInv /\ CallInv /\ DeinitLeavesNothing
  BY DEF IndInv
<1> USE DEF ThreadInv
<1>1. CASE UNCHANGED vars
  BY <1>0, <1>1
<1>2. CASE Call
  BY <1>0, <1>2 DEF Call, CallClientStart, CallClientStartInvalid, CallReadDataPool,
     CallRegisterCallback, CallClientStop, Return, Fail, Goto, DeinitLeavesNothing
<1>3. CASE StartSteps
  BY <1>0, <1>3 DEF StartSteps, AddClient, Connect, StartThread, SetThreadRunning,
     WakeThread, CheckRejected, StartFailed, CountAfterFailure, Return, Goto, Fail
<1>4. CASE ReadSteps
  BY <1>0, <1>4 DEF ReadSteps, ReadDataPool, ReadReturns, RegisterCallback, Return
<1>5. CASE StopSteps
  BY <1>0, <1>5 DEF StopSteps, RemoveClient, DeinitFlag, DeinitCancel, DeinitJoin,
     DeinitClear, Return, Goto
<1>6. CASE ThreadStep
  <2>1. UNCHANGED <<library, pc, cancelled>> /\ tpc # "none" /\ tpc' # "none"
    BY <1>6, ThreadFrame, ThreadIsThere
  <2>2. tpc \in {"check", "exited"} /\ ~threadRunning => tpc' = "exited"
    BY <1>6, DataFrame DEF ThreadStep, HandlerSteps, LoopTest, EpollWait, CancelledInWait,
       ActOnCancel, ThreadRecheck, ThreadLock, ThreadUnlock, ReadPipe, CancelledInHandler,
       HandleHangup, HandleRefused, HandleEnd, HandleRecvFails, HandleUnknown, Take
  <2>3. QED
    BY <1>0, <2>1, <2>2
<1>7. CASE Servers
  BY <1>0, <1>7, ServersFrame
<1>8. QED
  BY <1>1, <1>2, <1>3, <1>4, <1>5, <1>6, <1>7 DEF Next

\* Every step keeps the mutex with a thread that will release it, unless the thread has
\* been ended, and then no other is created.
LEMMA LockInvStep == ASSUME IndInv, [Next]_vars PROVE LockInv'
<1>0. LockInv /\ ThreadInv
  BY DEF IndInv
<1> USE NoneIsNone DEF LockInv, LockHeldByLiveThread
<1>1. CASE UNCHANGED vars
  BY <1>0, <1>1
<1>2. CASE Call
  BY <1>0, <1>2 DEF Call, CallClientStart, CallClientStartInvalid, CallReadDataPool,
     CallRegisterCallback, CallClientStop, Return, Fail, Goto
<1>3. CASE StartSteps
  BY <1>0, <1>3 DEF ThreadInv, StartSteps, AddClient, Connect, EndAdd, StartThread,
     SetThreadRunning, WakeThread, CheckRejected, StartFailed, CountAfterFailure, Return, Goto, Fail
<1>4. CASE ReadSteps
  BY <1>0, <1>4 DEF ReadSteps, ReadDataPool, ReadReturns, RegisterCallback, Return
<1>5. CASE StopSteps
  BY <1>0, <1>5 DEF ThreadInv, StopSteps, RemoveClient, DeinitFlag, DeinitCancel, DeinitJoin,
     DeinitClear, Return, Goto
<1>6. CASE ThreadStep
  BY <1>0, <1>6, DataFrame, ThreadFrame
  DEF ThreadInv, ThreadStep, HandlerSteps, LoopTest, EpollWait,
     CancelledInWait, ActOnCancel, ThreadRecheck, ThreadLock, ThreadUnlock, EndHandling, ReadPipe,
     CancelledInHandler, HandleHangup, HandleRefused, HandleEnd, HandleRecvFails, HandleUnknown,
     Take
<1>7. CASE Servers
  BY <1>0, <1>7, ServersFrame
<1>8. QED
  BY <1>1, <1>2, <1>3, <1>4, <1>5, <1>6, <1>7 DEF Next

\* What epoll_wait reported of the control pipe stays true until ipcClientThread reads it.
LEMMA EventInvStep == ASSUME IndInv, [Next]_vars PROVE EventInv'
<1>0. EventInv /\ ThreadInv /\ CallInv /\ DeinitLeavesNothing /\ pipe \in Nat
      /\ batch \subseteq Events /\ watch \subseteq Fds \cup {PipeFd}
  BY DEF IndInv, TypeOK, EpollType, ThreadType
<1> USE DEF EventInv
<1>1. CASE UNCHANGED vars
  BY <1>0, <1>1
<1>2. CASE Call
  BY <1>0, <1>2 DEF Call, CallClientStart, CallClientStartInvalid, CallReadDataPool,
     CallRegisterCallback, CallClientStop, DeinitLeavesNothing
<1>3. CASE StartSteps
  <2>1. tpc' \in {tpc, "check"} /\ batch' = batch /\ pipe' \in {pipe, pipe + 1}
    BY <1>3 DEF StartSteps, AddClient, Connect, StartThread, SetThreadRunning, WakeThread,
       CheckRejected, StartFailed, CountAfterFailure
  <2>2. QED
    BY <1>0, <2>1
<1>4. CASE ReadSteps
  BY <1>0, <1>4, ReadFrame
<1>5. CASE StopSteps
  <2>1. CASE DeinitClear \/ DeinitJoin
    BY <1>0, <2>1 DEF DeinitClear, DeinitJoin, ThreadInv
  <2>2. CASE ~(DeinitClear \/ DeinitJoin)
    <3>1. UNCHANGED <<tpc, batch>> /\ pipe' \in {pipe, pipe + 1}
      BY <1>5, <2>2 DEF StopSteps, RemoveClient, DeinitFlag, DeinitCancel
    <3>2. QED
      BY <1>0, <3>1
  <2>3. QED
    BY <2>1, <2>2
<1>6. CASE ThreadStep
  <2>1. CASE EpollWait
    <3>1. \A e \in Ready : e.fd = PipeFd => ~e.hup /\ pipe > 0
      BY <1>0 DEF Ready, HungUp, Readable
    <3>2. QED
      BY <2>1, <3>1 DEF EpollWait
  <2>2. CASE ReadPipe
    <3>1. batch' = batch \ {Readable(PipeFd)} /\ tpc = "handle"
      BY <2>2 DEF ReadPipe, Take
    <3>2. \A e \in batch : e.fd = PipeFd => e = Readable(PipeFd)
      BY <1>0, <3>1 DEF Events, Readable
    <3>3. QED
      BY <3>1, <3>2
  <2>3. CASE ~EpollWait /\ ~ReadPipe
    <3>1. pipe' = pipe /\ batch' \subseteq batch
      BY <1>6, <2>3, DataFrame DEF ThreadStep, HandlerSteps, LoopTest, EpollWait, CancelledInWait,
         ActOnCancel, ThreadRecheck, ThreadLock, ThreadUnlock, ReadPipe, CancelledInHandler,
         HandleHangup, HandleRefused, HandleEnd, HandleRecvFails, HandleUnknown, Take
    <3>2. tpc' \in {"recheck", "lock", "handle"} => tpc \in {"recheck", "lock", "handle"}
      BY <1>6, <2>3, DataFrame DEF ThreadStep, HandlerSteps, LoopTest, EpollWait, CancelledInWait,
         ActOnCancel, ThreadRecheck, ThreadLock, ThreadUnlock, ReadPipe, CancelledInHandler,
         HandleHangup, HandleRefused, HandleEnd, HandleRecvFails, HandleUnknown, Take
    <3>3. QED
      BY <1>0, <3>1, <3>2
  <2>4. QED
    BY <2>1, <2>2, <2>3
<1>7. CASE Servers
  BY <1>0, <1>7, ServersFrame
<1>8. QED
  BY <1>1, <1>2, <1>3, <1>4, <1>5, <1>6, <1>7 DEF Next

\* Every step keeps a library that is not initialised without a thread, registrations and
\* connections (ipcClientDeinit).
LEMMA DeinitStep == ASSUME IndInv, [Next]_vars PROVE DeinitLeavesNothing'
<1>0. DeinitLeavesNothing /\ ThreadInv /\ CallInv
  BY DEF IndInv
<1>1. NothingLeaks' /\ ThreadInv' /\ CallInv'
  BY LeaksStep, ThreadInvStep, CallInvStep
<1>2. ~inited' => \A fd \in Fds : server'[fd] = "none"
  BY <1>1 DEF NothingLeaks
<1>3. ~inited' => ~threadRunning' /\ watch' = {}
  <2> SUFFICES ASSUME ~inited' PROVE ~threadRunning' /\ watch' = {}
    OBVIOUS
  <2>1. CASE UNCHANGED vars
    BY <1>0, <2>1 DEF DeinitLeavesNothing
  <2>2. CASE Call
    BY <1>0, <2>2 DEF DeinitLeavesNothing, Call, CallClientStart, CallClientStartInvalid,
       CallReadDataPool, CallRegisterCallback, CallClientStop
  <2>3. CASE StartSteps
    <3>1. ~inited /\ pc = "failed"
      BY <1>0, <2>3, StartFrame DEF CallInv, StartSteps, AddClient, Connect, StartThread,
         SetThreadRunning, WakeThread, CheckRejected, StartFailed, CountAfterFailure
    <3>2. UNCHANGED <<threadRunning, watch>>
      BY <2>3, <3>1 DEF StartSteps, AddClient, Connect, StartThread, SetThreadRunning, WakeThread,
         CheckRejected, StartFailed, CountAfterFailure
    <3>3. QED
      BY <1>0, <3>1, <3>2 DEF DeinitLeavesNothing
  <2>4. CASE ReadSteps
    BY <1>0, <2>4, ReadFrame DEF DeinitLeavesNothing
  <2>5. CASE StopSteps
    <3>1. DeinitClear
      BY <1>0, <2>5 DEF CallInv, StopSteps, RemoveClient, DeinitFlag, DeinitCancel, DeinitJoin
    <3>2. QED
      BY <1>0, <3>1 DEF DeinitClear, ThreadInv
  <2>6. CASE ThreadStep
    BY <1>0, <2>6, ThreadFrame, ThreadIsThere DEF DeinitLeavesNothing
  <2>7. CASE Servers
    BY <1>0, <2>7, ServersFrame DEF DeinitLeavesNothing
  <2>8. QED
    BY <2>1, <2>2, <2>3, <2>4, <2>5, <2>6, <2>7 DEF Next
<1>4. ~inited' => tpc' = "none"
  BY <1>1, <1>3 DEF ThreadInv, CallInv
<1>5. QED
  BY <1>2, <1>3, <1>4 DEF DeinitLeavesNothing

-----------------------------------------------------------------------------
(* The theorems *)

\* The inductive invariant holds at the start of the process.
LEMMA IndInvInit == Init => IndInv
<1> SUFFICES ASSUME Init PROVE IndInv
  OBVIOUS
<1>1. TypeOK
  BY TypeInit
<1>2. CallInv /\ ThreadInv /\ LockInv /\ EventInv
  BY NoneIsNone DEF Init, CallInv, ThreadInv, LockInv, LockHeldByLiveThread, EventInv
<1>3. /\ UnusedAreEmpty /\ EntriesSound /\ NothingLeaks /\ CallbackTellsPool
      /\ DeinitLeavesNothing
  BY DEF Init, UnusedAreEmpty, EntriesSound, NothingLeaks, CallbackTellsPool, DeinitLeavesNothing
<1>4. QED
  BY <1>1, <1>2, <1>3 DEF IndInv

\* No step of the process or its servers breaks it.
LEMMA IndInvStep == IndInv /\ [Next]_vars => IndInv'
  BY TypeStep, CallInvStep, ThreadInvStep, LockInvStep, EventInvStep, UnusedStep, EntriesStep,
     LeaksStep, CallbackStep, DeinitStep DEF IndInv

\* IndInv holds in every reachable state of the client process (ipc_client.c), for any
\* number of entries and usage types, any structures, whatever system calls fail.
THEOREM Invariance == Spec => []IndInv
<1>1. QED
  BY IndInvInit, IndInvStep, PTL DEF Spec

\* Every variable stays in its range; the service thread never reads an empty control pipe,
\* and no pool is freed that was not allocated.
THEOREM TypeCorrectness == Spec => []TypeOK
<1>1. IndInv => TypeOK
  BY DEF IndInv
<1>2. QED
  BY <1>1, Invariance, PTL

\* An entry in use is the one connection of its usage type, open and watched, with a pool,
\* so that an event of a descriptor finds the entry it is about.
THEOREM EntriesAreConnections == Spec => []EntriesSound
<1>1. IndInv => EntriesSound
  BY DEF IndInv
<1>2. QED
  BY <1>1, Invariance, PTL

\* No failure, hanging up or rejection loses a pool or a socket, or releases one twice.
THEOREM Accounting == Spec => []NothingLeaks
<1>1. IndInv => NothingLeaks
  BY DEF IndInv
<1>2. QED
  BY <1>1, Invariance, PTL

\* What a callback has been told, on top of the pool it was registered on, is what the pool
\* holds, in every field of the change table.
THEOREM CallbackFollowsPool == Spec => []CallbackTellsPool
<1>1. IndInv => CallbackTellsPool
  BY DEF IndInv
<1>2. QED
  BY <1>1, Invariance, PTL

\* While the service thread is meant to run, g_mutex is held inside a critical section only.
THEOREM LockDiscipline == Spec => []LockHeldByLiveThread
<1>1. IndInv => LockHeldByLiveThread
  BY DEF IndInv, LockInv
<1>2. QED
  BY <1>1, Invariance, PTL

\* After ipcClientDeinit there is no service thread, registration or connection.
THEOREM CleanDeinit == Spec => []DeinitLeavesNothing
<1>1. IndInv => DeinitLeavesNothing
  BY DEF IndInv
<1>2. QED
  BY <1>1, Invariance, PTL

-----------------------------------------------------------------------------
(* What the pools hold, when servers send whole structures *)

\* The stream s is the last q messages of ms, one behind the other.
Backlog(s, ms, q) ==
  /\ Len(s) = PoolSize * q /\ q <= Len(ms)
  /\ \A k \in 1 .. q, f \in Fields : s[PoolSize * (k - 1) + f] = ms[Len(ms) - q + k][f]

\* The arithmetic of structure boundaries in a stream.
LEMMA MultiplesOfPoolSize ==
  ASSUME NEW q \in Nat
  PROVE  /\ PoolSize * q \in Nat /\ PoolSize * (q + 1) = PoolSize * q + PoolSize
         /\ (PoolSize * q) \div PoolSize = q
         /\ PoolSize * q = 0 <=> q = 0
         /\ q >= 1 => PoolSize * q >= PoolSize
         /\ \A k \in 1 .. q :
              PoolSize * (k - 1) \in Nat /\ PoolSize * (k - 1) + PoolSize <= PoolSize * q
  BY ConstantsType

\* A field of a structure that is in the stream is in the stream.
LEMMA Within ==
  ASSUME NEW a \in Nat, NEW b \in Nat, NEW p \in Nat, a + p <= b, NEW f \in 1 .. p
  PROVE  a + f \in 1 .. b
  OBVIOUS

\* The number of structures in a stream is a number.
LEMMA DivisionType ==
  ASSUME NEW a \in Nat, NEW p \in Nat, p >= 1
  PROVE  a \div p \in Nat
  OBVIOUS

\* A message that is sent goes behind the others (ipcSendMessage).
LEMMA BacklogSend ==
  ASSUME NEW s \in Seq(Values), NEW ms \in Seq([Fields -> Values]), NEW q \in Nat,
         Backlog(s, ms, q), NEW m \in Messages, PoolSize \in Sizes
  PROVE  Backlog(s \o SubSeq(m, 1, PoolSize), Append(ms, m), q + 1)
<1> DEFINE t == s \o SubSeq(m, 1, PoolSize)
           ns == Append(ms, m)
<1>1. /\ PoolSize \in Nat /\ PoolSize >= 1 /\ Fields = 1 .. PoolSize
      /\ Len(s) \in Nat /\ Len(s) = PoolSize * q /\ Len(ms) \in Nat /\ q <= Len(ms)
  BY ClientConstants, ConstantsType DEF Backlog
<1>a. PoolSize \in Nat /\ Fields = 1 .. PoolSize /\ Len(s) \in Nat
  BY <1>1
<1>2. /\ SubSeq(m, 1, PoolSize) \in Seq(Values) /\ Len(SubSeq(m, 1, PoolSize)) = PoolSize
      /\ \A f \in Fields : SubSeq(m, 1, PoolSize)[f] = m[f]
  BY <1>1, MessageType
<1>3. /\ Len(t) = Len(s) + PoolSize
      /\ \A n \in 1 .. Len(s) : t[n] = s[n]
      /\ \A f \in Fields : t[Len(s) + f] = m[f]
  <2> DEFINE u == SubSeq(m, 1, PoolSize)
  <2>1. u \in Seq(Values) /\ Len(u) = PoolSize /\ \A f \in Fields : u[f] = m[f]
    BY <1>2
  <2> HIDE DEF u
  <2>2. /\ Len(s \o u) = Len(s) + Len(u)
        /\ \A n \in 1 .. Len(s) + Len(u) : (s \o u)[n] = IF n <= Len(s) THEN s[n] ELSE u[n - Len(s)]
    BY <2>1, ConcatProperties
  <2>3. Len(s) \in Nat /\ PoolSize \in Nat /\ Fields = 1 .. PoolSize
    BY <1>1
  <2>4. \A f \in Fields : (Len(s) + f) - Len(s) = f /\ ~(Len(s) + f <= Len(s))
                           /\ Len(s) + f \in 1 .. Len(s) + Len(u)
    BY <2>1, <2>3
  <2>5. \A f \in Fields : (s \o u)[Len(s) + f] = m[f]
    BY <2>1, <2>2, <2>4
  <2>6. \A n \in 1 .. Len(s) : (s \o u)[n] = s[n]
    BY <2>1, <2>2, <2>3
  <2>7. Len(s \o u) = Len(s) + PoolSize
    BY <2>1, <2>2
  <2>8. QED
    BY <2>5, <2>6, <2>7 DEF u
<1>4. Len(ns) = Len(ms) + 1 /\ ns[Len(ms) + 1] = m /\ \A n \in 1 .. Len(ms) : ns[n] = ms[n]
  BY <1>1, MessageType
<1> HIDE DEF t, ns
<1>5. Len(t) = PoolSize * (q + 1) /\ q + 1 <= Len(ns)
  BY <1>1, <1>3, <1>4, MultiplesOfPoolSize
<1>6. ASSUME NEW k \in 1 .. q + 1, NEW f \in Fields
      PROVE  t[PoolSize * (k - 1) + f] = ns[Len(ns) - (q + 1) + k][f]
  <2>1. CASE k = q + 1
    <3>1. k - 1 = q /\ Len(ns) - (q + 1) + k = Len(ms) + 1
      BY <1>1, <1>4, <2>1
    <3>2. QED
      BY <1>1, <1>3, <1>4, <3>1
  <2>2. CASE k \in 1 .. q
    <3>1. PoolSize * (k - 1) \in Nat /\ PoolSize * (k - 1) + PoolSize <= Len(s)
      BY <1>1, <2>2, MultiplesOfPoolSize
    <3>2. PoolSize * (k - 1) + f \in 1 .. Len(s)
      BY <1>a, <3>1, Within
    <3>3. Len(ns) - (q + 1) + k = Len(ms) - q + k /\ Len(ms) - q + k \in 1 .. Len(ms)
      BY <1>1, <1>4, <2>2
    <3>4. s[PoolSize * (k - 1) + f] = ms[Len(ms) - q + k][f]
      BY <2>2 DEF Backlog
    <3>5. QED
      BY <1>3, <1>4, <3>2, <3>3, <3>4
  <2>3. QED
    BY <2>1, <2>2
<1>7. QED
  BY <1>5, <1>6 DEF Backlog, t, ns

\* recv() takes the first of them (ipcReceiveDataFromServer).
LEMMA BacklogTake ==
  ASSUME NEW s \in Seq(Values), NEW ms \in Seq([Fields -> Values]), NEW q \in Nat \ {0},
         Backlog(s, ms, q)
  PROVE  /\ Backlog(Rest(s), ms, q - 1)
         /\ \A f \in Fields : f <= Len(s) /\ s[f] = ms[Len(ms) - q + 1][f]
<1> DEFINE r == Rest(s)
<1>1. /\ PoolSize \in Nat /\ PoolSize >= 1 /\ Fields = 1 .. PoolSize
      /\ Len(s) \in Nat /\ Len(s) = PoolSize * q /\ Len(ms) \in Nat /\ q <= Len(ms)
      /\ Len(s) >= PoolSize
  BY ClientConstants, ConstantsType, MultiplesOfPoolSize DEF Backlog
<1>a. q - 1 \in Nat
  OBVIOUS
<1>b. PoolSize \in Nat /\ Fields = 1 .. PoolSize /\ Len(s) \in Nat /\ Len(s) >= PoolSize
  BY <1>1
<1>2. q - 1 \in Nat /\ PoolSize * q = PoolSize * (q - 1) + PoolSize
  <2>1. q - 1 \in Nat /\ (q - 1) + 1 = q
    OBVIOUS
  <2>2. QED
    BY <2>1, MultiplesOfPoolSize
<1>3. Len(r) = Len(s) - PoolSize /\ \A n \in 1 .. Len(r) : r[n] = s[PoolSize + n]
  <2>1. PoolSize \in Nat /\ Len(s) \in Nat /\ Len(s) >= PoolSize
    BY <1>1
  <2>2. QED
    BY <2>1, RestType
<1> HIDE DEF r
<1>4. Len(r) = PoolSize * (q - 1) /\ q - 1 <= Len(ms)
  BY <1>1, <1>2, <1>3, MultiplesOfPoolSize
<1>5. ASSUME NEW k \in 1 .. q - 1, NEW f \in Fields
      PROVE  r[PoolSize * (k - 1) + f] = ms[Len(ms) - (q - 1) + k][f]
  <2>a. k - 1 \in Nat /\ (k + 1) - 1 = (k - 1) + 1 /\ k + 1 \in 1 .. q
    BY <1>a
  <2>b. PoolSize * (k - 1) \in Nat /\ PoolSize * (k - 1) + PoolSize <= Len(r)
    BY <1>a, <1>4, MultiplesOfPoolSize
  <2>1. k - 1 \in Nat /\ (k + 1) - 1 = (k - 1) + 1 /\ k + 1 \in 1 .. q
    BY <2>a
  <2>2. PoolSize * ((k + 1) - 1) = PoolSize * (k - 1) + PoolSize
    BY <2>1, MultiplesOfPoolSize
  <2>3. PoolSize * (k - 1) + f \in 1 .. Len(r)
    <3>1. Len(r) \in Nat /\ f \in 1 .. PoolSize
      BY <1>b, <1>3
    <3>2. QED
      BY <1>b, <2>b, <3>1, Within
  <2>4. r[PoolSize * (k - 1) + f] = s[PoolSize * ((k + 1) - 1) + f]
    <3>1. PoolSize + (PoolSize * (k - 1) + f) = PoolSize * ((k + 1) - 1) + f
      BY <1>b, <2>b, <2>2
    <3>2. QED
      BY <1>3, <2>3, <3>1
  <2>5. s[PoolSize * ((k + 1) - 1) + f] = ms[Len(ms) - q + (k + 1)][f]
    BY <2>1 DEF Backlog
  <2>6. Len(ms) - q + (k + 1) = Len(ms) - (q - 1) + k
    BY <1>1, <2>1
  <2>7. QED
    BY <2>4, <2>5, <2>6
<1>6. \A f \in Fields : f <= Len(s) /\ s[f] = ms[Len(ms) - q + 1][f]
  <2> SUFFICES ASSUME NEW f \in Fields PROVE f <= Len(s) /\ s[f] = ms[Len(ms) - q + 1][f]
    OBVIOUS
  <2>1. 1 \in 1 .. q /\ PoolSize * (1 - 1) + f = f
    BY <1>1
  <2>2. s[PoolSize * (1 - 1) + f] = ms[Len(ms) - q + 1][f]
    BY <2>1 DEF Backlog
  <2>3. f \in Nat /\ f <= PoolSize
    BY <1>b
  <2>4. f <= Len(s)
    BY <1>b, <2>3
  <2>5. QED
    BY <2>1, <2>2, <2>4
<1>7. QED
  BY <1>4, <1>5, <1>6 DEF Backlog, r

\* What StreamInv says of one connection.
LinkInv(fd) ==
  /\ server[fd] = "none" => stream[fd] = << >> /\ sent[fd] = << >>
  /\ Queued(fd) \in Nat /\ Backlog(stream[fd], sent[fd], Queued(fd))

\* StreamInv holds when every connection has it, in a state...
LEMMA StreamInvByLink ==
  ASSUME LinkType PROVE StreamInv <=> \A fd \in Fds : LinkInv(fd)
<1> SUFFICES ASSUME NEW fd \in Fds PROVE Queued(fd) \in Nat /\ Len(sent[fd]) \in Nat
  BY DEF StreamInv, LinkInv, Backlog, Taken, Queued
<1>1. Len(stream[fd]) \in Nat /\ Len(sent[fd]) \in Nat
  BY DEF LinkType
<1>2. QED
  BY <1>1, ConstantsType, DivisionType DEF Queued

\* ... and in the next one.
LEMMA StreamInvByLinkNext ==
  ASSUME LinkType' PROVE StreamInv' <=> \A fd \in Fds : LinkInv(fd)'
<1> SUFFICES ASSUME NEW fd \in Fds PROVE Queued(fd)' \in Nat /\ Len(sent'[fd]) \in Nat
  BY DEF StreamInv, LinkInv, Backlog, Taken, Queued
<1>1. Len(stream'[fd]) \in Nat /\ Len(sent'[fd]) \in Nat
  BY DEF LinkType
<1>2. QED
  BY <1>1, ConstantsType, DivisionType DEF Queued

\* A connection nothing happens on stays as it is.
LEMMA LinkKept ==
  ASSUME NEW fd \in Fds, LinkInv(fd), server'[fd] = "none" => server[fd] = "none",
         stream'[fd] = stream[fd], sent'[fd] = sent[fd]
  PROVE  LinkInv(fd)' /\ Taken(fd)' = Taken(fd) /\ Queued(fd)' = Queued(fd)
  BY DEF LinkInv, Queued, Taken

\* One that is closed is empty.
LEMMA LinkEmptied ==
  ASSUME NEW fd \in Fds, stream'[fd] = << >>, sent'[fd] = << >>
  PROVE  LinkInv(fd)'
<1>1. Queued(fd)' = 0
  BY MultiplesOfPoolSize, ConstantsType DEF Queued
<1>2. Backlog(<< >>, << >>, 0)
  BY MultiplesOfPoolSize, ConstantsType DEF Backlog
<1>3. QED
  BY <1>1, <1>2 DEF LinkInv

\* A server adds a message to what is to be received.
LEMMA LinkSent ==
  ASSUME Sizes \subseteq {PoolSize}, LinkType, NEW fd \in Fds, LinkInv(fd),
         NEW m \in Messages, NEW n \in Sizes, ServerSends(fd, m, n)
  PROVE  /\ LinkInv(fd)' /\ Taken(fd)' = Taken(fd) /\ Taken(fd) \in 0 .. Len(sent[fd])
         /\ \A k \in 1 .. Len(sent[fd]) : sent'[fd][k] = sent[fd][k]
<1> DEFINE q == Queued(fd)
<1>1. n = PoolSize /\ PoolSize \in Sizes /\ q \in Nat /\ Backlog(stream[fd], sent[fd], q)
  BY DEF LinkInv
<1>2. /\ stream'[fd] = stream[fd] \o SubSeq(m, 1, PoolSize) /\ sent'[fd] = Append(sent[fd], m)
      /\ server[fd] = "up" /\ server' = server
  BY <1>1 DEF ServerSends, LinkType
<1>3. stream[fd] \in Seq(Values) /\ sent[fd] \in Seq([Fields -> Values])
  BY DEF LinkType
<1> HIDE DEF q
<1>4. Backlog(stream'[fd], sent'[fd], q + 1)
  BY <1>1, <1>2, <1>3, BacklogSend
<1>5. Len(stream'[fd]) = PoolSize * (q + 1) /\ q + 1 \in Nat
  BY <1>1, <1>4 DEF Backlog
<1>6. Queued(fd)' = q + 1
  BY <1>5, MultiplesOfPoolSize DEF Queued
<1>7. Len(sent'[fd]) = Len(sent[fd]) + 1 /\ Len(sent[fd]) \in Nat /\ q <= Len(sent[fd])
  BY <1>1, <1>2, <1>3 DEF Backlog
<1>8. Taken(fd)' = Taken(fd) /\ Taken(fd) \in 0 .. Len(sent[fd])
  <2>1. Taken(fd) = Len(sent[fd]) - q
    BY DEF Taken, Queued, q
  <2>2. Taken(fd)' = Len(sent'[fd]) - (q + 1)
    BY <1>6 DEF Taken, Queued
  <2>3. QED
    BY <1>1, <1>7, <2>1, <2>2
<1>9. \A k \in 1 .. Len(sent[fd]) : sent'[fd][k] = sent[fd][k]
  BY <1>2, <1>3, MessageType
<1>10. QED
  BY <1>2, <1>4, <1>6, <1>8, <1>9, <1>1 DEF LinkInv

\* What recv() takes, and so the pool afterwards, is the next message.
LEMMA LinkTaken ==
  ASSUME LinkType, NEW fd \in Fds, LinkInv(fd), stream[fd] # << >>,
         stream' = [stream EXCEPT ![fd] = Rest(@)], UNCHANGED <<server, sent>>
  PROVE  /\ LinkInv(fd)' /\ Taken(fd)' \in 1 .. Len(sent[fd])
         /\ Received(fd) = sent[fd][Taken(fd)']
<1> DEFINE q == Queued(fd)
<1>1. q \in Nat /\ Backlog(stream[fd], sent[fd], q) /\ server[fd] # "none"
  BY DEF LinkInv
<1>2. stream[fd] \in Seq(Values) /\ sent[fd] \in Seq([Fields -> Values])
  BY DEF LinkType
<1>3. stream'[fd] = Rest(stream[fd])
  BY DEF LinkType
<1> HIDE DEF q
<1>4. q \in Nat \ {0}
  <2>1. Len(stream[fd]) = PoolSize * q /\ Len(stream[fd]) # 0
    BY <1>1, <1>2 DEF Backlog
  <2>2. QED
    BY <1>1, <2>1, MultiplesOfPoolSize
<1>5. /\ Backlog(stream'[fd], sent[fd], q - 1) /\ q - 1 \in Nat
      /\ \A f \in Fields : /\ f <= Len(stream[fd])
                           /\ stream[fd][f] = sent[fd][Len(sent[fd]) - q + 1][f]
  <2>1. /\ Backlog(Rest(stream[fd]), sent[fd], q - 1)
        /\ \A f \in Fields : /\ f <= Len(stream[fd])
                             /\ stream[fd][f] = sent[fd][Len(sent[fd]) - q + 1][f]
    BY <1>1, <1>2, <1>4, BacklogTake
  <2>2. q - 1 \in Nat
    BY <1>4
  <2>3. QED
    BY <1>3, <2>1, <2>2
<1>6. Queued(fd)' = q - 1
  <2>1. Len(stream'[fd]) = PoolSize * (q - 1)
    BY <1>5 DEF Backlog
  <2>2. QED
    BY <1>5, <2>1, MultiplesOfPoolSize DEF Queued
<1>7. Len(sent[fd]) \in Nat /\ q <= Len(sent[fd])
  BY <1>1, <1>2 DEF Backlog
<1>8. Taken(fd)' = Len(sent[fd]) - q + 1 /\ Taken(fd)' \in 1 .. Len(sent[fd])
  BY <1>4, <1>6, <1>7 DEF Taken, Queued
<1>9. sent[fd][Taken(fd)'] \in [Fields -> Values]
  BY <1>2, <1>8
<1>10. Received(fd) = sent[fd][Taken(fd)']
  BY <1>5, <1>8, <1>9 DEF Received
<1>11. QED
  BY <1>1, <1>5, <1>6, <1>8, <1>10 DEF LinkInv

\* Every step keeps the streams and the pools in agreement with what was sent.
LEMMA DataInvStep ==
  ASSUME Sizes \subseteq {PoolSize}, IndInv, DataInv, [Next]_vars PROVE DataInv'
<1>0. LinkType /\ LinkType' /\ PoolIsLastMessage /\ EntriesSound /\ \A fd \in Fds : LinkInv(fd)
  <2>1. LinkType /\ LinkType'
    BY LinkTypeStep DEF IndInv, TypeOK
  <2>2. QED
    BY <2>1, StreamInvByLink DEF DataInv, IndInv
<1> SUFFICES (\A fd \in Fds : LinkInv(fd)') /\ PoolIsLastMessage'
  BY <1>0, StreamInvByLinkNext DEF DataInv
<1> USE DEF PoolIsLastMessage
<1>1. CASE Same
  <2>1. \A fd \in Fds : LinkInv(fd)' /\ Taken(fd)' = Taken(fd)
    BY <1>0, <1>1, LinkKept DEF Same
  <2>2. QED
    BY <1>0, <1>1, <2>1 DEF Same, InUse, EntriesSound
<1>2. CASE Cleared
  <2>1. \A fd \in Fds : LinkInv(fd)'
    BY <1>0, <1>2, LinkKept DEF Cleared
  <2>2. InUse' = {}
    BY <1>2 DEF Cleared, ClientInfoClear, InUse, Empty
  <2>3. QED
    BY <2>1, <2>2
<1>3. CASE Servers
  <2>0. UNCHANGED <<inited, info>> /\ InUse' = InUse
    BY <1>3, ServersFrame DEF InUse
  <2>1. \A d \in Fds : /\ LinkInv(d)' /\ Taken(d)' = Taken(d)
                       /\ Taken(d) # 0 => sent'[d][Taken(d)] = sent[d][Taken(d)]
    <3>1. ASSUME NEW fd \in Fds, ServerCloses(fd), NEW d \in Fds
          PROVE  LinkInv(d)' /\ Taken(d)' = Taken(d) /\ sent' = sent
      BY <1>0, <3>1, LinkKept DEF ServerCloses, LinkType
    <3>2. ASSUME NEW fd \in Fds, NEW m \in Messages, NEW n \in Sizes, ServerSends(fd, m, n),
                 NEW d \in Fds
          PROVE  /\ LinkInv(d)' /\ Taken(d)' = Taken(d)
                 /\ Taken(d) # 0 => sent'[d][Taken(d)] = sent[d][Taken(d)]
      <4>1. CASE d = fd
        <5>1. /\ LinkInv(fd)' /\ Taken(fd)' = Taken(fd) /\ Taken(fd) \in 0 .. Len(sent[fd])
              /\ \A k \in 1 .. Len(sent[fd]) : sent'[fd][k] = sent[fd][k]
          BY <1>0, <3>2, LinkSent
        <5>2. Len(sent[fd]) \in Nat
          BY <1>0 DEF LinkType
        <5>3. Taken(fd) # 0 => Taken(fd) \in 1 .. Len(sent[fd])
          BY <5>1, <5>2
        <5>4. QED
          BY <4>1, <5>1, <5>3
      <4>2. CASE d # fd
        <5>1. stream'[d] = stream[d] /\ sent'[d] = sent[d] /\ server' = server
          BY <1>0, <3>2, <4>2 DEF ServerSends, LinkType
        <5>2. QED
          BY <1>0, <5>1, LinkKept
      <4>3. QED
        BY <4>1, <4>2
    <3>3. QED
      BY <1>3, <3>1, <3>2 DEF Servers
  <2>2. QED
    BY <1>0, <2>0, <2>1 DEF EntriesSound
<1>4. ASSUME NEW i \in Slots, NEW fd \in Fds, Added(i, fd)
      PROVE  (\A d \in Fds : LinkInv(d)') /\ PoolIsLastMessage'
  <2>1. AddedAt(i, fd) /\ server[fd] = "none"
    BY <1>4, AddedFacts DEF Added
  <2>2. \A d \in Fds : LinkInv(d)' /\ Taken(d)' = Taken(d)
    <3>1. \A d \in Fds : /\ server'[d] = "none" => server[d] = "none"
                         /\ stream'[d] = stream[d] /\ sent'[d] = sent[d]
      BY <2>1 DEF AddedAt
    <3>2. QED
      BY <1>0, <3>1, LinkKept
  <2>3. Taken(fd) = 0
    <3>1. stream[fd] = << >> /\ sent[fd] = << >>
      BY <1>0, <2>1 DEF LinkInv
    <3>2. QED
      BY <3>1, MultiplesOfPoolSize, ConstantsType DEF Taken
  <2>4. \A j \in InUse : j \in Slots /\ j # i /\ info'[j] = info[j]
    BY <2>1 DEF InUse, AddedAt
  <2>5. QED
    BY <1>0, <2>1, <2>2, <2>3, <2>4 DEF AddedAt, EntriesSound
<1>5. ASSUME NEW i \in InUse, Released(i)
      PROVE  (\A d \in Fds : LinkInv(d)') /\ PoolIsLastMessage'
  <2>1. ReleasedAt(i)
    BY <1>5, ReleasedFacts
  <2>2. PICK fd \in Fds : fd = info[i].fd
    BY <2>1 DEF ReleasedAt
  <2>3. \A d \in Fds : d # fd => LinkInv(d)' /\ Taken(d)' = Taken(d)
    BY <1>0, <2>1, <2>2, LinkKept DEF ReleasedAt
  <2>4. LinkInv(fd)'
    BY <2>1, <2>2, LinkEmptied DEF ReleasedAt
  <2>5. \A j \in InUse' : /\ j \in InUse /\ j \in Slots /\ j # i /\ info'[j] = info[j]
                          /\ info[j].fd # fd /\ info[j].fd \in Fds
    BY <1>0, <2>1, <2>2 DEF InUse, ReleasedAt, EntriesSound
  <2>6. \A d \in Fds : LinkInv(d)'
    BY <2>3, <2>4
  <2>7. PoolIsLastMessage'
    BY <1>0, <2>1, <2>3, <2>5 DEF ReleasedAt
  <2>8. QED
    BY <2>6, <2>7
<1>6. ASSUME NEW i \in Slots, Registered(i)
      PROVE  (\A d \in Fds : LinkInv(d)') /\ PoolIsLastMessage'
  <2>1. RegisteredAt(i)
    BY <1>6, RegisteredFacts
  <2>2. \A d \in Fds : LinkInv(d)' /\ Taken(d)' = Taken(d)
    BY <1>0, <2>1, LinkKept DEF RegisteredAt
  <2>3. \A j \in InUse : j \in Slots
    BY DEF InUse
  <2>4. QED
    BY <1>0, <2>1, <2>2, <2>3 DEF RegisteredAt, EntriesSound
<1>7. ASSUME NEW fd \in Fds, Delivered(fd)
      PROVE  (\A d \in Fds : LinkInv(d)') /\ PoolIsLastMessage'
  <2>1. PICK i \in InUse : DeliveredTo(i, fd)
    BY <1>7, DeliveredFacts
  <2>2. /\ LinkInv(fd)' /\ Taken(fd)' \in 1 .. Len(sent[fd])
        /\ Received(fd) = sent[fd][Taken(fd)']
    BY <1>0, <2>1, LinkTaken DEF DeliveredTo
  <2>3. ASSUME NEW d \in Fds, d # fd PROVE LinkInv(d)' /\ Taken(d)' = Taken(d)
    <3>1. stream'[d] = stream[d] /\ sent' = sent /\ server' = server
      BY <1>0, <2>1, <2>3 DEF DeliveredTo, LinkType
    <3>2. QED
      BY <1>0, <3>1, LinkKept
  <2>4. Taken(fd)' # 0
    <3>1. Len(sent[fd]) \in Nat
      BY <1>0 DEF LinkType
    <3>2. QED
      BY <2>2, <3>1
  <2>5. \A j \in InUse : /\ j \in Slots /\ info[j].fd \in Fds
                         /\ j # i => info[j].fd # fd
    BY <1>0, <2>1 DEF InUse, EntriesSound, DeliveredTo
  <2>6. QED
    BY <1>0, <2>1, <2>2, <2>3, <2>4, <2>5 DEF DeliveredTo
<1>8. QED
  BY <1>1, <1>2, <1>3, <1>4, <1>5, <1>6, <1>7, StepHasEffect DEF Effect

\* They hold at the start of the process.
LEMMA DataInvInit == Init => DataInv
<1> SUFFICES ASSUME Init PROVE DataInv
  OBVIOUS
<1>1. \A fd \in Fds : LinkInv(fd)
  <2> SUFFICES ASSUME NEW fd \in Fds PROVE LinkInv(fd)
    OBVIOUS
  <2>1. stream[fd] = << >> /\ sent[fd] = << >>
    BY DEF Init
  <2>2. PoolSize * 0 = 0 /\ 0 \div PoolSize = 0
    BY ConstantsType
  <2>3. Queued(fd) = 0
    BY <2>1, <2>2 DEF Queued
  <2>4. Backlog(<< >>, << >>, 0)
    BY <2>2 DEF Backlog
  <2>5. QED
    BY <2>1, <2>3, <2>4 DEF LinkInv
<1>2. LinkType
  BY TypeInit DEF TypeOK
<1>3. PoolIsLastMessage
  BY DEF Init, PoolIsLastMessage
<1>4. QED
  BY <1>1, <1>2, <1>3, StreamInvByLink DEF DataInv

\* When servers send whole structures, the streams and the pools agree with what was sent in
\* every reachable state.
THEOREM DataInvariance == ASSUME Sizes \subseteq {PoolSize} PROVE Spec => [](IndInv /\ DataInv)
<1>1. Init => IndInv /\ DataInv
  BY IndInvInit, DataInvInit
<1>2. (IndInv /\ DataInv) /\ [Next]_vars => (IndInv /\ DataInv)'
  BY IndInvStep, DataInvStep
<1>3. QED
  BY <1>1, <1>2, PTL DEF Spec

\* When servers send whole structures, a pool is exactly the last message received on the
\* connection of its own entry, or zeros: never a mixture, never another usage's data
\* (ipcReceiveDataFromServer, ipcWriteToDataPool).
THEOREM PoolsHoldMessages == ASSUME Sizes \subseteq {PoolSize} PROVE Spec => []PoolIsLastMessage
<1>1. IndInv /\ DataInv => PoolIsLastMessage
  BY DEF DataInv
<1>2. QED
  BY <1>1, DataInvariance, PTL
=============================================================================
