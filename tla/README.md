# A TLA+ model of the IPC library

This directory holds TLA+ specifications of `libcluster_ipc`, the library under `src/src` with
which one server process publishes a data structure to client processes over a Unix domain
socket, and of the two programs under `src/ipc_unit_test` that use it; TLC configurations that
model-check them on small instances; and proofs, checked by TLAPS, of every safety property
the passing runs check, for instances of any size: of the server library, the client library,
the two programs as their operators see them, and both processes together, up to the theorem
that they implement a broadcast from `ipcSendMessage` to the data pool of the other process.
Paths below are relative to the repository, line numbers are those of the sources beside this
directory.

## 1. Inventory of the system

| Component | Code | State | Operations |
|---|---|---|---|
| Server library | `src/ipc_server.c` | `g_initedFlag`, `g_threadRunning`, `g_serverInfo[1]` (usage, listening descriptor, `clientFd[5]`), `g_mutex`, epoll, control pipe | `ipcServerStart`, `ipcSendMessage`, `ipcServerStop`; `ipcServerThread` accepts clients and notices leavers |
| Client library | `src/ipc_client.c` | the same flags, `g_clientInfo[]` (usage, descriptor, data pool, callback), `g_mutex`, epoll, control pipe, `localDataPool` on the thread's stack | `ipcClientStart`, `ipcReadDataPool`, `ipcRegisterCallback`, `ipcClientStop`; `ipcClientThread` receives, calls back, notices hang-ups |
| Both together | both | the socket file, the backlog, the streams | what a step in one process does to the other |
| Change detection, tables | `src/ipc_usage_info_table.c`, `include/ipc_protocol.h` | constant tables: the fields of each structure with their kinds | read by `ipcCheckChangeAndCallback` |
| Domain names | `src/ipc_internal.c` | none (reads `IPC_DOMAIN_PATH`) | name and address of the socket file of a usage type |
| Public header | `include/cluster_ipc.h` | none | the API declarations |
| Unit test programs | `ipc_unit_test/` | menu, input buffers, `g_dataIcService` | start, commands (write, send, list, read, quit), stop |
| Build files | `CMakeLists.txt`, ... | none | none |

How they interact. An application thread calls the API; the first start creates a service
thread. The two share the globals under `g_mutex`, except that `g_initedFlag` and
`g_threadRunning` are read and written outside it, that `ipc*Init` and `ipc*Deinit` run
outside it, and that an event fetched by `epoll_wait` is kept across taking the mutex. API
calls wake the thread with a byte in a pipe; the last stop cancels and joins it. Between
processes there is the socket file (bound by the server, unlinked by its stop or by an error
path), the backlog, and the stream of each connection.

What is hard here:

- cancellation: `pthread_cancel` reaches the thread at any cancellation point, inside the
  critical section too;
- the unlocked flags and the window between `epoll_wait` and `pthread_mutex_lock`, in which
  the caller can close, open and reuse what an event names;
- blocking calls made with the mutex held (`write` to a client that does not read, `connect`,
  `recv` for an event that is out of date, `read`), and user callbacks;
- the error paths, which release what they did not acquire (`ipcAddServer`,
  `ipcServerCreateSocket`) or stop in the middle (`ipcSendMessage`, whose first failed write
  ends the loop over the clients);
- a stream without message boundaries, read as if it had them;
- a crash that leaves the socket file, clients that die, a second server program that takes
  the file away;
- in the programs: lines longer than the buffer they are read into, numbers wider than an int
  or than the field they are stored in, messages that come before the callback is registered.

What makes each part correct:

- server: whoever is in the table can be reached; the slots and the accepted connections are the
  same set; a client is given the broadcasts from its acceptance on, in their order, and misses
  one only if `ipcSendMessage` returned an error; calls return; clients are answered; leavers
  are noticed; a stop leaves nothing behind;
- client: entries, sockets and pools correspond one to one; the pool is the last structure
  received on the right connection; callbacks tell exactly what changed; messages and
  hang-ups are taken in; a stop returns and leaves nothing behind;
- together: both ends agree on what is connected; the pool of a client goes through the
  broadcasts one by one, but for those that failed, and reaches each; a client learns that its
  server has ended, or that it was turned away;
- programs: a line is a command; what is stored is what is shown; every change after the
  registration is printed;
- names: never longer than `sun_path`.

The hazards, each at its line and with the properties that would show it, are in
`PROJECT.json`.

## 2. Modules

| Module | What it is |
|---|---|
| `IpcBroadcast` | abstract specification: a publisher, some of whose broadcasts it knows to have failed, and subscribers that are brought from one broadcast to the next that did not |
| `IpcServer` | the server process, its clients and its crashes as environment; properties; inductive invariant; implements `IpcBroadcast` |
| `IpcServerProofs` | its theorems |
| `IpcServerRefinement` | the theorem that it implements `IpcBroadcast` |
| `IpcClient` | the client process, the servers as environment; properties; inductive invariant |
| `IpcClientProofs` | its theorems |
| `IpcSystem` | a server program and a client program: `IpcServer` and an instance of `IpcClient` (by way of `IpcClientProofs`, whose theorems come with it), each one's environment replaced by the other; implements `IpcBroadcast` from end to end |
| `IpcSystemProofs` | the theorems that both processes keep their invariants and agree on their connections |
| `IpcSystemRefinement` | the theorems that streams carry the broadcasts one by one and that the two programs implement `IpcBroadcast` |
| `IpcConsole` | the two programs as their operators see them: names, lines, menus, the data structure and its change table; inductive invariant |
| `IpcConsoleProofs` | its theorems |
| `MCServer`, `MCClient`, `MCSystem`, `MCConsole` | the instances for TLC (symmetry, sets of messages and lines); one `.cfg` per run |

Definitions called `Bug_...` are seeded faults. Nothing uses them; put in the place of the
definition that follows, each makes TLC report the properties its comment names, which shows
that these properties depend on the code they are about.

### Correspondence with the code

`IpcServer` and `IpcClient` have a program counter for the application thread (`pc`) and one
for the service thread (`tpc`). One step is a stretch of code in which nothing another thread
can see or change is touched twice: a critical section without blocking calls is one step; the
accesses to `g_threadRunning` outside the mutex are steps of their own, and so is each call
that can block with the mutex held. Cancellation is an alternative (`ActOnCancel`) at each step
that makes a cancellation point call; the thread then ends with whatever it holds.

`IpcServer`: `CallServerStart` is `ipcServerStart` with `ipcServerInit`; `AddServer` its
critical section with all of `ipcAddServer` and `ipcServerCreateSocket`, error paths included;
`StartThread`, `SetThreadRunning`, `WakeThread` the rest. `SendLock`, `SendWrite` (one per
slot), `SendBlocks`, `SendBroken`, `SendKilled`, `SendDone` are `ipcSendMessage`. `SendBlocks`
is the waiting of `write()` for room in a client's socket. From there the call returns -1 when
the client goes, without a signal; to a client that is gone already `write()` raises SIGPIPE,
which ends the process (`SendKilled`) or, where it is ignored, the call returns -1; and it may
return -1 for want of buffers or because a signal interrupts it (`WriteFails`). Each of these
ends the loop at line 512 (`SendBroken`). `RemoveServer` is the
critical section of `ipcServerStop`, `Deinit...` is `ipcServerDeinit`. `LoopTest` to
`ThreadUnlock` are the loop of `ipcServerThread`: `AcceptClient` stands for `ipcAcceptClient`
and `ipcAddConnectClient`, `CloseClient` and `CloseFd` for `ipcCloseClient`. The table has
one entry because `IPC_SERVER_USAGE_MAX_NUM` is 1; `ClientNum` stands for
`IPC_LISTEN_CLIENT_NUM`. `path` is what each socket file is bound to, `link`, `on` and `peer`
are the two ends of each connection; `got`, `joined` and `cut` are history: the broadcasts
written to a connection, in order, the number that had begun when it was accepted, and the
broadcasts whose `ipcSendMessage` returned an error after it had begun to write.

`IpcClient`: `CallClientStart` to `CountAfterFailure` are `ipcClientStart`, with the whole
`end:` path; `AddClient` and `Connect` are the two halves of `ipcAddClient` around `connect()`.
`RemoveClient` is the critical section of `ipcClientStop` with `ipcRemoveClient` (`Release`).
`EpollWait` fetches a batch of events, `HandleHangup`, `HandleData`, `HandleEnd`,
`HandleRefused`, `HandleRecvFails`, `HandleUnknown` and `ReadPipe` take them one by one under
the mutex, in any order. `HandleData` is `ipcReceiveDataFromServer`, `ipcCheckChangeAndCallback`
(`Changed`) and `ipcWriteToDataPool` (`Stored`), with the partial overwriting of `localDataPool`
(`Received`). `refused` says that errno is `ECONNREFUSED`: a callback can leave it so, `recv()`
does not reset it, and line 295 takes it for a refused connection. A connection is named by its
descriptor and descriptors are reused, lowest first, as in POSIX. `sent` and `told` are history:
what the server wrote on a connection, and what the callback of an entry has been told so far.

`IpcSystem`: `ServerSide(A)` is a step `A` of the server process together with what it does at
the other end of its connections: a message it writes arrives in the client's stream, a socket
it shuts down, closes or drops hangs up. `ClientSide(A)` is the same the other way round:
`connect()` finds the socket the file is bound to, `recv()` empties the server's socket,
`close()` is noticed by the server. `wire` says which connection is behind which descriptor.
`serverMain` and `clientMain` are where `main()` of each program is; they fix which API call
comes next, and that the process ends after `ipcServerStop` or `ipcClientStop`. Around the two
there are other clients (connections outside `Own`) and a second server program, of which only
its effect is kept: `bind` fails and the error path unlinks the file.

`IpcConsole`: `ServerMenu`, `WriteMenu`, `ClientMenu` carry out what `GetCommand` has read and
`DropRest` has finished reading. A line is its first character or number, and how many
characters of it are unread; `Chunk` is what `fgets` takes of it. Index and value go through
`strtol` (`Strtol`: the nearest `long`) and the cast to `int` (`IntOf`: the low bytes of it);
`StoredAs` is the copying of the low bytes of that `int` into a field of 1, 2, 4 or 8 bytes and
their being read as a signed number. `Half` says how large these integers are. `Width` and
`ChangeTable` are the structure and the change table of `IPC_USAGE_TYPE_IC_SERVICE`, in the
order of the sources, cut down to the fields of `Fields`. `told` is what the callback has
printed, nothing before it is registered, and `registered` is the pool at that moment.

### Abstractions

- A message is a number (server) or a tuple of fields (client); a change table is the set of
  watched fields, except in `IpcConsole`. In `IpcServer` and `IpcSystem` messages have the
  structure's full size.
- Sockets and connections of the server get fresh names. Reuse of descriptor numbers cannot
  hurt the server in the model: the service thread alone closes clients' descriptors, with
  the event in hand. It is modelled for the client, where the caller closes them too.
- One application thread per process, as in the unit test programs.
- `epoll_ctl`, `listen`, `shutdown` and the wake-up `write` do not fail. The system calls in
  `SysFail` may fail at every call, the `write` of a broadcast and `recv` among them; without
  `"write"` in it a write of a broadcast fails for what the client does, and for nothing else.
  A write of a broadcast is not cut short.
- A `recv()` of the client that blocks is a step that is not enabled; `WaitsInRecv` names that
  state. `epoll_wait` hands out a batch in any order.
- In the client the return codes are not kept, only which way a call ends. Of errno only
  `ECONNREFUSED` matters, and only in the service thread.
- The backlog holds `ClientNum + 1` waiting clients, as in Linux, and is served in any order.
- In `IpcSystem` the client's system calls other than `connect` succeed, and in its runs the
  server's other than `bind` and the `write` of a broadcast; the server program ends by `q`, a
  failed start or SIGPIPE. A `connect()` that has waited for room in the backlog may find its
  file gone.
- In `IpcConsole` threads and system calls are left out, so is `l`, which only prints; between
  the programs there is a queue, as `PoolFollowsBroadcasts` of `IpcSystem` says of broadcasts
  that did not fail. The lines that one message makes the callback print are a set, because no
  two are of the same kind. A number whose last digits were cut off is divided by a power of
  ten (`Without`). A write to a field outside `Fields` changes nothing the model has. Which
  member a kind of `IPC_KIND_IC_SERVICE_E` stands for is taken from the change table, the only
  place that says so.

## 3. Runs

Each bound is a constant in the `.cfg`.

| Run | Instance | What it shows |
|---|---|---|
| `server_safety` | 1 usage type, 3 clients, 2 slots, 2 broadcasts, socket buffers of 1 message, SIGPIPE at its default | slots, accepted connections, delivery, mutex and deinit in every interleaving, a write that fails while it waits for a client, or for no reason of the client's, included; every step is one of `IpcBroadcast`; 712 000 states |
| `server_faults` | 2 usage types, 2 clients, 1 slot, all system calls failing, the write of a broadcast too, 2 starts, 1 crash, SIGPIPE ignored | failed and repeated starts, restart after a crash with the file left behind; the inductive invariant of the proofs; 3.3 million states |
| `server_liveness` | 1 start, 2 clients that need not read, 1 slot, 2 broadcasts, fairness of the server's threads | a stop returns; a broadcast returns, clients are answered, leavers are noticed, unless a client holds the server up for ever (`HeldUpBy`); 51 000 states |
| `client_safety` | 2 usage types, 2 entries, all system calls failing, `recv` too, callbacks that leave an errno, 2 messages per connection, starts and stops unbounded | entries, pools, sockets, streams, callbacks, descriptor reuse; the inductive invariants of the proofs (`IndInv`, `DataInv`); 1.6 million states |
| `client_liveness` | 2 usage types, 2 entries, 1 message per connection, fairness | messages and hang-ups are taken in and a stop returns, unless the service thread waits for ever in a `recv()` for an event that is out of date (`WaitsInRecv`); 116 000 states |
| `system` | 1 server program, 1 client program, 1 slot, 2 broadcasts, both quit when their operators say so, a second server program that takes the file away, the write of a broadcast may fail | the invariants of the proofs, `EndsAgree` and `DataInv` with two different structures among them (`EndToEndInv`); from `ipcSendMessage` to the data pool the system implements `IpcBroadcast`; 688 000 states |
| `system_liveness` | 1 server program, 1 client program and 1 other client that need not read, 1 slot, 1 broadcast, fairness | the ends of every connection agree; a broadcast reaches the pool; a client that finds the table full, and one whose server has been ended by SIGPIPE, are told; 116 000 states |
| `console` | 4 fields of 1, 4 and 8 bytes, 5 lines at the server and 1 at the client, numbers and an index beyond each size, directory lengths around the limit | lines are commands, what is stored is what the conversions leave, changes are printed, names fit but for one length; the inductive invariant of the proofs; 792 000 states |

Why the bounds are enough: three clients for two slots give a full table, a client turned
away, a free slot behind a used one, a slot that is used again, and a slot behind that of a
client whose write fails; two broadcasts give one under way and one before it, and a buffer of
one message a write that blocks. Two entries in the client are the least for an event that
outlives its descriptor's owner (with one, a stop joins the thread), for a `recv()` that waits
on the wrong connection, and for data of one usage type to reach another. One client more, or
one message more, repeats these situations; for the safety properties the proofs do away with
the bounds. `MaxPipe` forbids a start while 2 wake-up bytes are unread, where the pipe holds
65536; nothing else is kept waiting by it. `Readers` are the usage types for which
`ipcReadDataPool` and `ipcRegisterCallback` are called: one of the two in `client_safety`, none
in `client_liveness`, where they are only further contenders for the mutex.

`system` and `system_liveness` share the situations between them. In the first two different
structures tell a skipped broadcast from a repeated one (they differ in every field from each
other and from a new pool), both programs quit, and the file is taken away at any moment. In
the second there is another client, which may have the only slot, or leave and have a write to
it end the server. That the server program quits, while it is checked for fairness, would make
more than 300 000 states of the second one, which is too many for the search for cycles: a
server that is gone for good is there the work of SIGPIPE.

In `console` the lines have the lengths that just fit into a buffer and that just do not; five
are a visit to the write menu, a number, and the sending of it. `Fields` holds the field a word
overwrites, one of one byte, and one of eight. An int has 21 bits there and a long 29, since
TLC counts in 32, so that numbers beyond both are typed; the theorems hold for the sizes of the
real ones (`IntegerSizes`).

CHECK_DEADLOCK is off: a process whose caller makes no more calls and whose clients are gone
has stopped legitimately, and an orphaned mutex is reported by the run about it.

### Runs that find a violation

Each states what a comment or `README.md` says, and TLC finds the code doing otherwise.

| Run | Property | What happens |
|---|---|---|
| `server_restart` | `StartReturns` | a stop cancels the thread between `pthread_mutex_lock` and `unlock`; the next start blocks for ever |
| `server_thread_race` | `StartedServerHasThread` | the new thread tests `g_threadRunning` before it is set, and ends |
| `client_reused_descriptor` | `OnlyServerOrStopEnds` | a stale EPOLLRDHUP closes the new connection that reuses the number |
| `client_short_message` | `PoolHoldsOnlyWhatWasSent` | the tail of the pool is filled with stack contents |

Four more deviations are in the models without a run of their own. The comment at
`src/ipc_server.c:504` says "Send to All Client", and the first write that fails ends the loop
of `ipcSendMessage` (`SendBroken`), with SIGPIPE at its default too, when the client goes while
the write waits for it: the clients in the slots behind it miss the broadcast, and all there is
to tell is the return value. `MissedOnlyIfReported` and `ImplementsBroadcast` say that it is
the only way to miss one. A second start for the usage type that is served clears the entry of
the running server (`AddServerFails`, first disjunct), whose socket and clients are forgotten
without being closed. A message that arrives between `ipcClientStart` and
`ipcRegisterCallback` is printed by nobody. A directory name of 95 characters makes a socket
name that `ipcCreateDomainName` lets pass and that is one byte too long for its buffer:
`NameFits` says that this is the only length.

### Fairness

`FairSpec` adds weak fairness of the application thread inside a call (as one action) and of
the service thread (as one action): the scheduler runs every thread that can run. Nothing makes
the application call, a client come, read or leave, a server send or hang up, or a process die.
In particular clients need not read, be it that the process is stopped or that its service
thread has lost the race of its start: then `write()` keeps `g_mutex` until the client goes, and
that state, for ever, is the one exception of `SendReturns`, `ClientIsAnswered`,
`LeaverIsClosed` and `BroadcastArrives` (`[]HeldUpBy(c)`). Whatever else the clients do, the
calls return and the others are served.

In `IpcClient` the caller may start and stop usage types for ever, each time taking the mutex
again, so that the service thread is assumed to get it in the end (strong fairness of
`ThreadLock`): between any two critical sections of the caller it is free, and a thread that
waits for it competes for it every time. In `IpcServer` and `IpcSystem` no strong fairness is
needed, because the caller holds the mutex across steps only in a broadcast, whose number is
bounded, and in a `connect()`, of which there is one in a life of the client program. With two
usage types an event that is fetched before its descriptor is closed and reused makes `recv()`
wait, with the mutex held, for the first message of another server; this state, for ever, is
the one exception of `MessageIsTaken`, `HangupIsNoticed` and the client's `StopReturns`
(`[]WaitsInRecv`). `connect()` is assumed to return in `IpcClient`; in `IpcSystem` it returns
when the server's thread has made room. The properties about clients except the time after the
service thread has ended, which the race and restart runs look at.

`SystemFairness` is the same for both processes, and for `main()` of each program where it does
not wait for a command: a call that has returned is followed by the next one, and a program
whose last call has returned ends. The conditions are stated on one process's variables where
what the step does to the other process is always possible, and on all of them for
`connect()`, the one call that waits for the other process.

## 4. Proofs

Every theorem holds for every value of the constants that satisfies the named assumptions of the
module: `ServerConstants`, `DescriptorsDiffer`, `ClientConstants`, `NamesDiffer`,
`ConsoleConstants`, `IntegerSizes`, `NoneIsNoData`, `SystemConstants`. They give the constants
their types (in `IpcClient` also that there is a first entry and a field, in `IpcSystem` that
the structures to be sent differ from each other and in every field from a new pool, which is
how a pool tells which broadcast it holds) and keep descriptors, names and data apart from
`None`. The bounds on starts, messages and crashes are constants too, so the theorems hold for
all of them.

The proofs have one lemma per conjunct and step kind; frame lemmas say what each kind of step
leaves alone. Each inductive invariant is also an invariant of a run (section 3).

### The server (`IpcServerProofs`, `IpcServerRefinement`)

- `Invariance`: `IndInv` is invariant, for every finite or infinite set of clients, every number
  of slots, every set of usage types and every choice of failing system calls. The properties
  alone are not inductive. That the pipe is never read empty needs `EventInv` (what `epoll_wait`
  reported is still true when it is acted on, since only the service thread reads, and a client
  that left stays gone); that needs `ThreadInv` (there is at most one service thread, and none
  while `ipcServerInit` or the end of `ipcServerDeinit` runs), which says for each step of the
  caller what `g_threadRunning` means there; `LockInv` ties the mutex to the steps of both
  threads; `SocketInv` keeps listening sockets apart, so that a new one is not one of the past.
  `IndInv` is `ProcessInv`, which speaks of the process alone, and `ServingIsReachable`, which
  another program that unlinks the socket file breaks: in `IpcSystem` only `ProcessInv` is left.
- `TypeCorrectness`, `Reachability`, `SlotsAreConnections`, `AcceptedClientsAreHeld`,
  `LockDiscipline`, `CleanDeinit` follow from it, and the action property `SlotsAreKept`.
- `Delivery`: `MissedOnlyIfReported`, whatever writes fail or block and whatever is done about
  SIGPIPE. `DeliveryInv` adds to it that a connection not yet accepted has been given nothing
  (`Unaccepted`). The property has two parts, which are proved together: `InOrder` says of every
  connection that from each broadcast it has been given to the next all others have failed, and
  `UpToDate` the same of what lies between the last one and the broadcast its slot should be at
  (`Given`, which depends on where the loop of `ipcSendMessage` is). A write makes the second
  into an instance of the first (`WriteAppends`); an error puts the broadcast under way into
  `cut` for the slots the loop has not reached.
- `ServerImplementsBroadcast`. In the refinement mapping a subscriber is a client with a slot,
  and it is at the last broadcast written to its connection, or, if there is none, at the last
  one begun before its acceptance (`Position`); `cut` is what has failed. The lock of
  `ipcSendMessage` publishes, a write delivers, skipping what has failed, an error fails the
  last broadcast, `accept` joins, `ipcCloseClient` is the leaving of one client and every path
  that gives up the table the leaving of all; every other step leaves the mapped variables
  alone. There is one lemma for each of these.

### The client (`IpcClientProofs`)

- `Invariance`: `IndInv` is invariant, for every number of usage types, entries, fields and
  values, whatever system calls fail and whatever sizes servers send. `EntriesSound` and
  `NothingLeaks` are not inductive without `CallInv` (between the two critical sections of a
  start the usage type still has no entry and there still is room for it; `ipcClientDeinit`
  begins when the last entry is gone), `UnusedAreEmpty` (an entry that is given up keeps
  nothing of its past) and `ThreadInv`. That `socket()` never hands out the descriptor of an
  entry is `FreeDescriptor`: with one descriptor more than entries one is free, because
  otherwise the entries would map onto all descriptors, which are more. What a step does to
  entries, connections and allocations is one of a few effects (`Effect`: an entry is added, is
  released, gets a message, gets a callback, all are cleared, or nothing), so that each
  conjunct is proved per effect and not per action.
- `TypeCorrectness`, `EntriesAreConnections`, `Accounting`, `CallbackFollowsPool`,
  `LockDiscipline`, `CleanDeinit` follow from it. `CallbackTellsPool` is part of the invariant.
- `DataInvariance`, `PoolsHoldMessages`: a pool is the last structure taken from its own
  connection. The invariant behind it, `StreamInv`, says of each connection that the stream is
  what is left of the messages sent, one behind the other, cut at structure boundaries
  (`Backlog`); its two lemmas are that a message goes behind the others (`BacklogSend`) and that
  `recv()` of a structure's size takes exactly the first (`BacklogTake`). The hypothesis
  `Sizes \subseteq {PoolSize}` says that servers send whole structures. It is needed: the run
  `client_short_message` shows what happens otherwise, and `ClientStaysSound` below discharges
  it for the server program of the repository.

### The programs as their operators see them (`IpcConsoleProofs`)

`Invariance`, `TypeCorrectness`, `LinesAreCommands`, `ChangesAreSeen` and `NamesFit`, for every
choice of fields, lines of every length, numbers of every size and any number of them.
`OneCommandPerLine` needs `InputInv`, which counts a command that is being carried out and says
that a line of which the rest is being dropped is still at hand; `NameFits` needs that the name
is the one `ipcCreateDomainName` let pass (`StartInv`). `TypeOK` contains that whatever is typed
fits, after the conversions, in the bytes of its field, and in those of an int where the field
has eight (`StoredAsFits`, from `WrapRange` and `WrapIdentity`), for which a power of ten has to
be a number: `TenTo` is a recursive function, and since induction theorems cannot be applied by
these provers, `TenToUnfolds` goes over least counterexamples, with the theorem that sets of
numbers have a least element. `ChangesAreSeen` rests on the change table having each kind once
(`RowOfKind`, `AfterTellsAll`), and is about the time after the registration.

### Both processes (`IpcSystemProofs`, `IpcSystemRefinement`)

The constants of `IpcSystem` satisfy what the client library assumes (`ClientAssumptions`), so
the lemmas of `IpcClientProofs` hold of the instance. The rest is about what one process is to
the other:

- Whatever the client program, the other clients and the second server program do is, for the
  server process, a step `IpcServer` has too, except the unlinking of the file (`ServerSteps`);
  whatever the server does is, for the client, a step of its servers (`ClientSteps`), or its
  process ends and is as new. So both keep their own invariants.
- For `EndsAgree` that is not enough. `ServerLife` says where `main()` of the server is in its
  calls, and from it that a server in the table is the first of its process, so that every
  accepted connection is to the socket that listens now and has a slot. `GivenInv` says that a
  connection is given broadcasts that have begun, and nothing before it is accepted. `WireInv`
  says that a descriptor that is open stands for a connection of its own. With one usage type
  there is one connection (`ClientHasOneConnection`, from `EntriesSound` and `NothingLeaks`).
  `ServerEvents` and `ClientEvents` reduce each process's steps to what the other end sees:
  nothing, a message, a hang-up; a `connect()`, a `recv()`, a `close()`.
- `SystemInvariance`, `BothEndsAgree`, `ClientStaysSound`, `ServerStaysSound` follow.
- `StreamsCarryBroadcasts`: the k-th message in a stream is the k-th broadcast the connection
  has been given (`SentInv`), and those it has not been given failed (`MissedOnlyIfReported`,
  whose proof for the server holds with a client program too, `DeliveryKept`).
- `SystemImplementsBroadcast`: `SystemSpec` implements `IpcBroadcast`. The refinement mapping
  reads the position of the client program off its data pool (`LastStored`); by
  `PoolIsLastMessage` and `SentInv` that is the last of the broadcasts given that has been taken
  from the stream, or `joined` if none has (`StoredPosition`). Then the lock of `ipcSendMessage`
  publishes, an error of it fails, `accept` joins, `recv()` with the copy to the pool delivers,
  skipping what `MissedOnlyIfReported` says has failed, the end of a connection leaves, and a
  `write()` is invisible: the message is in the stream and not in the pool yet.

None of these has a hypothesis about SIGPIPE or about which writes fail: `SigpipeIgnored` and
`SysFail` are constants like the others, except that in `IpcSystem` the client's own system
calls succeed.

### Only model-checked

Liveness, because fairness and ENABLED are outside what the proof system supports, and the
violations.

## 5. Not modelled

Several application threads calling the API at once; callbacks that call the API; a second
server program that gets to listen while the first one runs; servers and clients of several
usage types in one system; parameter checks that return before they touch any state; the end of
the input of the unit test programs, at which they loop without reading; spaces and bases in the
numbers typed; a write of a broadcast that is interrupted in the middle of a structure. Two
deviations from `README.md` were met and are not checked by a run: line 133 says the actual read
size is output to `pSize`, which `ipcReadDataPool` never writes, and the communication file is
called `IpcIcService` there and `ipcIcService` in `ipc_usage_info_table.c`.

## 6. Plan

In this order:

1. Short messages: what a pool holds of a message of less than a structure's size, as an
   invariant of `localDataPool`, in place of the hypothesis `Sizes \subseteq {PoolSize}`.
2. Action properties of the client: an entry is given up only by a stop, a hang-up, a rejection
   or a failed start of its own or of an event that was fetched before. Cancellation of the
   client's service thread with the mutex held, as `server_restart` shows it of the server's.
3. Callers: two application threads in one process, callbacks that call the API.
