----------------------------- MODULE IpcConsole -----------------------------
(***************************************************************************)
(* The two programs of ipc_unit_test as their operators see them: the      *)
(* socket name a program makes from its environment, the lines typed and   *)
(* cut into buffers by fgets, the menus, the data structure that is        *)
(* written field by field and sent, and, at the client, the pool that is   *)
(* read and the lines the callback prints.  Between the programs there is  *)
(* a stream that keeps order, as IpcSystem shows; threads are left to it.  *)
(*                                                                         *)
(* A field is named by its index in IcServiceList, and holds the number    *)
(* that listPrint shows.  Definitions named Bug_... are seeded faults, as  *)
(* in IpcServer.                                                           *)
(***************************************************************************)
EXTENDS Integers, Sequences

CONSTANTS
  Fields,      \* the fields looked at: indices of IcServiceList
  Half,        \* half the values of a signed integer of 1, 2, 4 and 8 bytes: 2^7 to 2^63
  EnvLengths,  \* lengths IPC_DOMAIN_PATH can have
  None,        \* no IPC_DOMAIN_PATH, no pool
  ServerLines, ClientLines, \* what is typed at each program
  MaxLines,    \* bound: lines typed at each program
  MaxFlight    \* bound: messages in the client's socket

Programs == {"server", "client"}
Keys == {"h", "q", "w", "s", "r", "number"}
Lines == [key : Keys, left : Nat \ {0}, id : Int, value : Int, whole : {TRUE}]

ASSUME ConsoleConstants ==
  /\ 0 \in Fields /\ Fields \subseteq 0 .. 76
  /\ EnvLengths \subseteq Nat /\ None \notin Int
  /\ ServerLines \subseteq Lines /\ ClientLines \subseteq Lines
  /\ MaxLines \in [Programs -> Nat] /\ MaxFlight \in Nat

ASSUME IntegerSizes ==
  /\ Half \in [{1, 2, 4, 8} -> Nat \ {0}]
  /\ Half[1] <= Half[2] /\ Half[2] <= Half[4] /\ Half[4] <= Half[8]

ASSUME NoneIsNoData == None \notin [Fields -> Int] /\ None \notin Lines

VARIABLES
  env, nameSize,   \* length of IPC_DOMAIN_PATH, bytes the name made of it takes
  menu, step,      \* of each program: where main() is, and what it does with a line
  stdin, command,  \* lines typed and not read, the one that has been read
  typed, acted,    \* how many lines have been typed, how many commands carried out
  data,            \* g_dataIcService of the server program
  flight,          \* structures sent to the client and not received
  pool, screen,    \* the client's data pool, its g_dataIcService
  told,            \* the last value the callback has printed for each kind
  registered       \* the pool there was when the callback was registered

names   == <<env, nameSize>>
console == <<menu, step, stdin, command, typed, acted>>
client  == <<flight, pool, screen, told, registered>>
vars    == <<names, console, data, client>>

-----------------------------------------------------------------------------
(* IPC_DATA_IC_SERVICE_S and its tables *)

\* IcServiceList: the members of the structure, in their order.
ListNum == 77
Width == [f \in Fields |-> CASE f \in 54 .. 59 \ {55}                  -> 8
                              [] f \in 65 .. 68                        -> 1
                              [] f \in (61 .. 64) \cup {69} \cup (71 .. 75) -> 2
                              [] OTHER                                 -> 4]

\* g_ipcCheckChangeIcService: the kinds are numbered as its rows are, the fields are not.
CheckedFields ==
  <<0, 1, 2, 3, 16, 17>> \o [i \in 1 .. 22 |-> 23 + i] \o <<47, 48, 46, 49, 50, 51>>
ChangeTable == {[kind |-> i - 1, field |-> CheckedFields[i]] :
                 i \in {j \in 1 .. Len(CheckedFields) : CheckedFields[j] \in Fields}}

Zeros == [f \in Fields |-> 0]
Kinds == {row.kind : row \in ChangeTable}
Untold == [k \in Kinds |-> None]

Init ==
  /\ env \in EnvLengths \cup {None} /\ nameSize = 0
  /\ menu = [p \in Programs |-> "start"] /\ step = [p \in Programs |-> "prompt"]
  /\ stdin = [p \in Programs |-> << >>] /\ command = [p \in Programs |-> None]
  /\ typed = [p \in Programs |-> 0] /\ acted = [p \in Programs |-> 0]
  /\ data = Zeros
  /\ flight = << >> /\ pool = None /\ screen = Zeros
  /\ told = Untold /\ registered = Zeros

-----------------------------------------------------------------------------
(* ipcCreateDomainName, called by both starts *)

DomainPathMax == 108 \* IPC_DOMAIN_PATH_MAX
DomainName == 12     \* strlen("ipcIcService")

\* Seeded fault (NameFits): the terminating zero is not counted.
Bug_HasRoom(len) == DomainPathMax >= len

HasRoom(len) == DomainPathMax > len
NameCreated == HasRoom(IF env = None THEN DomainName ELSE env + DomainName)

\* A path, a slash, the name and the terminating zero.
NameSize == IF env = None THEN DomainName + 1 ELSE env + 1 + DomainName + 1

\* A program gets to its menu, or to its end; the server's start makes the name first.
ServerStart ==
  /\ menu["server"] = "start"
  /\ \/ NameCreated /\ nameSize' = NameSize /\ menu' = [menu EXCEPT !["server"] = "main"]
     \/ ~NameCreated /\ UNCHANGED nameSize /\ menu' = [menu EXCEPT !["server"] = "end"]
  /\ UNCHANGED <<env, step, stdin, command, typed, acted, data, client>>

ClientStart ==
  /\ menu["client"] = "start"
  /\ \/ /\ NameCreated /\ menu["server"] \in {"main", "write"}
        /\ pool' = Zeros /\ menu' = [menu EXCEPT !["client"] = "register"]
     \/ /\ ~NameCreated \/ menu["server"] \in {"start", "end"}
        /\ menu' = [menu EXCEPT !["client"] = "end"] /\ UNCHANGED pool
  /\ UNCHANGED <<names, step, stdin, command, typed, acted, data, flight, screen, told,
                 registered>>

\* ipcRegisterCallback prints nothing: what has come since ipcClientStart stays untold.
ClientRegisters ==
  /\ menu["client"] = "register"
  /\ \/ pool # None /\ registered' = pool /\ menu' = [menu EXCEPT !["client"] = "main"]
     \/ pool = None /\ UNCHANGED registered /\ menu' = [menu EXCEPT !["client"] = "end"]
  /\ UNCHANGED <<names, step, stdin, command, typed, acted, data, flight, pool, screen, told>>

-----------------------------------------------------------------------------
(* Lines and buffers *)

\* The next line is typed when the last one has been read; fgets waits for it.
Type(p, line) ==
  /\ typed[p] < MaxLines[p] /\ menu[p] \in {"main", "write"} /\ stdin[p] = << >>
  /\ stdin' = [stdin EXCEPT ![p] = Append(@, line)]
  /\ typed' = [typed EXCEPT ![p] = @ + 1]
  /\ UNCHANGED <<names, menu, step, command, acted, data, client>>

\* command[] and dummy[] of the menu.
BufferSize(p) == IF menu[p] = "write" THEN 40 ELSE 10

\* fgets: as much of the line as the buffer holds, the newline included.
Chunk(p) == LET left == Head(stdin[p]).left
            IN IF left < BufferSize(p) THEN left ELSE BufferSize(p) - 1
AfterChunk(p) == LET line == Head(stdin[p])
                 IN IF Chunk(p) = line.left THEN Tail(stdin[p])
                    ELSE <<[line EXCEPT !.left = @ - Chunk(p), !.whole = FALSE]>> \o Tail(stdin[p])

\* Seeded fault (OneCommandPerLine): a full buffer is taken for a line that goes on.
Bug_GoesOn(p) == Chunk(p) = BufferSize(p) - 1

\* The condition of the loop that drops the rest of a line.
GoesOn(p) == Chunk(p) = BufferSize(p) - 1 /\ Chunk(p) # Head(stdin[p]).left

Gets(p) ==
  /\ stdin[p] # << >>
  /\ stdin' = [stdin EXCEPT ![p] = AfterChunk(p)]
  /\ step' = [step EXCEPT ![p] = IF GoesOn(p) THEN "rest" ELSE "act"]

GetCommand(p) ==
  /\ menu[p] \in {"main", "write"} /\ step[p] = "prompt"
  /\ Gets(p)
  /\ command' = [command EXCEPT ![p] = Head(stdin[p])]
  /\ UNCHANGED <<names, menu, typed, acted, data, client>>

DropRest(p) ==
  /\ step[p] = "rest"
  /\ Gets(p)
  /\ UNCHANGED <<names, menu, command, typed, acted, data, client>>

-----------------------------------------------------------------------------
(* The menus *)

\* The command that has been read is carried out, and the prompt printed again.
Act(p, m) ==
  /\ menu[p] = m /\ step[p] = "act"
  /\ step' = [step EXCEPT ![p] = "prompt"] /\ command' = [command EXCEPT ![p] = None]
  /\ acted' = [acted EXCEPT ![p] = @ + 1]
  /\ UNCHANGED <<names, stdin, typed>>

SetMenu(p, m) == menu' = [menu EXCEPT ![p] = m]
Key(p) == command[p].key

\* A message is put in the socket of a client that is connected.
Send == flight' = IF pool # None THEN Append(flight, data) ELSE flight

ServerMenu ==
  /\ Act("server", "main") /\ UNCHANGED <<data, pool, screen, told, registered>>
  /\ \/ Key("server") = "q" /\ SetMenu("server", "end") /\ UNCHANGED flight
     \/ Key("server") = "w" /\ SetMenu("server", "write") /\ UNCHANGED flight
     \/ Key("server") = "s" /\ Len(flight) < MaxFlight /\ Send /\ UNCHANGED menu
     \/ Key("server") \notin {"q", "w", "s"} /\ UNCHANGED <<menu, flight>>

\* What is left of a number in a signed integer with 2 * half values.
Wrap(half, n) == ((n + half) % (2 * half)) - half

\* The value of strtol(), which is the nearest long.
Strtol(n) == CASE n < -Half[8] -> -Half[8]
               [] n >= Half[8] -> Half[8] - 1
               [] OTHER -> n

\* (int)strtol(), of the index and of the value alike.
IntOf(n) == Wrap(Half[4], Strtol(n))

\* Seeded fault (TypeOK): as if every field had the size of the number.
Bug_StoredAs(width, value) == value

\* memcpy of the low bytes of a long, and what listPrint makes of them.
StoredAs(width, value) == Wrap(Half[width], value)

\* writeDataToStruct, of a number that is no index or that of a field not looked at, and of
\* one that is. The check lets the index behind the table through: what is there says which
\* bytes are overwritten, and it may say none.
WriteDataToStruct(id, value) ==
  \/ id \notin Fields \cup {ListNum} /\ UNCHANGED data
  \/ id \in Fields /\ data' = [data EXCEPT ![id] = StoredAs(Width[id], value)]
  \/ id = ListNum /\ \/ UNCHANGED data
                     \/ \E f \in Fields : data' = [data EXCEPT ![f] = StoredAs(Width[f], value)]

\* A number at the end of a line that was cut has lost its last digits; a word is the number 0,
\* for strtol, and a line without a space writes 0.
TenTo[n \in Nat] == IF n = 0 THEN 1 ELSE 10 * TenTo[n - 1]
Without(digits, n) == IF n < 0 THEN -((-n) \div TenTo[digits]) ELSE n \div TenTo[digits]
NumberIn(line) == IF line.left > 39 THEN Without(line.left - 39, line.value) ELSE line.value
Written(line) ==
  IF line.key = "number" THEN WriteDataToStruct(IntOf(line.id), IntOf(NumberIn(line)))
                         ELSE WriteDataToStruct(0, 0)

WriteMenu ==
  /\ Act("server", "write") /\ UNCHANGED client
  /\ \/ Key("server") = "q" /\ SetMenu("server", "main") /\ UNCHANGED data
     \/ Key("server") = "h" /\ UNCHANGED <<menu, data>>
     \/ Key("server") \notin {"q", "h"} /\ Written(command["server"]) /\ UNCHANGED menu

\* 'r' lists the pool, or, when it cannot be read, what was read before.
ClientMenu ==
  /\ Act("client", "main") /\ UNCHANGED <<data, told, registered>>
  /\ \/ Key("client") = "q" /\ SetMenu("client", "end") /\ pool' = None /\ flight' = << >>
        /\ UNCHANGED screen
     \/ Key("client") = "r" /\ screen' = (IF pool # None THEN pool ELSE screen)
        /\ UNCHANGED <<menu, flight, pool>>
     \/ Key("client") \notin {"q", "r"} /\ UNCHANGED <<menu, flight, pool, screen>>

-----------------------------------------------------------------------------
(* The client's service thread *)

\* Seeded fault (OperatorSeesChanges): the kinds are taken to be in the structure's order.
Bug_Printed(old, new) ==
  {[kind |-> row.field, value |-> new[row.field]] :
     row \in {r \in ChangeTable : old[r.field] # new[r.field]}}

\* ipcCheckChangeAndCallback and changeNotifyCb: a line for every row of the change table
\* whose field differs. No two lines are of the same kind, so that their order tells nothing.
Printed(old, new) ==
  {[kind |-> row.kind, value |-> new[row.field]] :
     row \in {r \in ChangeTable : old[r.field] # new[r.field]}}

\* What has been told last of each kind, when these lines have been printed.
After(lines) ==
  [k \in Kinds |-> LET ofKind == {line \in lines : line.kind = k}
                   IN IF ofKind = {} THEN told[k] ELSE (CHOOSE line \in ofKind : TRUE).value]

Receive ==
  /\ flight # << >>
  /\ pool' = Head(flight) /\ flight' = Tail(flight)
  /\ told' = IF menu["client"] = "main" THEN After(Printed(pool, Head(flight))) ELSE told
  /\ UNCHANGED <<names, console, data, screen, registered>>

\* The server program has ended: the client closes the connection, and what it has not
\* received is gone.
ServerGone ==
  /\ pool # None /\ menu["server"] = "end"
  /\ pool' = None /\ flight' = << >>
  /\ UNCHANGED <<names, console, data, screen, told, registered>>

-----------------------------------------------------------------------------
Next ==
  \/ ServerStart \/ ClientStart \/ ClientRegisters
  \/ \E line \in ServerLines : Type("server", line)
  \/ \E line \in ClientLines : Type("client", line)
  \/ \E p \in Programs : GetCommand(p) \/ DropRest(p)
  \/ ServerMenu \/ WriteMenu \/ ClientMenu
  \/ Receive \/ ServerGone

Spec == Init /\ [][Next]_vars

-----------------------------------------------------------------------------
(* Properties *)

\* A line, or what fgets has left of it.
Unread == [key : Keys, left : Nat \ {0}, id : Int, value : Int, whole : BOOLEAN]

\* What a field can hold: what is written to it has been an int, also where it is longer.
Limit(width) == IF width = 8 THEN Half[4] ELSE Half[width]
Fits(width, value) == -Limit(width) <= value /\ value < Limit(width)

Structures == {s \in [Fields -> Int] : \A f \in Fields : Fits(Width[f], s[f])}

\* Every variable stays in its range; in particular, whatever number is typed for a field,
\* the structure, every message and every pool hold what fits in the bytes of the field, and
\* in those of an int, and listPrint and changeNotifyCb print that (writeData,
\* writeDataToStruct).
TypeOK ==
  /\ env \in Nat \cup {None} /\ nameSize \in Nat
  /\ stdin \in [Programs -> Seq(Unread)] /\ command \in [Programs -> Lines \cup {None}]
  /\ menu \in [Programs -> {"start", "register", "main", "write", "end"}]
  /\ step \in [Programs -> {"prompt", "rest", "act"}]
  /\ typed \in [Programs -> Nat] /\ acted \in [Programs -> Nat]
  /\ data \in Structures /\ screen \in Structures
  /\ flight \in Seq(Structures) /\ pool \in Structures \cup {None}
  /\ told \in [Kinds -> Int \cup {None}] /\ registered \in Structures

\* However long the lines are, each line typed is one command, and the next command is
\* read from the beginning of the next line: the loops that drop the rest of a line
\* (ipc_unit_test_server.c:60, 162, ipc_unit_test_client.c:65) drop all of it and no more,
\* also when a line and its newline just fill the buffer.
OneCommandPerLine ==
  \A p \in Programs : step[p] = "prompt" =>
    /\ acted[p] + Len(stdin[p]) = typed[p]
    /\ \A i \in 1 .. Len(stdin[p]) : stdin[p][i].whole

\* An operator who keeps the last value printed for each kind knows the pool: the last line
\* of a kind has the value that 'r' would list, and a kind without a line has not changed
\* since the callback was registered (ipcCheckChangeAndCallback, changeNotifyCb). Which
\* member a kind stands for is what the change table says. What came before the callback
\* was registered has not been printed.
OperatorSeesChanges ==
  menu["client"] = "main" /\ pool # None =>
    \A row \in ChangeTable :
      pool[row.field] = IF told[row.kind] = None THEN registered[row.field] ELSE told[row.kind]

\* A name that ipcCreateDomainName lets pass fits in domainName[] and in sun_path, except
\* at one length of the directory, at which the slash it does not count makes the name one
\* byte too long.
NameFits ==
  \/ nameSize <= DomainPathMax
  \/ nameSize = DomainPathMax + 1 /\ env + DomainName = DomainPathMax - 1

\* While a command is carried out its line is behind it; while the rest of a line is dropped
\* it is the line at hand, and the program has not acted on it yet.
InputInv ==
  \A p \in Programs :
    /\ Len(stdin[p]) <= 1
    /\ step[p] # "prompt" => command[p] # None
    /\ step[p] = "rest" => stdin[p] # << >>
    /\ step[p] # "rest" => \A i \in 1 .. Len(stdin[p]) : stdin[p][i].whole
    /\ acted[p] + Len(stdin[p]) + (IF step[p] = "act" THEN 1 ELSE 0) = typed[p]

\* There are messages only for a client that is connected, and lines of a callback only once
\* it is registered, and the name is the one that ipcCreateDomainName made of the directory.
StartInv == /\ flight # << >> => pool # None
            /\ menu["client"] \in {"start", "register"} => told = Untold
            /\ nameSize # 0 => NameCreated /\ nameSize = NameSize

\* The inductive invariant.
IndInv == TypeOK /\ InputInv /\ StartInv /\ OperatorSeesChanges
=============================================================================
