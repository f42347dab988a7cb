-------------------------- MODULE IpcConsoleProofs --------------------------
(***************************************************************************)
(* What holds of IpcConsole for every set of fields, every line that can   *)
(* be typed, every directory name and any number of lines and messages:    *)
(* the safety properties that MCConsole checks on a small instance.        *)
(***************************************************************************)
EXTENDS IpcConsole, SequenceTheorems, WellFoundedInduction, TLAPS

USE DEF vars, names, console, client

-----------------------------------------------------------------------------
(* Powers of ten *)

\* A set of numbers that has a member has a least one: what is said of all numbers by
\* induction is said here of the least one of which it is not so.
LEMMA LeastOf ==
  ASSUME NEW S \in SUBSET Nat, S # {}
  PROVE  \E m \in S : \A j \in S : m <= j
<1> DEFINE less == OpToRel(<, Nat)
<1>1. PICK m \in S : \A j \in S : <<j, m>> \notin less
  <2>1. IsWellFoundedOn(less, Nat)
    BY NatLessThanWellFounded
  <2> HIDE DEF less
  <2>2. QED
    BY <2>1, WFMin
<1>2. \A j \in S : ~(j < m)
  BY <1>1 DEF OpToRel
<1>3. QED
  BY <1>2

\* The powers of ten up to that of n.
Powers(n) == {f \in [0 .. n -> Nat \ {0}] : f[0] = 1 /\ \A k \in 1 .. n : f[k] = 10 * f[k - 1]}

\* There are powers of ten up to any number, ...
LEMMA PowersExist == \A n \in Nat : Powers(n) # {}
<1> DEFINE S == {n \in Nat : Powers(n) = {}}
<1> SUFFICES ASSUME S # {} PROVE FALSE
  OBVIOUS
<1>1. PICK m \in S : \A j \in S : m <= j
  BY LeastOf
<1>2. m \in Nat /\ m # 0
  <2>1. [k \in 0 .. 0 |-> 1] \in Powers(0)
    BY DEF Powers
  <2>2. QED
    BY <2>1
<1>3. PICK f : f \in Powers(m - 1)
  <2>1. m - 1 \in Nat /\ m - 1 \notin S
    BY <1>1, <1>2
  <2>2. QED
    BY <2>1
<1>4. f \in [0 .. m - 1 -> Nat \ {0}] /\ f[0] = 1 /\ \A k \in 1 .. m - 1 : f[k] = 10 * f[k - 1]
  BY <1>3 DEF Powers
<1> DEFINE g == [k \in 0 .. m |-> IF k = m THEN 10 * f[m - 1] ELSE f[k]]
<1>5. g \in Powers(m)
  <2>1. m - 1 \in 0 .. m - 1 /\ 0 \in 0 .. m - 1 /\ f[m - 1] \in Nat \ {0}
    BY <1>2, <1>4
  <2>2. \A k \in 0 .. m : g[k] \in Nat \ {0}
    BY <1>2, <1>4, <2>1
  <2>3. g[0] = 1
    BY <1>2, <1>4
  <2>4. ASSUME NEW k \in 1 .. m PROVE g[k] = 10 * g[k - 1]
    <3>1. k \in 0 .. m /\ k - 1 \in 0 .. m /\ k - 1 # m /\ g[k - 1] = f[k - 1]
      BY <1>2
    <3>2. CASE k = m
      BY <3>1, <3>2
    <3>3. CASE k # m
      BY <1>2, <1>4, <3>1, <3>3
    <3>4. QED
      BY <3>2, <3>3
  <2>5. QED
    BY <2>2, <2>3, <2>4 DEF Powers
<1>6. QED
  BY <1>1, <1>5

\* ... and only one of each.
LEMMA PowersAgree ==
  ASSUME NEW m \in Nat, NEW n \in Nat, NEW f \in Powers(m), NEW g \in Powers(n)
  PROVE  \A k \in Nat : k <= m /\ k <= n => f[k] = g[k]
<1> DEFINE S == {k \in Nat : k <= m /\ k <= n /\ f[k] # g[k]}
<1> SUFFICES ASSUME S # {} PROVE FALSE
  OBVIOUS
<1>1. PICK k \in S : \A j \in S : k <= j
  BY LeastOf
<1>2. k # 0
  BY DEF Powers
<1>3. k - 1 \in Nat /\ f[k - 1] = g[k - 1]
  BY <1>1, <1>2
<1>4. k \in 1 .. m /\ k \in 1 .. n
  BY <1>2
<1>5. f[k] = 10 * f[k - 1] /\ g[k] = 10 * g[k - 1]
  BY <1>4 DEF Powers
<1>6. QED
  BY <1>3, <1>5

\* TenTo is what its definition says.
LEMMA TenToUnfolds ==
  TenTo = [n \in Nat |-> IF n = 0 THEN 1 ELSE 10 * TenTo[n - 1]]
<1> DEFINE P(n) == CHOOSE f \in Powers(n) : TRUE
           g == [n \in Nat |-> P(n)[n]]
<1>1. \A n \in Nat : P(n) \in Powers(n)
  BY PowersExist
<1> HIDE DEF P
<1>2. \A n \in Nat : n # 0 => g[n] = 10 * g[n - 1]
  <2> SUFFICES ASSUME NEW n \in Nat, n # 0 PROVE g[n] = 10 * g[n - 1]
    OBVIOUS
  <2>1. n - 1 \in Nat /\ n \in 1 .. n
    OBVIOUS
  <2>2. P(n)[n] = 10 * P(n)[n - 1]
    BY <1>1, <2>1 DEF Powers
  <2>3. P(n)[n - 1] = P(n - 1)[n - 1]
    BY <1>1, <2>1, PowersAgree
  <2>4. QED
    BY <2>1, <2>2, <2>3
<1>3. g[0] = 1
  BY <1>1 DEF Powers
<1>4. g = [n \in Nat |-> IF n = 0 THEN 1 ELSE 10 * g[n - 1]]
  BY <1>2, <1>3
<1> HIDE DEF g
<1>5. QED
  BY <1>4 DEF TenTo

\* ... and so a positive number: what is left of a number that was cut is a number.
LEMMA TenToType == \A n \in Nat : TenTo[n] \in Nat /\ TenTo[n] >= 1
<1> DEFINE S == {n \in Nat : ~(TenTo[n] \in Nat /\ TenTo[n] >= 1)}
<1> SUFFICES ASSUME S # {} PROVE FALSE
  OBVIOUS
<1>1. PICK m \in S : \A j \in S : m <= j
  BY LeastOf
<1>2. m # 0
  BY TenToUnfolds
<1>3. m - 1 \in Nat /\ TenTo[m - 1] \in Nat /\ TenTo[m - 1] >= 1
  BY <1>1, <1>2
<1>4. TenTo[m] = 10 * TenTo[m - 1]
  BY <1>2, TenToUnfolds
<1>5. QED
  BY <1>3, <1>4

-----------------------------------------------------------------------------
(* The data structure and its change table *)

\* A new structure fits, and no structure is the NULL pointer.
LEMMA StructureType ==
  /\ Zeros \in Structures /\ None \notin Structures
  /\ \A s \in Structures, f \in Fields : s[f] \in Int
<1>1. \A f \in Fields : Fits(Width[f], 0)
  BY IntegerSizes DEF Fits, Limit, Width
<1>2. QED
  BY <1>1, NoneIsNoData DEF Structures, Zeros

\* The integers nest in one another.
LEMMA Sizes ==
  /\ \A width \in {1, 2, 4, 8} : Half[width] \in Nat /\ Half[width] >= 1
  /\ Half[1] <= Half[2] /\ Half[2] <= Half[4] /\ Half[4] <= Half[8]
  BY IntegerSizes

\* What is left of a number lies in the range of the integer it is left in, ...
LEMMA WrapRange ==
  ASSUME NEW half \in Nat, half >= 1, NEW n \in Int
  PROVE  Wrap(half, n) \in Int /\ -half <= Wrap(half, n) /\ Wrap(half, n) < half
<1> DEFINE m == 2 * half
<1>1. m \in Nat \ {0} /\ n + half \in Int
  OBVIOUS
<1> HIDE DEF m
<1>2. (n + half) % m \in 0 .. m - 1
  BY <1>1
<1>3. QED
  BY <1>2 DEF Wrap, m

\* ... and is the number itself if that is in the range.
LEMMA WrapIdentity ==
  ASSUME NEW half \in Nat, half >= 1, NEW n \in Int, -half <= n, n < half
  PROVE  Wrap(half, n) = n
<1> DEFINE m == 2 * half
           k == n + half
<1>1. m \in Nat \ {0} /\ k \in 0 .. m - 1
  OBVIOUS
<1> HIDE DEF m, k
<1>2. k % m = k
  BY <1>1
<1>3. QED
  BY <1>2 DEF Wrap, m, k

\* Whatever is typed, as an index or as a value, becomes an int.
LEMMA IntOfRange ==
  ASSUME NEW n \in Int
  PROVE  IntOf(n) \in Int /\ -Half[4] <= IntOf(n) /\ IntOf(n) < Half[4]
<1>1. Strtol(n) \in Int
  BY Sizes DEF Strtol
<1>2. QED
  BY <1>1, Sizes, WrapRange DEF IntOf

\* The widths there are.
LEMMA WidthType == \A f \in Fields : Width[f] \in {1, 2, 4, 8}
  BY DEF Width

\* Whatever int is copied into a field, what is read from it afterwards fits.
LEMMA StoredAsFits ==
  ASSUME NEW width \in {1, 2, 4, 8}, NEW value \in Int, -Half[4] <= value, value < Half[4]
  PROVE  StoredAs(width, value) \in Int /\ Fits(width, StoredAs(width, value))
<1>1. CASE width = 8
  <2>1. StoredAs(width, value) = value
    BY <1>1, Sizes, WrapIdentity DEF StoredAs
  <2>2. QED
    BY <1>1, <2>1 DEF Fits, Limit
<1>2. CASE width # 8
  BY <1>2, Sizes, WrapRange DEF StoredAs, Fits, Limit
<1>3. QED
  BY <1>1, <1>2

\* A row is known by its kind, whatever order the table and the structure have.
LEMMA RowOfKind ==
  ASSUME NEW r \in ChangeTable, NEW q \in ChangeTable, r.kind = q.kind
  PROVE  r = q
  BY DEF ChangeTable

\* Every row has a field that is looked at, and a kind.
LEMMA RowType ==
  \A r \in ChangeTable : r.field \in Fields /\ r.kind \in Kinds
  BY DEF ChangeTable, Kinds

\* What an operator knows of a kind: its last line, or what there was at the beginning.
Known(lines, base, row) == IF lines[row.kind] = None THEN base[row.field] ELSE lines[row.kind]

\* An operator who knows the old structure knows the new one: what has changed is printed,
\* under its kind, and what is not printed has not changed.
LEMMA AfterTellsAll ==
  ASSUME told \in [Kinds -> Int \cup {None}], NEW base, NEW old, NEW new \in Structures
  PROVE  /\ After(Printed(old, new)) \in [Kinds -> Int \cup {None}]
         /\ \A row \in ChangeTable : Known(told, base, row) = old[row.field] =>
              Known(After(Printed(old, new)), base, row) = new[row.field]
<1> DEFINE lines == Printed(old, new)
           ofKind(k) == {line \in lines : line.kind = k}
           last(k) == CHOOSE line \in ofKind(k) : TRUE
<1>1. \A line \in lines : \E row \in ChangeTable :
        /\ old[row.field] # new[row.field]
        /\ line.kind = row.kind /\ line.value = new[row.field]
  <2> SUFFICES ASSUME NEW line \in lines
               PROVE  \E row \in ChangeTable :
                        /\ old[row.field] # new[row.field]
                        /\ line.kind = row.kind /\ line.value = new[row.field]
    OBVIOUS
  <2>1. PICK row \in {r \in ChangeTable : old[r.field] # new[r.field]} :
          line = [kind |-> row.kind, value |-> new[row.field]]
    BY DEF Printed
  <2>2. QED
    BY <2>1
<1>2. \A row \in ChangeTable : old[row.field] # new[row.field] =>
        \E line \in lines : line.kind = row.kind
  <2> SUFFICES ASSUME NEW row \in ChangeTable, old[row.field] # new[row.field]
               PROVE  \E line \in lines : line.kind = row.kind
    OBVIOUS
  <2>1. [kind |-> row.kind, value |-> new[row.field]] \in lines
    BY DEF Printed
  <2>2. QED
    BY <2>1
<1> HIDE DEF lines
<1>3. \A k \in Kinds : ofKind(k) # {} => last(k) \in lines /\ last(k).kind = k
  OBVIOUS
<1>4. After(lines) = [k \in Kinds |-> IF ofKind(k) = {} THEN told[k] ELSE last(k).value]
  BY DEF After
<1> HIDE DEF last
<1>5. \A k \in Kinds : ofKind(k) # {} => last(k).value \in Int
  BY <1>1, <1>3, RowType, StructureType
<1>6. ASSUME NEW row \in ChangeTable, Known(told, base, row) = old[row.field]
      PROVE  Known(After(lines), base, row) = new[row.field]
  <2>1. row.kind \in Kinds
    BY RowType
  <2>2. CASE ofKind(row.kind) = {}
    <3>1. old[row.field] = new[row.field]
      BY <1>2, <2>2
    <3>2. After(lines)[row.kind] = told[row.kind]
      BY <1>4, <2>1, <2>2
    <3>3. QED
      BY <1>6, <3>1, <3>2 DEF Known
  <2>3. CASE ofKind(row.kind) # {}
    <3>1. PICK q \in ChangeTable : /\ last(row.kind).kind = q.kind
                                   /\ last(row.kind).value = new[q.field]
      BY <1>1, <1>3, <2>1, <2>3
    <3>2. q = row
      BY <1>3, <2>1, <2>3, <3>1, RowOfKind
    <3>3. After(lines)[row.kind] = new[row.field] /\ new[row.field] \in Int
      BY <1>4, <2>1, <2>3, <3>1, <3>2, RowType, StructureType
    <3>4. QED
      BY <3>3, ConsoleConstants DEF Known
  <2>4. QED
    BY <2>2, <2>3
<1>7. After(lines) \in [Kinds -> Int \cup {None}]
  BY <1>4, <1>5
<1>8. QED
  BY <1>6, <1>7 DEF lines

-----------------------------------------------------------------------------
(* The initial state *)

\* The invariant holds before anything is started.
LEMMA IndInvInit == Init => IndInv
<1> SUFFICES ASSUME Init PROVE IndInv
  OBVIOUS
<1>1. TypeOK
  <2>1. Untold \in [Kinds -> Int \cup {None}]
    BY DEF Untold
  <2>2. << >> \in Seq(Unread) /\ << >> \in Seq(Structures)
    BY EmptySeq
  <2>3. env \in Nat \cup {None}
    BY ConsoleConstants DEF Init
  <2>4. QED
    BY <2>1, <2>2, <2>3, StructureType DEF Init, TypeOK
<1>2. InputInv
  BY EmptySeq DEF Init, InputInv
<1>3. StartInv /\ OperatorSeesChanges
  BY DEF Init, StartInv, OperatorSeesChanges
<1>4. QED
  BY <1>1, <1>2, <1>3 DEF IndInv

-----------------------------------------------------------------------------
(* What is typed and read *)

\* What InputInv says of one program.
InputOf(p) ==
  /\ Len(stdin[p]) <= 1
  /\ step[p] # "prompt" => command[p] # None
  /\ step[p] = "rest" => stdin[p] # << >>
  /\ step[p] # "rest" => \A i \in 1 .. Len(stdin[p]) : stdin[p][i].whole
  /\ acted[p] + Len(stdin[p]) + (IF step[p] = "act" THEN 1 ELSE 0) = typed[p]

\* A program that is left alone keeps its input as it is.
LEMMA InputKept ==
  ASSUME NEW p \in Programs, InputOf(p), step'[p] = step[p], command'[p] = command[p],
         stdin'[p] = stdin[p], typed'[p] = typed[p], acted'[p] = acted[p]
  PROVE  InputOf(p)'
  BY DEF InputOf

\* A sequence of one element ends behind its head.
LEMMA OneElement ==
  ASSUME NEW S, NEW s \in Seq(S), s # << >>, Len(s) <= 1
  PROVE  Len(s) = 1 /\ Head(s) \in S /\ Head(s) = s[1] /\ Tail(s) = << >>
<1>1. Len(s) \in Nat /\ Len(s) # 0
  BY EmptySeq
<1>2. Len(s) = 1
  BY <1>1
<1>3. Head(s) \in S /\ Tail(s) \in Seq(S) /\ Len(Tail(s)) = 0
  BY <1>2, HeadTailProperties
<1>4. Tail(s) = << >>
  BY <1>3, EmptySeq
<1>5. QED
  BY <1>2, <1>3, <1>4

\* A line is all of what stdin holds.
LEMMA OneLine ==
  ASSUME TypeOK, InputInv, NEW p \in Programs, stdin[p] # << >>
  PROVE  /\ Head(stdin[p]) \in Unread /\ Head(stdin[p]) = stdin[p][1]
         /\ Tail(stdin[p]) = << >> /\ Len(stdin[p]) = 1
<1>1. stdin[p] \in Seq(Unread) /\ Len(stdin[p]) <= 1
  BY DEF TypeOK, InputInv
<1>2. QED
  BY <1>1, OneElement

\* fgets takes the whole line, or fills the buffer, leaves the rest of the line and is
\* called again: the loop does not end in the middle of a line, nor goes on behind its end.
LEMMA GetsStep ==
  ASSUME TypeOK, InputInv, NEW p \in Programs, Gets(p)
  PROVE  /\ stdin' \in [Programs -> Seq(Unread)]
         /\ \/ step' = [step EXCEPT ![p] = "act"] /\ stdin'[p] = << >>
            \/ step' = [step EXCEPT ![p] = "rest"] /\ Len(stdin'[p]) = 1
         /\ \A q \in Programs : q # p => stdin'[q] = stdin[q]
         /\ Len(stdin[p]) = 1
<1> DEFINE line == Head(stdin[p])
<1>1. line \in Unread /\ Tail(stdin[p]) = << >> /\ Len(stdin[p]) = 1
  BY OneLine DEF Gets
<1>2. line.left \in Nat /\ line.left >= 1
  BY <1>1 DEF Unread
<1>3. BufferSize(p) \in Nat /\ BufferSize(p) >= 2
  BY DEF BufferSize
<1>4. stdin \in [Programs -> Seq(Unread)] /\ stdin' = [stdin EXCEPT ![p] = AfterChunk(p)]
  BY DEF TypeOK, Gets
<1>5. CASE line.left < BufferSize(p)
  <2>1. Chunk(p) = line.left
    BY <1>5 DEF Chunk
  <2>2. AfterChunk(p) = << >> /\ ~GoesOn(p)
    BY <1>1, <2>1 DEF AfterChunk, GoesOn
  <2>3. << >> \in Seq(Unread)
    BY EmptySeq
  <2>4. QED
    BY <1>1, <1>4, <2>2, <2>3 DEF Gets
<1>6. CASE ~(line.left < BufferSize(p))
  <2> DEFINE rest == [line EXCEPT !.left = @ - Chunk(p), !.whole = FALSE]
  <2>1. Chunk(p) = BufferSize(p) - 1 /\ Chunk(p) # line.left
    BY <1>2, <1>3, <1>6 DEF Chunk
  <2>2. GoesOn(p) /\ AfterChunk(p) = <<rest>> \o << >>
    BY <1>1, <2>1 DEF AfterChunk, GoesOn
  <2>3. line.left - Chunk(p) \in Nat \ {0}
    BY <1>2, <1>3, <1>6, <2>1
  <2>4. rest \in Unread
    BY <1>1, <2>3 DEF Unread
  <2>5. AfterChunk(p) \in Seq(Unread) /\ Len(AfterChunk(p)) = 1
    <3> HIDE DEF rest
    <3>1. <<rest>> \in Seq(Unread) /\ Len(<<rest>>) = 1
      BY <2>4
    <3>2. <<rest>> \o << >> = <<rest>>
      BY <3>1, ConcatEmptySeq
    <3>3. QED
      BY <2>2, <3>1, <3>2
  <2>6. QED
    BY <1>1, <1>4, <2>2, <2>5 DEF Gets
<1>7. QED
  BY <1>5, <1>6

-----------------------------------------------------------------------------
(* A line is a command *)

\* The steps that neither type nor read nor carry out a command.
Aside == ServerStart \/ ClientStart \/ ClientRegisters \/ Receive \/ ServerGone

\* They leave the input alone.
LEMMA AsideFrame ==
  Aside \/ UNCHANGED vars => UNCHANGED <<step, stdin, command, typed, acted>>
  BY DEF Aside, ServerStart, ClientStart, ClientRegisters, Receive, ServerGone

\* The input of one program and where it is in its loop change together.
LEMMA NextByInput ==
  ASSUME [Next]_vars
  PROVE  \/ Aside \/ UNCHANGED vars
         \/ \E p \in Programs : \/ \E line \in Lines : Type(p, line)
                                \/ GetCommand(p) \/ DropRest(p)
                                \/ \E m \in {"main", "write"} : Act(p, m)
<1>1. CASE ServerMenu \/ WriteMenu \/ ClientMenu
  BY <1>1 DEF ServerMenu, WriteMenu, ClientMenu, Programs
<1>2. CASE \/ \E line \in ServerLines : Type("server", line)
           \/ \E line \in ClientLines : Type("client", line)
  BY <1>2, ConsoleConstants DEF Programs
<1>3. CASE \E p \in Programs : GetCommand(p) \/ DropRest(p)
  BY <1>3
<1>4. CASE Aside
  BY <1>4
<1>5. CASE UNCHANGED vars
  BY <1>5
<1>6. QED
  BY <1>1, <1>2, <1>3, <1>4, <1>5 DEF Next, Aside

\* A program at the prompt gets one line, reads it to its end and carries out one command.
LEMMA InputStep ==
  ASSUME TypeOK, InputInv, [Next]_vars
  PROVE  /\ stdin' \in [Programs -> Seq(Unread)] /\ command' \in [Programs -> Lines \cup {None}]
         /\ step' \in [Programs -> {"prompt", "rest", "act"}]
         /\ typed' \in [Programs -> Nat] /\ acted' \in [Programs -> Nat]
         /\ InputInv'
<1> SUFFICES /\ stdin' \in [Programs -> Seq(Unread)]
             /\ command' \in [Programs -> Lines \cup {None}]
             /\ step' \in [Programs -> {"prompt", "rest", "act"}]
             /\ typed' \in [Programs -> Nat] /\ acted' \in [Programs -> Nat]
             /\ \A q \in Programs : InputOf(q)'
  BY DEF InputInv, InputOf
<1>0. /\ \A q \in Programs : InputOf(q)
      /\ stdin \in [Programs -> Seq(Unread)] /\ command \in [Programs -> Lines \cup {None}]
      /\ step \in [Programs -> {"prompt", "rest", "act"}]
      /\ typed \in [Programs -> Nat] /\ acted \in [Programs -> Nat]
  BY DEF InputInv, InputOf, TypeOK
<1>a. \A q \in Programs : Len(stdin[q]) \in Nat
  BY <1>0, LenProperties
<1>1. CASE Aside \/ UNCHANGED vars
  <2>1. UNCHANGED <<step, stdin, command, typed, acted>>
    BY <1>1, AsideFrame
  <2>2. QED
    BY <1>0, <2>1, InputKept
<1>2. ASSUME NEW p \in Programs, NEW line \in Lines, Type(p, line)
      PROVE  /\ stdin' \in [Programs -> Seq(Unread)] /\ typed' \in [Programs -> Nat]
             /\ UNCHANGED <<step, command, acted>> /\ \A q \in Programs : InputOf(q)'
  <2>1. line \in Unread /\ line.whole
    BY DEF Lines, Unread
  <2>2. stdin'[p] = <<line>> /\ stdin[p] = << >> /\ Len(<<line>>) = 1 /\ <<line>>[1] = line
    BY <1>0, <1>2, <2>1 DEF Type
  <2>3. stdin' \in [Programs -> Seq(Unread)] /\ typed' \in [Programs -> Nat]
    BY <1>0, <1>2, <2>1, <2>2 DEF Type
  <2>4. step[p] # "rest" /\ typed'[p] = typed[p] + 1
    BY <1>0, <1>2, <2>2 DEF Type, InputOf
  <2>5. UNCHANGED <<step, command, acted>>
    BY <1>2 DEF Type
  <2>6. InputOf(p)'
    <3>1. acted[p] + 0 + (IF step[p] = "act" THEN 1 ELSE 0) = typed[p]
      BY <1>0, <2>2, EmptySeq DEF InputOf
    <3>2. acted[p] + 1 + (IF step[p] = "act" THEN 1 ELSE 0) = typed'[p]
      BY <1>0, <2>4, <3>1
    <3>3. \A i \in 1 .. Len(stdin'[p]) : stdin'[p][i].whole
      BY <2>1, <2>2
    <3>4. step[p] # "prompt" => command[p] # None
      BY <1>0 DEF InputOf
    <3>5. QED
      BY <2>2, <2>4, <2>5, <3>2, <3>3, <3>4 DEF InputOf
  <2>7. ASSUME NEW q \in Programs, q # p PROVE InputOf(q)'
    <3>1. stdin'[q] = stdin[q] /\ typed'[q] = typed[q]
      BY <1>0, <1>2, <2>7 DEF Type
    <3>2. QED
      BY <1>0, <2>5, <3>1, InputKept
  <2>8. QED
    BY <2>3, <2>5, <2>6, <2>7
<1>3. ASSUME NEW p \in Programs, Gets(p), UNCHANGED <<typed, acted>>,
             \A q \in Programs : q # p => command'[q] = command[q],
             command'[p] # None, step[p] \in {"prompt", "rest"}
      PROVE  \A q \in Programs : InputOf(q)'
  <2>1. /\ \/ step' = [step EXCEPT ![p] = "act"] /\ stdin'[p] = << >>
           \/ step' = [step EXCEPT ![p] = "rest"] /\ Len(stdin'[p]) = 1
        /\ \A q \in Programs : q # p => stdin'[q] = stdin[q]
        /\ Len(stdin[p]) = 1
    BY <1>3, GetsStep
  <2>2. InputOf(p)'
    <3>0. InputOf(p)
      BY <1>0
    <3>1. acted[p] + 1 = typed[p]
      BY <1>0, <1>3, <2>1, <3>0 DEF InputOf
    <3>2. CASE step' = [step EXCEPT ![p] = "act"] /\ stdin'[p] = << >>
      <4>1. step'[p] = "act" /\ Len(stdin'[p]) = 0
        BY <1>0, <3>2, EmptySeq
      <4>2. QED
        BY <1>0, <1>3, <3>1, <4>1 DEF InputOf
    <3>3. CASE step' = [step EXCEPT ![p] = "rest"] /\ Len(stdin'[p]) = 1
      <4>1. step'[p] = "rest"
        BY <1>0, <3>3
      <4>2. stdin'[p] # << >>
        BY <3>3
      <4>3. QED
        BY <1>0, <1>3, <3>1, <3>3, <4>1, <4>2 DEF InputOf
    <3>4. QED
      BY <2>1, <3>2, <3>3
  <2>3. \A q \in Programs : q # p => InputOf(q)'
    BY <1>0, <1>3, <2>1, InputKept
  <2>4. QED
    BY <2>2, <2>3
<1>4. ASSUME NEW p \in Programs, GetCommand(p)
      PROVE  command' \in [Programs -> Lines \cup {None}] /\ \A q \in Programs : InputOf(q)'
  <2>1. Gets(p) /\ command' = [command EXCEPT ![p] = Head(stdin[p])] /\ step[p] = "prompt"
    BY <1>4 DEF GetCommand
  <2>2. Head(stdin[p]) \in Unread /\ Head(stdin[p]).whole
    <3>1. Head(stdin[p]) \in Unread /\ Head(stdin[p]) = stdin[p][1] /\ Len(stdin[p]) = 1
      BY <2>1, OneLine DEF Gets
    <3>2. InputOf(p)
      BY <1>0
    <3>3. stdin[p][1].whole
      BY <2>1, <3>1, <3>2 DEF InputOf
    <3>4. QED
      BY <3>1, <3>3
  <2>3. Head(stdin[p]) \in Lines
    BY <2>2 DEF Unread, Lines
  <2>4. command' \in [Programs -> Lines \cup {None}]
    BY <1>0, <2>1, <2>3
  <2>5. command'[p] # None /\ \A q \in Programs : q # p => command'[q] = command[q]
    BY <1>0, <2>1, <2>3, NoneIsNoData
  <2>6. UNCHANGED <<typed, acted>>
    BY <1>4 DEF GetCommand
  <2>7. QED
    BY <1>3, <2>1, <2>4, <2>5, <2>6
<1>5. ASSUME NEW p \in Programs, DropRest(p)
      PROVE  \A q \in Programs : InputOf(q)'
  <2>1. Gets(p) /\ UNCHANGED <<typed, acted, command>> /\ step[p] = "rest"
    BY <1>5 DEF DropRest
  <2>2. command'[p] # None
    BY <1>0, <2>1 DEF InputOf
  <2>3. QED
    BY <1>3, <2>1, <2>2
<1>6. ASSUME NEW p \in Programs, NEW m \in {"main", "write"}, Act(p, m)
      PROVE  /\ step' \in [Programs -> {"prompt", "rest", "act"}]
             /\ command' \in [Programs -> Lines \cup {None}]
             /\ acted' \in [Programs -> Nat] /\ UNCHANGED <<stdin, typed>>
             /\ \A q \in Programs : InputOf(q)'
  <2>1. /\ step[p] = "act" /\ step' = [step EXCEPT ![p] = "prompt"]
        /\ acted' = [acted EXCEPT ![p] = @ + 1] /\ UNCHANGED <<stdin, typed>>
        /\ command' = [command EXCEPT ![p] = None]
    BY <1>6 DEF Act
  <2>2. InputOf(p)
    BY <1>0
  <2>3. InputOf(p)'
    <3>1. step'[p] = "prompt" /\ acted'[p] = acted[p] + 1
      BY <1>0, <2>1
    <3>2. acted[p] + Len(stdin[p]) + 1 = typed[p]
      BY <2>1, <2>2 DEF InputOf
    <3>3. acted'[p] + Len(stdin[p]) + 0 = typed[p]
      BY <1>0, <1>a, <3>1, <3>2
    <3>4. QED
      BY <2>1, <2>2, <3>1, <3>3 DEF InputOf
  <2>4. ASSUME NEW q \in Programs, q # p PROVE InputOf(q)'
    <3>1. step'[q] = step[q] /\ acted'[q] = acted[q] /\ command'[q] = command[q]
      BY <1>0, <2>1, <2>4
    <3>2. QED
      BY <1>0, <2>1, <3>1, InputKept
  <2>5. QED
    BY <1>0, <2>1, <2>3, <2>4
<1>7. ASSUME NEW p \in Programs, Gets(p)
      PROVE  /\ stdin' \in [Programs -> Seq(Unread)]
             /\ step' \in [Programs -> {"prompt", "rest", "act"}]
  BY <1>0, <1>7, GetsStep
<1>8. QED
  BY <1>0, <1>1, <1>2, <1>4, <1>5, <1>6, <1>7, AsideFrame, NextByInput DEF GetCommand, DropRest

-----------------------------------------------------------------------------
(* Structures, messages and pools *)

\* Whatever is written into a structure, what it holds afterwards fits into its fields.
LEMMA WriteStep ==
  ASSUME TypeOK, NEW id \in Int, NEW value \in Int, -Half[4] <= value, value < Half[4],
         WriteDataToStruct(id, value)
  PROVE  data' \in Structures
<1>1. data \in Structures
  BY DEF TypeOK
<1>2. ASSUME NEW f \in Fields, data' = [data EXCEPT ![f] = StoredAs(Width[f], value)]
      PROVE  data' \in Structures
  <2>1. StoredAs(Width[f], value) \in Int /\ Fits(Width[f], StoredAs(Width[f], value))
    BY StoredAsFits, WidthType
  <2>2. QED
    BY <1>1, <1>2, <2>1 DEF Structures
<1>3. QED
  BY <1>1, <1>2 DEF WriteDataToStruct

\* A number that has lost its last digits is a number.
LEMMA NumberType == \A line \in Lines : NumberIn(line) \in Int
<1> SUFFICES ASSUME NEW line \in Lines, line.left > 39 PROVE NumberIn(line) \in Int
  BY DEF NumberIn, Lines
<1>1. line.value \in Int /\ line.left \in Nat
  BY DEF Lines
<1>2. line.left - 39 \in Nat
  BY <1>1
<1>3. TenTo[line.left - 39] \in Nat /\ TenTo[line.left - 39] >= 1
  BY <1>2, TenToType
<1>4. QED
  BY <1>1, <1>3 DEF NumberIn, Without

\* What a line writes is an int.
LEMMA WrittenStep ==
  ASSUME TypeOK, NEW line \in Lines, Written(line)
  PROVE  data' \in Structures
<1>1. line.id \in Int /\ NumberIn(line) \in Int
  BY NumberType DEF Lines
<1>2. CASE line.key = "number"
  <2>1. WriteDataToStruct(IntOf(line.id), IntOf(NumberIn(line)))
    BY <1>2 DEF Written
  <2>2. QED
    BY <1>1, <2>1, IntOfRange, WriteStep
<1>3. CASE line.key # "number"
  <2>1. WriteDataToStruct(0, 0)
    BY <1>3 DEF Written
  <2>2. QED
    BY <2>1, Sizes, WriteStep
<1>4. QED
  BY <1>2, <1>3

\* The steps of the menus.
LEMMA MenuStep ==
  ASSUME TypeOK, InputInv, ServerMenu \/ WriteMenu \/ ClientMenu
  PROVE  /\ data' \in Structures /\ screen' \in Structures
         /\ flight' \in Seq(Structures) /\ pool' \in Structures \cup {None}
         /\ menu' \in [Programs -> {"start", "register", "main", "write", "end"}]
         /\ UNCHANGED <<env, nameSize, told, registered>>
         /\ pool' # None => pool' = pool
         /\ flight' # << >> => pool' = pool /\ (flight # << >> \/ pool # None)
         /\ \A m \in {"start", "register", "main"} : menu'["client"] = m => menu["client"] = m
<1> USE DEF TypeOK
<1>0. "server" \in Programs /\ "client" \in Programs
  BY DEF Programs
<1>1. CASE ServerMenu
  <2>1. UNCHANGED <<env, nameSize, data, pool, screen, told, registered>>
    BY <1>1 DEF ServerMenu, Act
  <2>2. \/ flight' = flight
        \/ flight' = Append(flight, data) /\ pool # None
    BY <1>1 DEF ServerMenu, Send
  <2>3. flight' \in Seq(Structures)
    <3>1. flight \in Seq(Structures) /\ data \in Structures
      OBVIOUS
    <3>2. Append(flight, data) \in Seq(Structures)
      BY <3>1, AppendProperties
    <3>3. QED
      BY <2>2, <3>1, <3>2
  <2>4. menu' \in [Programs -> {"start", "register", "main", "write", "end"}]
        /\ menu'["client"] = menu["client"]
    BY <1>0, <1>1 DEF ServerMenu, SetMenu
  <2>5. QED
    BY <2>1, <2>2, <2>3, <2>4
<1>2. CASE WriteMenu
  <2>1. UNCHANGED <<env, nameSize, flight, pool, screen, told, registered>>
    BY <1>2 DEF WriteMenu, Act
  <2>2. data' \in Structures
    <3>1. step["server"] = "act"
      BY <1>2 DEF WriteMenu, Act
    <3>2. command["server"] \in Lines
      BY <1>0, <3>1 DEF InputInv
    <3>3. data' = data \/ Written(command["server"])
      BY <1>2 DEF WriteMenu
    <3>4. QED
      BY <3>2, <3>3, WrittenStep
  <2>3. menu' \in [Programs -> {"start", "register", "main", "write", "end"}]
        /\ menu'["client"] = menu["client"]
    BY <1>0, <1>2 DEF WriteMenu, SetMenu
  <2>4. QED
    BY <2>1, <2>2, <2>3
<1>3. CASE ClientMenu
  <2>1. UNCHANGED <<env, nameSize, data, told, registered>>
    BY <1>3 DEF ClientMenu, Act
  <2>2. \/ menu' = [menu EXCEPT !["client"] = "end"] /\ pool' = None /\ flight' = << >>
           /\ screen' = screen
        \/ screen' = (IF pool # None THEN pool ELSE screen) /\ UNCHANGED <<menu, flight, pool>>
        \/ UNCHANGED <<menu, flight, pool, screen>>
    BY <1>3 DEF ClientMenu, SetMenu
  <2>3. << >> \in Seq(Structures)
    BY EmptySeq
  <2>4. QED
    BY <1>0, <2>1, <2>2, <2>3
<1>4. QED
  BY <1>1, <1>2, <1>3

\* The steps of the starts and of the client's service thread.
LEMMA AsideStep ==
  ASSUME IndInv, Aside
  PROVE  /\ data' \in Structures /\ screen' \in Structures
         /\ flight' \in Seq(Structures) /\ pool' \in Structures \cup {None}
         /\ menu' \in [Programs -> {"start", "register", "main", "write", "end"}]
         /\ env' = env /\ nameSize' \in Nat /\ told' \in [Kinds -> Int \cup {None}]
         /\ registered' \in Structures /\ StartInv' /\ OperatorSeesChanges'
<1> USE DEF IndInv, TypeOK
<1>0. "server" \in Programs /\ "client" \in Programs
  BY DEF Programs
<1>1. CASE ServerStart
  <2>1. UNCHANGED <<env, data, screen, flight, pool, told, registered>>
    BY <1>1 DEF ServerStart
  <2>2. NameSize \in Nat
    BY ConsoleConstants DEF NameSize, DomainName
  <2>3. nameSize' \in Nat /\ (nameSize' # 0 => NameCreated' /\ nameSize' = NameSize')
    BY <1>1, <2>1, <2>2 DEF ServerStart, StartInv, NameCreated, NameSize, HasRoom
  <2>4. /\ menu' \in [Programs -> {"start", "register", "main", "write", "end"}]
        /\ menu'["client"] = menu["client"]
    BY <1>0, <1>1 DEF ServerStart
  <2>5. QED
    BY <2>1, <2>3, <2>4 DEF StartInv, OperatorSeesChanges
<1>2. CASE ClientStart
  <2>1. UNCHANGED <<env, nameSize, data, screen, flight, told, registered>>
    BY <1>2 DEF ClientStart
  <2>2. pool' \in Structures \cup {None} /\ (pool # None => pool' # None)
    BY <1>2, StructureType DEF ClientStart
  <2>3. /\ menu' \in [Programs -> {"start", "register", "main", "write", "end"}]
        /\ menu'["client"] # "main" /\ menu["client"] = "start"
    BY <1>0, <1>2 DEF ClientStart
  <2>4. QED
    BY <2>1, <2>2, <2>3 DEF StartInv, OperatorSeesChanges, NameCreated, NameSize, HasRoom
<1>3. CASE ClientRegisters
  <2>1. UNCHANGED <<env, nameSize, data, screen, flight, pool, told>>
    BY <1>3 DEF ClientRegisters
  <2>2. told = Untold /\ registered' \in Structures /\ (pool # None => registered' = pool)
    BY <1>3 DEF ClientRegisters, StartInv
  <2>3. menu' \in [Programs -> {"start", "register", "main", "write", "end"}]
        /\ menu'["client"] \in {"main", "end"}
    BY <1>0, <1>3 DEF ClientRegisters
  <2>4. \A row \in ChangeTable : told[row.kind] = None
    BY <2>2, RowType DEF Untold
  <2>5. QED
    BY <2>1, <2>2, <2>3, <2>4
    DEF StartInv, OperatorSeesChanges, NameCreated, NameSize, HasRoom
<1>4. CASE Receive
  <2>1. UNCHANGED <<env, nameSize, data, screen, menu, registered>>
    BY <1>4 DEF Receive
  <2>2. /\ flight # << >> /\ pool' = Head(flight) /\ flight' = Tail(flight)
        /\ told' = IF menu["client"] = "main" THEN After(Printed(pool, Head(flight))) ELSE told
    BY <1>4 DEF Receive
  <2>3. Head(flight) \in Structures /\ Tail(flight) \in Seq(Structures)
    BY <2>2, HeadTailProperties
  <2>4. pool # None
    BY <2>2 DEF StartInv
  <2>5. told' \in [Kinds -> Int \cup {None}]
    BY <2>2, <2>3, AfterTellsAll
  <2>6. menu["client"] = "main" =>
          \A row \in ChangeTable : Known(told', registered, row) = Head(flight)[row.field]
    <3> SUFFICES ASSUME menu["client"] = "main", NEW row \in ChangeTable
                 PROVE  Known(told', registered, row) = Head(flight)[row.field]
      OBVIOUS
    <3>1. Known(told, registered, row) = pool[row.field]
      BY <2>4 DEF OperatorSeesChanges, Known
    <3>2. told' = After(Printed(pool, Head(flight)))
      BY <2>2
    <3>3. told \in [Kinds -> Int \cup {None}]
      OBVIOUS
    <3>4. Known(After(Printed(pool, Head(flight))), registered, row) = Head(flight)[row.field]
      BY <2>3, <3>1, <3>3, AfterTellsAll DEF Known
    <3>5. QED
      BY <3>2, <3>4
  <2>7. OperatorSeesChanges'
    BY <2>1, <2>2, <2>6 DEF OperatorSeesChanges, Known
  <2>8. QED
    BY <2>1, <2>2, <2>3, <2>5, <2>7, StructureType
    DEF StartInv, NameCreated, NameSize, HasRoom
<1>5. CASE ServerGone
  <2>1. /\ UNCHANGED <<env, nameSize, data, screen, menu, told, registered>>
        /\ pool' = None /\ flight' = << >>
    BY <1>5 DEF ServerGone
  <2>2. << >> \in Seq(Structures)
    BY EmptySeq
  <2>3. QED
    BY <2>1, <2>2 DEF StartInv, OperatorSeesChanges, NameCreated, NameSize, HasRoom
<1>6. QED
  BY <1>1, <1>2, <1>3, <1>4, <1>5 DEF Aside

-----------------------------------------------------------------------------
(* The theorems *)

\* Every step keeps the inductive invariant.
LEMMA IndInvStep == IndInv /\ [Next]_vars => IndInv'
<1> SUFFICES ASSUME IndInv, [Next]_vars PROVE IndInv'
  OBVIOUS
<1>0. TypeOK /\ InputInv /\ StartInv /\ OperatorSeesChanges
  BY DEF IndInv
<1>1. /\ stdin' \in [Programs -> Seq(Unread)] /\ command' \in [Programs -> Lines \cup {None}]
      /\ step' \in [Programs -> {"prompt", "rest", "act"}]
      /\ typed' \in [Programs -> Nat] /\ acted' \in [Programs -> Nat]
      /\ InputInv'
  BY <1>0, InputStep
<1>2. CASE Aside
  BY <1>0, <1>1, <1>2, AsideStep DEF TypeOK, IndInv
<1>3. CASE ServerMenu \/ WriteMenu \/ ClientMenu
  <2>1. TypeOK'
    BY <1>0, <1>1, <1>3, MenuStep DEF TypeOK
  <2>2. StartInv' /\ OperatorSeesChanges'
    BY <1>0, <1>3, MenuStep
    DEF StartInv, OperatorSeesChanges, NameCreated, NameSize, HasRoom
  <2>3. QED
    BY <1>1, <2>1, <2>2 DEF IndInv
<1>4. CASE \/ \E line \in ServerLines : Type("server", line)
           \/ \E line \in ClientLines : Type("client", line)
           \/ \E p \in Programs : GetCommand(p) \/ DropRest(p)
           \/ UNCHANGED vars
  <2>1. UNCHANGED <<env, nameSize, menu, data, flight, pool, screen, told, registered>>
    BY <1>4 DEF Type, GetCommand, DropRest
  <2>2. QED
    BY <1>0, <1>1, <2>1
    DEF TypeOK, IndInv, StartInv, OperatorSeesChanges, NameCreated, NameSize, HasRoom
<1>5. QED
  BY <1>2, <1>3, <1>4 DEF Next, Aside

\* The inductive invariant holds whatever is typed.
THEOREM Invariance == Spec => []IndInv
  BY IndInvInit, IndInvStep, PTL DEF Spec

\* Type correctness: whatever number is typed, as an index or as a value, every structure,
\* message and pool holds in each field what fits in its bytes and in those of an int.
THEOREM TypeCorrectness == Spec => []TypeOK
<1>1. IndInv => TypeOK
  BY DEF IndInv
<1>2. QED
  BY <1>1, Invariance, PTL

\* A line of whatever length is one command, at each program and in each menu.
THEOREM LinesAreCommands == Spec => []OneCommandPerLine
<1>1. IndInv => OneCommandPerLine
  <2> SUFFICES ASSUME IndInv, NEW p \in Programs, step[p] = "prompt"
               PROVE  /\ acted[p] + Len(stdin[p]) = typed[p]
                      /\ \A i \in 1 .. Len(stdin[p]) : stdin[p][i].whole
    BY DEF OneCommandPerLine
  <2>1. acted[p] \in Nat /\ Len(stdin[p]) \in Nat
    BY LenProperties DEF IndInv, TypeOK
  <2>2. /\ acted[p] + Len(stdin[p]) + 0 = typed[p]
        /\ \A i \in 1 .. Len(stdin[p]) : stdin[p][i].whole
    BY DEF IndInv, InputInv
  <2>3. QED
    BY <2>1, <2>2
<1>2. QED
  BY <1>1, Invariance, PTL

\* The last line printed for each kind is the pool, and a kind without a line has not changed
\* since the callback was registered, for every choice of the fields looked at: a row is
\* known by its kind, and the callback is told of every field that differs.
THEOREM ChangesAreSeen == Spec => []OperatorSeesChanges
<1>1. IndInv => OperatorSeesChanges
  BY DEF IndInv
<1>2. QED
  BY <1>1, Invariance, PTL

\* A directory of every length but one makes a name that fits or is refused.
THEOREM NamesFit == Spec => []NameFits
<1>1. IndInv => NameFits
  <2> SUFFICES ASSUME IndInv, nameSize # 0 PROVE NameFits
    BY DEF NameFits, DomainPathMax
  <2>1. NameCreated /\ nameSize = NameSize /\ env \in Nat \cup {None}
    BY DEF IndInv, StartInv, TypeOK
  <2>2. QED
    BY <2>1 DEF NameCreated, NameSize, HasRoom, NameFits, DomainPathMax, DomainName
<1>2. QED
  BY <1>1, Invariance, PTL
=============================================================================
