----------------------------- MODULE MCConsole -----------------------------
(* The instance of IpcConsole that TLC checks. *)
EXTENDS IpcConsole

Line(key, left) == [key |-> key, left |-> left, id |-> 0, value |-> 0, whole |-> TRUE]
NumberLine(id, value, left) ==
  [key |-> "number", left |-> left, id |-> id, value |-> value, whole |-> TRUE]

\* An int of 21 bits and a long of 29, so that TLC can count beyond them.
SmallIntegers == [width \in {1, 2, 4, 8} |->
  CASE width = 1 -> 128 [] width = 2 -> 32768 [] width = 4 -> 1048576 [] width = 8 -> 268435456]

\* Commands that just fit in the buffer of the main menu, or just do not; numbers that just
\* fit in the one of the write menu, or lose a digit; numbers beyond one byte, an int and a
\* long, for fields of one, four and eight bytes; the index behind the table, and one that
\* is 0 as an int.
TypedAtServer ==
  {Line("w", 10), Line("s", 9), Line("s", 10), Line("q", 9), Line("h", 2)}
    \cup {NumberLine(46, 10, 39), NumberLine(46, -15, 40), NumberLine(65, 200, 39)}
    \cup {NumberLine(54, 1048577, 39), NumberLine(46, 500000000, 39)}
    \cup {NumberLine(77, 1, 39), NumberLine(2097152, 1, 39)}
TypedAtClient == {Line("r", 10), Line("q", 9), Line("h", 19)}
Bounds == [p \in Programs |-> IF p = "server" THEN 5 ELSE 1]
=============================================================================
