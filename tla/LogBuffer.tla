----------------------------- MODULE LogBuffer -----------------------------
(***************************************************************************)
(* Base/buffer.h, class LogBuffer<SIZE>: a fixed block of SIZE bytes that  *)
(* is filled from the front.  The cursor cur_ is kept as the number of     *)
(* bytes in use (cur_ - data_, what length() returns); of the bytes        *)
(* themselves only the lines they spell are kept, in order.                *)
(***************************************************************************)
EXTENDS Integers, Sequences

CONSTANT BufSize        \* SIZE: kSmallBuffer (4000) in Log.h

ASSUME BufSizeAssumption == BufSize \in Nat \ {0}

\* The type of a block: its cursor, and the lines that have been copied in.
Buffer == [cur: Nat, lines: Seq(Nat)]

\* The constructor and init(): bytes zeroed, cursor back at data_.
EmptyBuffer == [cur |-> 0, lines |-> <<>>]

avail(buf) == BufSize - buf.cur

\* mutation: the cursor moves the wrong way
PutLineBackwards(buf, line, len) ==
    IF avail(buf) > len
    THEN [cur |-> buf.cur - len, lines |-> Append(buf.lines, line)]
    ELSE buf

\* append(): copies only when a byte is left over; otherwise it does nothing,
\* and reports nothing to its caller.
PutLine(buf, line, len) ==
    IF avail(buf) > len
    THEN [cur |-> buf.cur + len, lines |-> Append(buf.lines, line)]
    ELSE buf
=============================================================================
