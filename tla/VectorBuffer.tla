---------------------------- MODULE VectorBuffer ----------------------------
(***************************************************************************)
(* buffer/Buffer.h, class Buffer: a vector of bytes in which two indices   *)
(* bound the window of bytes that can be read.                             *)
(*                                                                         *)
(*      0 .. kreadIndex_ .. kwriteIndex_ .. buffer_.size()                 *)
(*       prependable   readable        writable                            *)
(*                                                                         *)
(* The indices are size_t: their sums and differences are taken modulo     *)
(* Word.  An operation is an operator from a buffer to the set of buffers  *)
(* it may leave behind; its status says whether the program is still       *)
(* running normally, and the history intact whether every memcpy() of      *)
(* overlapping ranges has come out as memmove() would have.                *)
(***************************************************************************)
EXTENDS Integers, Sequences

CONSTANTS
    Word,           \* the number of values of size_t: 2^64
    kinitSize,      \* 1024
    kinitPreSize,   \* 8
    ExtraSize       \* sizeof(extrabuf): 10240

ASSUME SizeAssumption ==
    /\ Word \in Nat \ {0} /\ kinitSize \in Nat \ {0}
    /\ ExtraSize \in Nat /\ ExtraSize <= Word \div 4
    /\ kinitPreSize \in Nat /\ kinitPreSize <= kinitSize
    /\ kinitSize <= Word \div 2 - 1

\* The largest size of a vector of char; resize() throws beyond it.
MaxSize == Word \div 2 - 1

Zeros(n) == [i \in 1 .. n |-> 0]

EmptyBuffer ==
    [buffer_ |-> Zeros(kinitSize), kreadIndex_ |-> kinitPreSize,
     kwriteIndex_ |-> kinitPreSize, status |-> "ok", intact |-> TRUE]

\* Stands for any byte that is not the one that belongs there.
Spoiled == 0

-----------------------------------------------------------------------------
size(b) == Len(b.buffer_)
readable(b) == (b.kwriteIndex_ - b.kreadIndex_) % Word
writable(b) == (size(b) - b.kwriteIndex_) % Word
prependable(b) == b.kreadIndex_

\* mem with the bytes written at index at.
Written(mem, at, bytes) ==
    [i \in 1 .. Len(mem) |-> IF at < i /\ i <= at + Len(bytes) THEN bytes[i - at] ELSE mem[i]]

\* mutation: the new size is twice the old one and more
Doubles(b, len) ==
    LET newSize == (2 * (size(b) + len)) % Word
    IN  IF newSize > MaxSize THEN [b EXCEPT !.buffer_ = <<>>, !.status = "throw"]
        ELSE IF newSize < size(b) THEN [b EXCEPT !.status = "overrun"]
        ELSE [b EXCEPT !.buffer_ = b.buffer_ \o Zeros(newSize - size(b))]

(* enlarge(), the first branch: a larger vector, filled from the old one.  *)
(* If resize() throws, the old one has already been swapped out.           *)
Grow(b, len) ==
    LET newSize == (size(b) + 2 * len) % Word
    IN  IF newSize > MaxSize THEN [b EXCEPT !.buffer_ = <<>>, !.status = "throw"]
        ELSE IF newSize < size(b) THEN [b EXCEPT !.status = "overrun"]
        ELSE [b EXCEPT !.buffer_ = b.buffer_ \o Zeros(newSize - size(b))]

(* The second branch: the window moves to kinitPreSize.  The bytes that    *)
(* lie where others are copied to may be overwritten before they are       *)
(* loaded: memcpy() of overlapping ranges is undefined, and any of them    *)
(* may come out wrong.  Ranges that do not overlap are copied whole.       *)
Overlap(b) ==
    {i \in 1 .. readable(b) : i + b.kreadIndex_ - kinitPreSize \in 1 .. readable(b)}

MovedWindow(b, wrong) ==
    [i \in 1 .. readable(b) |-> IF i \in wrong THEN Spoiled ELSE b.buffer_[b.kreadIndex_ + i]]

Compact(b) ==
    IF kinitPreSize + readable(b) > size(b) THEN {[b EXCEPT !.status = "overrun"]}
    ELSE {[b EXCEPT !.buffer_ = Written(@, kinitPreSize, MovedWindow(b, wrong)),
                    !.kreadIndex_ = kinitPreSize, !.kwriteIndex_ = kinitPreSize + readable(b),
                    !.intact = @ /\ wrong = {}] : wrong \in SUBSET Overlap(b)}

\* mutation: the bytes reserved for prepend() count as free
EnlargeIntoPrepend(b, len) ==
    IF len > (writable(b) + b.kreadIndex_) % Word THEN {Grow(b, len)} ELSE Compact(b)

enlarge(b, len) ==
    IF len > (writable(b) + b.kreadIndex_ - kinitPreSize) % Word THEN {Grow(b, len)} ELSE Compact(b)

(* append(p, len), with bytes for what p points to.                        *)
Filled(b, bytes, len) ==
    IF b.status # "ok" THEN b
    ELSE IF len > writable(b) THEN [b EXCEPT !.status = "abort"]
    ELSE IF b.kwriteIndex_ + len > size(b) THEN [b EXCEPT !.status = "overrun"]
    ELSE [b EXCEPT !.buffer_ = Written(b.buffer_, b.kwriteIndex_, bytes), !.kwriteIndex_ = @ + len]

append(b, bytes, len) ==
    {Filled(e, bytes, len) : e \in IF len > writable(b) THEN enlarge(b, len) ELSE {b}}

-----------------------------------------------------------------------------
retrieveAll(b) == [b EXCEPT !.kreadIndex_ = kinitPreSize, !.kwriteIndex_ = kinitPreSize]

\* mutations: no comparison with readable(); the index moves the wrong way
RetrievesBlindly(b, len) == [b EXCEPT !.kreadIndex_ = @ + len]

RetrievesBackwards(b, len) ==
    IF len >= readable(b) THEN retrieveAll(b) ELSE [b EXCEPT !.kreadIndex_ = @ - len]

retrieve(b, len) ==
    IF len >= readable(b) THEN retrieveAll(b) ELSE [b EXCEPT !.kreadIndex_ = @ + len]

\* What preViewAsString(len), and retrieveAsString(len) before retrieve(len), return.
preView(b, len) ==
    SubSeq(b.buffer_, b.kreadIndex_ + 1,
           b.kreadIndex_ + (IF len > readable(b) THEN readable(b) ELSE len))

prepend(b, bytes, len) ==
    IF len > prependable(b) THEN [b EXCEPT !.status = "abort"]
    ELSE [b EXCEPT !.kreadIndex_ = @ - len,
                   !.buffer_ = Written(b.buffer_, b.kreadIndex_ - len, bytes)]

\* What readv() may bring at most.
MaxRead(b) == IF writable(b) < ExtraSize THEN writable(b) + ExtraSize ELSE writable(b)

\* mutation: extrabuf is appended before kwriteIndex_ has moved to the end
ExtraOverwrites(b, bytes, n) ==
    LET room == writable(b)
    IN  IF n <= room THEN {[b EXCEPT !.buffer_ = Written(@, b.kwriteIndex_, bytes), !.kwriteIndex_ = @ + n]}
        ELSE append(b, SubSeq(bytes, room + 1, Len(bytes)), n - room)

(* readFd(): readv() fills what is writable, then extrabuf.  Its result n  *)
(* is kept in a size_t, where -1 is Word - 1 and only 0 is <= 0.           *)
readFd(b, bytes, n) ==
    LET room  == writable(b)
        inVec == IF Len(bytes) < room THEN Len(bytes) ELSE room
        mem   == Written(b.buffer_, b.kwriteIndex_, SubSeq(bytes, 1, inVec))
    IN  IF n <= 0 THEN {b}
        ELSE IF n <= room THEN {[b EXCEPT !.buffer_ = mem, !.kwriteIndex_ = @ + n]}
        ELSE append([b EXCEPT !.buffer_ = mem, !.kwriteIndex_ = size(b)],
                    SubSeq(bytes, inVec + 1, Len(bytes)), n - room)

\* The bytes between the indices.
window(b) == SubSeq(b.buffer_, b.kreadIndex_ + 1, b.kwriteIndex_)
=============================================================================
