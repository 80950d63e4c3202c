----------------------------- MODULE ByteQueue -----------------------------
(***************************************************************************)
(* What a caller of Buffer may rely on: a queue of bytes to which bytes    *)
(* are added at the back (append, readFd) and at the front (prepend), and  *)
(* from whose front they are looked at and taken.  Bytes are numbered in   *)
(* the order in which they are handed to the buffer.  Once the queue is    *)
(* not reliable any more, nothing can be relied on.                        *)
(***************************************************************************)
EXTENDS Integers, Sequences

CONSTANTS
    Bytes,          \* how many bytes there are to hand in
    Safe            \* how many may be handed in before the queue can be full

VARIABLES
    content,        \* the bytes in the queue
    next,           \* the number of the next byte
    out,            \* the string the last call returned
    reliable        \* is the caller still served by a queue?

vars == <<content, next, out, reliable>>

Init == content = <<>> /\ next = 1 /\ out = <<>> /\ reliable = TRUE

Fresh(n) == [i \in 1 .. n |-> next + i - 1]

Put ==
    \E n \in 0 .. Bytes - next + 1 :
        /\ content' \in {content \o Fresh(n), Fresh(n) \o content}
        /\ next' = next + n
        /\ out' = <<>>

\* The exception of a full queue, with which its bytes are lost.
PutThrows ==
    \E n \in 0 .. Bytes - next + 1 :
        /\ next + n - 1 > Safe
        /\ content' = <<>>
        /\ next' = next + n
        /\ out' = <<>>

Drop ==
    \E n \in 0 .. Len(content) :
        /\ content' = SubSeq(content, n + 1, Len(content))
        /\ out' = <<>> /\ UNCHANGED next

Peek ==
    \E n \in 0 .. Len(content) :
        /\ out' = SubSeq(content, 1, n)
        /\ content' \in {content, SubSeq(content, n + 1, Len(content))}
        /\ UNCHANGED next

Call == reliable /\ reliable' /\ (Put \/ PutThrows \/ Drop \/ Peek)

CannotRely == reliable' = FALSE

Next == Call \/ CannotRely

Spec == Init /\ [][Next]_vars
=============================================================================
