----------------------------- MODULE AsyncLogMC -----------------------------
(* Instances of AsyncLog for TLC, and its refinement of LogQueue.          *)
EXTENDS AsyncLog, SequencesExt

(* Lines taken by append() and neither written nor lost yet, oldest first. *)
LinesInOrder(bufs) == FlattenSeq([i \in DOMAIN bufs |-> LinesIn(bufs[i])])

pending ==
    LinesInOrder(SubSeq(bufToWrite, done + 1, Len(bufToWrite)))
        \o LinesInOrder(bufVec_) \o LinesIn(curBuf_)

(* A line that does not fit into a block is refused.  Lines are shed by a  *)
(* round of more than DropLimit blocks only; each of these but one was     *)
(* queued for the sake of a line that did not fit into it, and that line   *)
(* is in the round too or was refused.                                     *)
MayRefuse == \E len \in LineLens : len >= BufSize
Backlog == DropLimit

Abstract == INSTANCE LogQueue WITH queue <- pending

(* Across all threads and block swaps, Logging is a first-in first-out     *)
(* queue: no line is written twice or out of order, and none disappears    *)
(* without being one of those that the code drops.                         *)
ImplementsQueue == Abstract!Spec
=============================================================================
