------------------------------ MODULE LogQueue ------------------------------
(***************************************************************************)
(* What a caller of Logging may rely on, without blocks, threads or locks: *)
(* a first-in first-out queue of lines between append() and the output.    *)
(* Lines are numbered in the order of their append() calls.  A line that   *)
(* is not queued, or is shed from the queue, is lost for good; every other *)
(* line is written once, in order.                                         *)
(***************************************************************************)
EXTENDS Integers, Sequences, FiniteSets, SequencesExt

CONSTANTS
    MayRefuse,      \* can a line be too long to be logged at all?
    Backlog         \* lines are shed only when this many are unwritten or lost

VARIABLES count, queue, written, lost

vars == <<count, queue, written, lost>>

Init == count = 0 /\ queue = <<>> /\ written = <<>> /\ lost = {}

Accept ==
    /\ count' = count + 1
    /\ queue' = Append(queue, count + 1)
    /\ UNCHANGED <<written, lost>>

Refuse ==
    /\ MayRefuse
    /\ count' = count + 1
    /\ lost' = lost \cup {count + 1}
    /\ UNCHANGED <<queue, written>>

Write ==
    \E n \in 1 .. Len(queue) :
        /\ written' = written \o SubSeq(queue, 1, n)
        /\ queue' = SubSeq(queue, n + 1, Len(queue))
        /\ UNCHANGED <<count, lost>>

(* Overload: a run of consecutive lines leaves the queue unwritten.        *)
Shed ==
    /\ Len(queue) + Cardinality(lost) >= Backlog
    /\ \E i \in 1 .. Len(queue) : \E j \in i .. Len(queue) :
           /\ queue' = SubSeq(queue, 1, i - 1) \o SubSeq(queue, j + 1, Len(queue))
           /\ lost' = lost \cup ToSet(SubSeq(queue, i, j))
    /\ UNCHANGED <<count, written>>

Next == Accept \/ Refuse \/ Write \/ Shed

Spec == Init /\ [][Next]_vars
=============================================================================
