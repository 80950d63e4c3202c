---------------------------- MODULE EpollToggle ----------------------------
(***************************************************************************)
(* epollTest/epolltest.cc: standard input goes back and forth between      *)
(* EPOLLIN and EPOLLIN | EPOLLOUT, and is read when it is writable.  Only  *)
(* a terminal ever is; a file cannot be registered.                        *)
(***************************************************************************)
EXTENDS Naturals

CONSTANT MaxLines   \* bound: lines of input

ASSUME ToggleAssumption == MaxLines \in Nat

VARIABLES
    stdin,          \* what standard input is
    ev,             \* the program's events mask
    wanted,         \* the mask registered with epoll; {} when there is none
    event,          \* the events that epoll_wait() returned
    step,           \* where the loop is
    typed, taken    \* lines of input, and those read

toggleVars == <<stdin, ev, wanted, event, step, typed, taken>>

ToggleInit ==
    /\ stdin \in {"terminal", "pipe", "file"}
    /\ ev = {"in"} /\ wanted = IF stdin = "file" THEN {} ELSE {"in"}
    /\ event = {} /\ step = "wait"
    /\ typed = 0 /\ taken = 0

Type ==
    /\ typed < MaxLines /\ typed' = typed + 1
    /\ UNCHANGED <<stdin, ev, wanted, event, step, taken>>

Pending ==
    wanted \cap ((IF taken < typed THEN {"in"} ELSE {}) \cup (IF stdin = "terminal" THEN {"out"} ELSE {}))

ToggleWait ==
    /\ step = "wait" /\ Pending # {}
    /\ event' = Pending /\ step' = "in"
    /\ UNCHANGED <<stdin, ev, wanted, typed, taken>>

\* Ten seconds without an event: standard input is removed for good.
Timeout ==
    /\ step = "wait" /\ Pending = {}
    /\ wanted' = {}
    /\ UNCHANGED <<stdin, ev, event, step, typed, taken>>

\* epoll_ctl(MOD) fails when nothing is registered, and the program exits.
Modify(mask, next) ==
    /\ ev' = mask
    /\ IF wanted = {} THEN step' = "exit" /\ UNCHANGED wanted
       ELSE step' = next /\ wanted' = mask

\* mutation: the mask is not changed
OnReadableSame ==
    /\ step = "in"
    /\ IF "in" \in event THEN Modify(ev, "out") ELSE step' = "out" /\ UNCHANGED <<ev, wanted>>
    /\ UNCHANGED <<stdin, event, typed, taken>>

OnReadable ==
    /\ step = "in"
    /\ IF "in" \in event THEN Modify(ev \cup {"out"}, "out") ELSE step' = "out" /\ UNCHANGED <<ev, wanted>>
    /\ UNCHANGED <<stdin, event, typed, taken>>

\* mutation: EPOLLOUT stays in the mask (line 53)
OnWritableKeepsOut ==
    /\ step = "out"
    /\ IF "out" \in event
       THEN taken < typed /\ taken' = taken + 1 /\ Modify(ev, "wait")
       ELSE step' = "wait" /\ UNCHANGED <<ev, wanted, taken>>
    /\ UNCHANGED <<stdin, event, typed>>

\* read() takes a line, and blocks while there is none.
OnWritable ==
    /\ step = "out"
    /\ IF "out" \in event
       THEN taken < typed /\ taken' = taken + 1 /\ Modify({"in"}, "wait")
       ELSE step' = "wait" /\ UNCHANGED <<ev, wanted, taken>>
    /\ UNCHANGED <<stdin, event, typed>>

ToggleLoop == ToggleWait \/ OnReadable \/ OnWritable

ToggleNext == ToggleLoop \/ Timeout \/ Type

ToggleSpec == ToggleInit /\ [][ToggleNext]_toggleVars /\ WF_toggleVars(ToggleLoop)

-----------------------------------------------------------------------------
(* The types of the variables.                                             *)
ToggleTypeOK ==
    /\ stdin \in {"terminal", "pipe", "file"} /\ step \in {"wait", "in", "out", "exit"}
    /\ ev \subseteq {"in", "out"} /\ wanted \subseteq ev /\ event \subseteq {"in", "out"}
    /\ typed \in 0 .. MaxLines /\ taken \in 0 .. typed

(* read() is called on EPOLLOUT, which says nothing of input; but as the   *)
(* mask is set back in time, it always finds some (lines 47-58).           *)
ToggleReadNeverBlocks == step = "out" /\ "out" \in event => taken < typed

(* On a terminal, all that is typed is read, as long as no timeout has     *)
(* removed it; no MOD fails, so the exits of lines 44 and 57 are not taken *)
(* though a timeout removes for good.  (On a pipe nothing is ever read.)   *)
InputRead ==
    taken < typed /\ stdin = "terminal" ~> (taken = typed \/ (wanted = {} /\ step = "wait"))
=============================================================================
