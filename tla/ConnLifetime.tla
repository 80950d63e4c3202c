---------------------------- MODULE ConnLifetime ----------------------------
(***************************************************************************)
(* epollTest/threadWIthEpoll.cc, the experiment on the life of a           *)
(* Connection.  The acceptor's thread sets Connections up; ten seconds     *)
(* after the start main() clears the Event of the first one in connlist,   *)
(* whose two ConnectionPtr make the Connection own itself, and then erases *)
(* the first one from connlist.  The loops copy a callback and call the    *)
(* copy, whose ConnectionPtr keeps the Connection for the length of the    *)
(* call.  Nothing is locked, descriptors are never closed, and epoll goes  *)
(* on returning the bare pointer to an Event.                              *)
(*                                                                         *)
(* Server(4) has three loops besides the acceptor's: each connection has   *)
(* one of its own here.                                                    *)
(***************************************************************************)
EXTENDS FiniteSetsExt, Integers

CONSTANTS
    N,              \* number of connections
    MaxSent,        \* bound: how often a client sends
    PerRead         \* how many sends of a client (5 bytes) fit into callback()'s tmp: 2

ASSUME SizeAssumption == N \in 1 .. 3 /\ MaxSent \in Nat /\ PerRead \in Nat \ {0}

VARIABLES
    refs,           \* who holds a ConnectionPtr to a Connection; nobody: it is gone
    noFd,           \* the Connections whose _ev has -1 for a descriptor
    laterFirst,     \* does a later name sort first, as "conn10" before "conn9"?
    accPc, conn,    \* where logic() is, and the last connection it accepted
    mainPc,         \* where main() is
    tmp, erased,    \* the connection it clears, and the one it has erased
    setUp,          \* history: had logic() returned for tmp when it took that?
    loopPc, func,   \* where the loop of a connection is; its copy of readCallback
    arrived,        \* connections that clients have made
    unread, sent,   \* what a client has sent, and what is unread of it
    closed,         \* has the client closed its end?
    ended           \* "no", "exit", or the undefined behaviour that was met

accVars == <<accPc, conn>>
mainVars == <<mainPc, tmp, erased, setUp>>
loopVars == <<loopPc, func>>
peerVars == <<arrived, unread, sent, closed>>
vars == <<refs, noFd, laterFirst, accVars, mainVars, loopVars, peerVars, ended>>

Conns == 1 .. N

\* The holders: connptr in logic(), connlist, _ev._conn, what _ev.readCallback
\* has bound, what the loop's func has bound, and the argument of callback().
Holders == {"connptr", "connlist", "evConn", "evCallback", "func", "argument"}

Init ==
    /\ refs = [c \in Conns |-> {}] /\ noFd = {} /\ laterFirst \in BOOLEAN
    /\ accPc = "wait" /\ conn = 0
    /\ mainPc = "sleep" /\ tmp = 0 /\ erased = 0 /\ setUp = FALSE
    /\ loopPc = [c \in Conns |-> "none"] /\ func = [c \in Conns |-> "none"]
    /\ arrived = 0 /\ unread = [c \in Conns |-> 0] /\ sent = unread
    /\ closed = [c \in Conns |-> FALSE]
    /\ ended = "no"

Running == ended = "no"

\* A Connection goes, and its Event with it, when the last ConnectionPtr goes.
Alive(c) == refs[c] # {}
Drop(c, holders) == refs' = [refs EXCEPT ![c] = @ \ holders]
Take(c, holders) == refs' = [refs EXCEPT ![c] = @ \cup holders]

connlist == {c \in Conns : "connlist" \in refs[c]}
begin == IF laterFirst THEN Max(connlist) ELSE Min(connlist)

-----------------------------------------------------------------------------
(* The clients (epollTest/client2.cc).                                     *)
Connect ==
    /\ arrived < N /\ arrived' = arrived + 1
    /\ UNCHANGED <<refs, noFd, accVars, mainVars, loopVars, unread, sent, closed, ended>>

Send(c) ==
    /\ c <= arrived /\ sent[c] < MaxSent /\ ~ closed[c]
    /\ sent' = [sent EXCEPT ![c] = @ + 1] /\ unread' = [unread EXCEPT ![c] = @ + 1]
    /\ UNCHANGED <<refs, noFd, accVars, mainVars, loopVars, arrived, closed, ended>>

Close(c) ==
    /\ c <= arrived /\ ~ closed[c]
    /\ closed' = [closed EXCEPT ![c] = TRUE]
    /\ UNCHANGED <<refs, noFd, accVars, mainVars, loopVars, arrived, unread, sent, ended>>

-----------------------------------------------------------------------------
(* Acceptor::logic().                                                      *)
AcceptOne(holders) ==
    /\ accPc = "wait"
    /\ conn' = conn + 1 /\ Take(conn + 1, holders)
    /\ accPc' = "accepted"
    /\ UNCHANGED <<noFd, mainVars, loopVars, peerVars, ended>>

\* mutation: setConn() is left out (line 262)
AcceptsUnowned == conn < arrived /\ AcceptOne({"connptr"})

\* mutation: accept() is called for every event, whoever it is for
AcceptsNobody == conn < N /\ AcceptOne({"connptr", "evConn"})

Accept == conn < arrived /\ AcceptOne({"connptr", "evConn"})

\* It walks through connlist, inserts and walks again: main() may be there too.
ListBegins ==
    /\ accPc = "accepted" /\ accPc' = "listing"
    /\ UNCHANGED <<refs, noFd, conn, mainVars, loopVars, peerVars, ended>>

ListEnds ==
    /\ accPc = "listing" /\ accPc' = "listed"
    /\ Take(conn, {"connlist"})
    /\ UNCHANGED <<noFd, conn, mainVars, loopVars, peerVars, ended>>

\* The callback gets a copy of _conn, which main() may have cleared.
SetReadCallback ==
    /\ accPc = "listed" /\ accPc' = "bound"
    /\ IF "evConn" \in refs[conn] THEN Take(conn, {"evCallback"}) ELSE UNCHANGED refs
    /\ UNCHANGED <<noFd, conn, mainVars, loopVars, peerVars, ended>>

\* mutation: EPOLLIN is left out (line 332)
RegistersNothing ==
    /\ accPc = "bound" /\ accPc' = "registered"
    /\ loopPc' = [loopPc EXCEPT ![conn] = "deaf"]
    /\ UNCHANGED <<refs, noFd, conn, func, mainVars, peerVars, ended>>

\* Without a callback no event is asked for; the ADD of -1 ends the program.
registerLoop ==
    /\ accPc = "bound" /\ accPc' = "registered"
    /\ IF conn \in noFd THEN ended' = "exit" /\ UNCHANGED loopPc
       ELSE /\ loopPc' = [loopPc EXCEPT ![conn] = IF "evCallback" \in refs[conn] THEN "wait" ELSE "deaf"]
            /\ UNCHANGED ended
    /\ UNCHANGED <<refs, noFd, conn, func, mainVars, peerVars>>

LogicReturns ==
    /\ accPc = "registered" /\ accPc' = "wait"
    /\ Drop(conn, {"connptr"})
    /\ UNCHANGED <<noFd, conn, mainVars, loopVars, peerVars, ended>>

logic == Accept \/ ListBegins \/ ListEnds \/ SetReadCallback \/ registerLoop \/ LogicReturns

-----------------------------------------------------------------------------
(* main().  A map that is used while logic() changes it may break.         *)
MapBreaks == accPc = "listing" /\ ended' = "map"

Begin ==
    /\ mainPc = "sleep" /\ mainPc' = "begun"
    /\ IF connlist = {} THEN ended' = "empty" /\ UNCHANGED <<tmp, setUp>>
       ELSE /\ tmp' = begin /\ setUp' = (conn # begin \/ accPc = "wait")
            /\ UNCHANGED ended \/ MapBreaks
    /\ UNCHANGED <<refs, noFd, accVars, erased, loopVars, peerVars>>

\* mutation: the Event is not cleared, line 396 left out
ClearsNothing ==
    /\ mainPc = "begun" /\ mainPc' = "halfCleared"
    /\ UNCHANGED <<refs, noFd, accVars, tmp, erased, setUp, loopVars, peerVars, ended>>

(* _ev = Event(-1) assigns the members in their order: readCallback, _fd   *)
(* and then _conn.                                                         *)
ClearCallback ==
    /\ mainPc = "begun" /\ mainPc' = "halfCleared"
    /\ Drop(tmp, {"evCallback"})
    /\ UNCHANGED <<noFd, accVars, tmp, erased, setUp, loopVars, peerVars, ended>>

ClearFd ==
    /\ mainPc = "halfCleared" /\ tmp \notin noFd
    /\ noFd' = noFd \cup {tmp}
    /\ UNCHANGED <<refs, accVars, mainVars, loopVars, peerVars, ended>>

ClearConn ==
    /\ mainPc = "halfCleared" /\ tmp \in noFd /\ mainPc' = "cleared"
    /\ Drop(tmp, {"evConn"})
    /\ UNCHANGED <<noFd, accVars, tmp, erased, setUp, loopVars, peerVars, ended>>

\* begin() is taken again: a connection whose name sorts first goes instead.
Erase ==
    /\ mainPc = "cleared" /\ mainPc' = "erased"
    /\ erased' = begin
    /\ Drop(begin, {"connlist"})
    /\ UNCHANGED ended \/ MapBreaks
    /\ UNCHANGED <<noFd, accVars, tmp, setUp, loopVars, peerVars>>

\* The count is read through tmp, which points into the node that was erased.
PrintCount ==
    /\ mainPc = "erased" /\ mainPc' = "printed"
    /\ UNCHANGED ended \/ (erased = tmp /\ ended' = "freed")
    /\ UNCHANGED <<refs, noFd, accVars, tmp, erased, setUp, loopVars, peerVars>>

-----------------------------------------------------------------------------
(* EventLoop::loop().                                                      *)
EpollWait(c) ==
    /\ loopPc[c] = "wait" /\ (unread[c] > 0 \/ closed[c])
    /\ loopPc' = [loopPc EXCEPT ![c] = "event"]
    /\ UNCHANGED <<refs, noFd, accVars, mainVars, func, peerVars, ended>>

(* func = readCallback of the Event at data.ptr: the copy first looks      *)
(* whether there is a callback, and then clones what it has bound.         *)
CopyBegins(c) ==
    /\ loopPc[c] = "event"
    /\ IF Alive(c)
         THEN /\ loopPc' = [loopPc EXCEPT ![c] = "copying"]
              /\ func' = [func EXCEPT ![c] = IF "evCallback" \in refs[c] THEN "set" ELSE "null"]
              /\ UNCHANGED ended
         ELSE ended' = "event" /\ UNCHANGED loopVars
    /\ UNCHANGED <<refs, noFd, accVars, mainVars, peerVars>>

CopyTo(c, holders) ==
    /\ loopPc[c] = "copying"
    /\ \/ /\ func[c] = "set" /\ "evCallback" \notin refs[c]
          /\ ended' = "race" /\ UNCHANGED <<refs, loopPc>>
       \/ /\ func[c] = "set" => "evCallback" \in refs[c]
          /\ loopPc' = [loopPc EXCEPT ![c] = "copied"]
          /\ IF func[c] = "set" THEN Take(c, holders) ELSE UNCHANGED refs
          /\ UNCHANGED ended
    /\ UNCHANGED <<noFd, accVars, mainVars, func, peerVars>>

\* mutation: the copy binds a bare pointer, which owns nothing
CopyOwnsNothing(c) == CopyTo(c, {})

CopyEnds(c) == CopyTo(c, {"func"})

\* After the sleep of two seconds.
Call(c) ==
    /\ loopPc[c] = "copied" /\ func[c] = "set" /\ loopPc' = [loopPc EXCEPT ![c] = "calling"]
    /\ Take(c, {"argument"})
    /\ UNCHANGED <<noFd, accVars, mainVars, func, peerVars, ended>>

ExitOnNull(c) ==
    /\ loopPc[c] = "copied" /\ func[c] = "null"
    /\ ended' = "exit"
    /\ UNCHANGED <<refs, noFd, accVars, mainVars, loopVars, peerVars>>

\* callback() reads what fits; it and func then give their ConnectionPtr back.
CallReturns(c) ==
    /\ loopPc[c] = "calling" /\ loopPc' = [loopPc EXCEPT ![c] = "wait"]
    /\ unread' = [unread EXCEPT ![c] = IF @ < PerRead THEN 0 ELSE @ - PerRead]
    /\ func' = [func EXCEPT ![c] = "none"]
    /\ Drop(c, {"func", "argument"})
    /\ UNCHANGED <<noFd, accVars, mainVars, arrived, sent, closed, ended>>

-----------------------------------------------------------------------------
Main == Begin \/ ClearCallback \/ ClearFd \/ ClearConn \/ Erase \/ PrintCount

loop(c) ==
    EpollWait(c) \/ CopyBegins(c) \/ CopyEnds(c) \/ Call(c) \/ ExitOnNull(c) \/ CallReturns(c)

Client == Connect \/ \E c \in Conns : Send(c) \/ Close(c)

Step(A) == Running /\ A /\ UNCHANGED laterFirst

Next == Step(Client) \/ Step(logic) \/ Step(Main) \/ \E c \in Conns : Step(loop(c))

Spec == Init /\ [][Next]_vars

(* All threads keep running.                                               *)
FairSpec ==
    /\ Spec
    /\ WF_vars(Step(logic)) /\ WF_vars(Step(Main))
    /\ \A c \in Conns : WF_vars(Step(loop(c)))

-----------------------------------------------------------------------------
(* The types of the variables.                                             *)
TypeOK ==
    /\ refs \in [Conns -> SUBSET Holders] /\ noFd \subseteq Conns
    /\ laterFirst \in BOOLEAN /\ setUp \in BOOLEAN
    /\ accPc \in {"wait", "accepted", "listing", "listed", "bound", "registered"}
    /\ conn \in 0 .. arrived /\ arrived \in 0 .. N
    /\ mainPc \in {"sleep", "begun", "halfCleared", "cleared", "erased", "printed"}
    /\ tmp \in 0 .. N /\ erased \in 0 .. N
    /\ loopPc \in [Conns -> {"none", "deaf", "wait", "event", "copying", "copied", "calling"}]
    /\ func \in [Conns -> {"none", "null", "set"}]
    /\ unread \in [Conns -> 0 .. MaxSent] /\ sent \in [Conns -> 0 .. MaxSent]
    /\ closed \in [Conns -> BOOLEAN]
    /\ ended \in {"no", "exit", "empty", "map", "freed", "event", "race"}

(* Copying the callback keeps the Connection for the length of the call    *)
(* (the comment at line 356), wherever main() and logic() are.             *)
AliveDuringCall ==
    \A c \in Conns : loopPc[c] = "calling" \/ (loopPc[c] = "copied" /\ func[c] = "set") => Alive(c)

(* A Connection owns itself: only the one that main() has both cleared and *)
(* erased is ever destroyed.  If another name has come to sort first in    *)
(* between, that one leaves connlist and lives on.                         *)
OnlyClearedDie ==
    \A c \in Conns : c <= conn /\ ~ Alive(c) => tmp = c /\ erased = c

(* Once the Event is cleared and connlist has let go, the Connection is    *)
(* destroyed, at once or after the call (the comments at lines 400-401),   *)
(* unless the process ends first or main() came before logic() was done:   *)
(* a callback set after it was cleared keeps the Connection for ever.      *)
DestroyedInTheEnd ==
    \A c \in Conns : (erased = c /\ tmp = c /\ setUp) ~> (~ Alive(c) \/ ~ Running)

(* A Connection that main() does not clear is served, also after it has    *)
(* been erased from connlist.                                              *)
OthersServed ==
    \A c \in Conns : unread[c] > 0 ~> (unread[c] = 0 \/ tmp = c \/ ~ Running)

(* The life of a descriptor is managed (request.md:4): epoll never hands   *)
(* the loop the Event of a Connection that is gone.                        *)
EpollPointsToEvents == ended # "event"
=============================================================================
