------------------------------ MODULE Reactor ------------------------------
(***************************************************************************)
(* demo/threadWIthEpoll.cc: a server of Num event loops, each a thread     *)
(* around epoll_wait().  main() registers the acceptor with one loop and   *)
(* starts the threads; the acceptor's callback hands every accepted        *)
(* connection to the next loop in turn, by an epoll_ctl() on the epoll     *)
(* instance that the other thread may be waiting on.                       *)
(*                                                                         *)
(* The kernel is modelled as the program uses it: a listening socket whose *)
(* queue of completed connections survives the peer's close, and           *)
(* level-triggered EPOLLIN on blocking sockets, which is reported for as   *)
(* long as data or the end of the stream is unread.                        *)
(***************************************************************************)
EXTENDS Integers, Sequences, FiniteSets, Functions

CONSTANTS
    Num,            \* the number of loops: 4
    Client,         \* the clients; each connects at most once
    Acceptor,       \* the acceptor's Event
    NoConn,         \* no connection
    MaxEvents,      \* how many events epoll_wait() may return: 188
    ReadMax,        \* how much one read() takes: 1000 bytes
    MaxSent,        \* bound: how much a client sends
    FdLimit         \* how many connections there are descriptors for

ASSUME ReactorAssumption ==
    /\ Num \in Nat \ {0} /\ MaxEvents \in Nat \ {0} /\ ReadMax \in Nat \ {0}
    /\ MaxSent \in Nat /\ FdLimit \in Nat
    /\ Acceptor \notin Client /\ NoConn \notin Client

Loop == 0 .. Num - 1

VARIABLES
    mainPc,         \* 0: before registerLoop(); n + 1: n loops are started
    cur,            \* Server::cur, the loop whose turn is next
    connlist,       \* the Connections, by the loop of their _loopptr
    interest,       \* what is registered with each loop's epoll instance
    batch,          \* what is left of the events each loop is handling
    accepting,      \* the connection each loop's logic() is setting up
    exited,         \* has addFd() called exit(-1)?
    backlog,        \* connections completed and not accepted yet
    peer,           \* what each client's end of the connection is
    sent, unread    \* how much each client has sent, and is not read yet

serverVars == <<mainPc, cur, connlist, interest, batch, accepting, exited>>
peerVars == <<backlog, peer, sent, unread>>
vars == <<serverVars, peerVars>>

\* The state after the constructors of Server and Acceptor, which listens.
Init ==
    /\ mainPc = 0 /\ cur = 0 /\ connlist = <<>>
    /\ interest = [l \in Loop |-> {}]
    /\ batch = [l \in Loop |-> {}]
    /\ accepting = [l \in Loop |-> NoConn]
    /\ exited = FALSE
    /\ backlog = <<>>
    /\ peer = [c \in Client |-> "idle"]
    /\ sent = [c \in Client |-> 0] /\ unread = [c \in Client |-> 0]

-----------------------------------------------------------------------------
(* The clients (client2.cc): they connect, send and close.                 *)
Connect(c) ==
    /\ peer[c] = "idle"
    /\ peer' = [peer EXCEPT ![c] = "open"]
    /\ backlog' = Append(backlog, c)
    /\ UNCHANGED <<serverVars, sent, unread>>

Send(c) ==
    /\ peer[c] = "open" /\ sent[c] < MaxSent
    /\ sent' = [sent EXCEPT ![c] = @ + 1]
    /\ unread' = [unread EXCEPT ![c] = @ + 1]
    /\ UNCHANGED <<serverVars, backlog, peer>>

Close(c) ==
    /\ peer[c] = "open"
    /\ peer' = [peer EXCEPT ![c] = "closed"]
    /\ UNCHANGED <<serverVars, backlog, sent, unread>>

\* A callback on one of these events does not block.
Ready ==
    (IF backlog # <<>> THEN {Acceptor} ELSE {})
        \cup {c \in Client : unread[c] > 0 \/ peer[c] = "closed"}

-----------------------------------------------------------------------------
\* mutations: `cur > _num`; `cur >= _num - 1`
NextLoopTooLate == cur' = IF cur + 1 > Num THEN 0 ELSE cur + 1

NextLoopTooEarly == cur' = IF cur + 1 >= Num - 1 THEN 0 ELSE cur + 1

(* getNextLoop(): the loop is cur, and the turn goes on.                   *)
getNextLoop == cur' = IF cur + 1 >= Num THEN 0 ELSE cur + 1

\* mutation: the acceptor is registered with every loop
RegistersEverywhere ==
    /\ mainPc = 0
    /\ interest' = [l \in Loop |-> interest[l] \cup {Acceptor}]
    /\ getNextLoop
    /\ mainPc' = 1
    /\ UNCHANGED <<connlist, batch, accepting, exited, peerVars>>

(* main(): register the acceptor, then start the loops one by one.         *)
RegisterAcceptor ==
    /\ mainPc = 0
    /\ interest' = [interest EXCEPT ![cur] = @ \cup {Acceptor}]
    /\ getNextLoop
    /\ mainPc' = 1
    /\ UNCHANGED <<connlist, batch, accepting, exited, peerVars>>

\* mutation: the last loop is not started
StartsOneTooFew ==
    /\ ~ exited /\ mainPc \in 1 .. Num - 1
    /\ mainPc' = mainPc + 1
    /\ UNCHANGED <<cur, connlist, interest, batch, accepting, exited, peerVars>>

StartLoop ==
    /\ ~ exited /\ mainPc \in 1 .. Num
    /\ mainPc' = mainPc + 1
    /\ UNCHANGED <<cur, connlist, interest, batch, accepting, exited, peerVars>>

Started(l) == ~ exited /\ l + 1 < mainPc

-----------------------------------------------------------------------------
(* EventLoop::loop(): wait for events, then call back for each of them.    *)
EpollWait(l) ==
    /\ Started(l) /\ batch[l] = {} /\ accepting[l] = NoConn
    /\ \E events \in SUBSET (Ready \cap interest[l]) :
           /\ events # {}
           /\ \/ events = Ready \cap interest[l] /\ Cardinality(events) <= MaxEvents
              \/ Cardinality(events) = MaxEvents
           /\ batch' = [batch EXCEPT ![l] = events]
    /\ UNCHANGED <<mainPc, cur, connlist, interest, accepting, exited, peerVars>>

Handles(l, e) ==
    /\ Started(l) /\ accepting[l] = NoConn /\ e \in batch[l] \cap Ready
    /\ batch' = [batch EXCEPT ![l] = @ \ {e}]

(* Acceptor::logic(), up to registerLoop(): accept, pick a loop, make the  *)
(* Connection, keep it in connlist and set its callback.                   *)
Accept(l) ==
    /\ Handles(l, Acceptor)
    /\ Cardinality(DOMAIN connlist) < FdLimit
    /\ LET c == Head(backlog)
       IN  /\ connlist' = [d \in DOMAIN connlist \cup {c} |-> IF d = c THEN cur ELSE connlist[d]]
           /\ accepting' = [accepting EXCEPT ![l] = c]
    /\ backlog' = Tail(backlog)
    /\ getNextLoop
    /\ UNCHANGED <<mainPc, interest, exited, peer, sent, unread>>

(* Without a descriptor accept() returns -1, which is not looked at until  *)
(* epoll_ctl() fails on it and addFd() exits.                              *)
AcceptFails(l) ==
    /\ Handles(l, Acceptor)
    /\ ~ (Cardinality(DOMAIN connlist) < FdLimit)
    /\ exited' = TRUE
    /\ UNCHANGED <<mainPc, cur, connlist, interest, accepting, peerVars>>

\* mutation: registerLoop(_serv->getNextLoop())
RegistersWithNext(l) ==
    /\ Started(l) /\ accepting[l] # NoConn
    /\ interest' = [interest EXCEPT ![cur] = @ \cup {accepting[l]}]
    /\ getNextLoop
    /\ accepting' = [accepting EXCEPT ![l] = NoConn]
    /\ UNCHANGED <<mainPc, connlist, batch, exited, peerVars>>

(* registerLoop(): from here on the other loop's thread may call back.     *)
Register(l) ==
    /\ Started(l) /\ accepting[l] # NoConn
    /\ interest' = [interest EXCEPT ![connlist[accepting[l]]] = @ \cup {accepting[l]}]
    /\ accepting' = [accepting EXCEPT ![l] = NoConn]
    /\ UNCHANGED <<mainPc, cur, connlist, batch, exited, peerVars>>

(* callback(): one read(); its result is not looked at, and nothing is     *)
(* closed at the end of the stream.                                        *)
ReadCallback(l, c) ==
    /\ Handles(l, c)
    /\ unread' = [unread EXCEPT ![c] = IF @ > ReadMax THEN @ - ReadMax ELSE 0]
    /\ UNCHANGED <<mainPc, cur, connlist, interest, accepting, exited, backlog, peer, sent>>

-----------------------------------------------------------------------------
Main == RegisterAcceptor \/ StartLoop

LoopStep(l) ==
    \/ EpollWait(l) \/ Accept(l) \/ AcceptFails(l) \/ Register(l)
    \/ \E c \in Client : ReadCallback(l, c)

ClientStep(c) == Connect(c) \/ Send(c) \/ Close(c)

Next ==
    \/ Main
    \/ \E l \in Loop : LoopStep(l)
    \/ \E c \in Client : ClientStep(c)

Spec == Init /\ [][Next]_vars

(* The threads keep running.  A client need not do anything.               *)
Fairness == WF_vars(Main) /\ \A l \in Loop : WF_vars(LoopStep(l))

FairSpec == Spec /\ Fairness

-----------------------------------------------------------------------------
(* The types of the variables.  A loop outside Loop would be a name that   *)
(* looplist does not have, for which it makes a null pointer.              *)
TypeOK ==
    /\ mainPc \in 0 .. Num + 1 /\ cur \in Loop
    /\ DOMAIN connlist \subseteq Client /\ Range(connlist) \subseteq Loop
    /\ interest \in [Loop -> SUBSET (Client \cup {Acceptor})]
    /\ batch \in [Loop -> SUBSET (Client \cup {Acceptor})]
    /\ accepting \in [Loop -> Client \cup {NoConn}]
    /\ exited \in BOOLEAN
    /\ backlog \in Seq(Client)
    /\ peer \in [Client -> {"idle", "open", "closed"}]
    /\ sent \in [Client -> 0 .. MaxSent] /\ unread \in [Client -> 0 .. MaxSent]

(* One thread, one loop (request.md:6): a connection is registered with    *)
(* the loop that its Connection names and with no other, it is called back *)
(* by that loop's thread, and while epoll holds the bare pointer to its    *)
(* Event, connlist keeps the Connection alive.                             *)
OneLoopPerConnection ==
    \A l \in Loop :
        /\ batch[l] \subseteq interest[l]
        /\ \A c \in interest[l] \ {Acceptor} : c \in DOMAIN connlist /\ connlist[c] = l

(* The turns share connections out evenly, the acceptor counting as one    *)
(* (Server::getNextLoop(), lines 212-223).                                 *)
Load(l) ==
    Cardinality({c \in DOMAIN connlist : connlist[c] = l})
        + (IF l = 0 /\ mainPc > 0 THEN 1 ELSE 0)

Balanced == \A l, k \in Loop : Load(l) <= Load(k) + 1

(* What epoll_wait() reported still holds when the event's turn in the     *)
(* batch comes: the blocking accept() at line 251 and the blocking read()  *)
(* at line 353 never stop a loop.                                          *)
NeverBlocks == \A l \in Loop : batch[l] \subseteq Ready

(* All that a client sends is read in the end, whichever loop it is given  *)
(* to, started or not yet when the connection is registered, unless the    *)
(* server exits for want of a descriptor.                                  *)
EverySentIsRead ==
    \A c \in Client : \A n \in 1 .. MaxSent :
        sent[c] >= n ~> sent[c] - unread[c] >= n \/ exited
=============================================================================
