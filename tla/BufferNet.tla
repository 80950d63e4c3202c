----------------------------- MODULE BufferNet -----------------------------
(***************************************************************************)
(* buffer/bufferNetTest.cc and its clients (buffer/client.cc): a thread    *)
(* reads all that arrives, on its connections and on standard input, into  *)
(* one Buffer, while main() switches the interest in standard input on.    *)
(* The descriptor table matters: a number that is closed is given to the   *)
(* next connection, main() goes on naming standard input by its number,    *)
(* and epoll drops a registration with the file, not with the number.      *)
(***************************************************************************)
EXTENDS VectorBuffer, SequencesExt

CONSTANTS
    NClients,
    Fds,            \* the numbers of the table that can be taken; 0 is STDIN_FILENO
    listenfd,
    SeparatorLen,   \* the length of the line that is appended after every read: 41
    MaxSent,        \* bound: bytes that standard input and each client send
    Resettable      \* bound: clients whose connection may be reset

\* The listening socket does not take the number of standard input.
ASSUME NetAssumption ==
    /\ NClients \in Nat
    /\ Fds \subseteq Nat /\ IsFiniteSet(Fds)
    /\ 0 \in Fds /\ listenfd \in Fds \ {0}
    /\ SeparatorLen \in Nat \ {0} /\ SeparatorLen <= Word \div 4
    /\ MaxSent \in [0 .. NClients -> Nat]
    /\ Resettable \subseteq 1 .. NClients

\* Files are numbered: the input and the clients, the listening socket, None.
Stdin == 0
Clients == 1 .. NClients
Sources == Clients \cup {Stdin}
Listener == NClients + 1
Files == Sources \cup {Listener}
None == NClients + 2

VARIABLES
    table,          \* the file that a number stands for
    interest,       \* the epoll instance: the events wanted of a file, under a number
    tty,            \* is standard input a terminal, open under 1 and 2 as well? or a pipe
    main,           \* where main() is
    at, fd,         \* where the thread is; the descriptor it works on, or listenfd
    batch,          \* the events it has not handled yet
    backlog,        \* connections to be accepted
    peer,           \* the other end of a source
    sent, got,      \* bytes sent, and bytes read from it
    buf

netVars == <<table, interest, tty, main, at, fd, batch, backlog, peer, sent, got, buf>>

server == <<table, interest, at, fd, batch, buf>>
others == <<tty, main, backlog, peer, sent, got>>

\* The i-th byte of a source, and the line that closes a chunk.
Byte(f, i) == i * (NClients + 1) + f
Separator == 0
SeparatorLine == [i \in 1 .. SeparatorLen |-> Separator]
From(b) == b % (NClients + 1)
Chunk(f, n) == [i \in 1 .. n |-> Byte(f, got[f] + i)]

NetInit ==
    /\ table = [n \in Fds |-> IF n = 0 THEN Stdin ELSE IF n = listenfd THEN Listener ELSE None]
    /\ interest = [k \in Files \X Fds |-> IF k = <<Listener, listenfd>> THEN "in" ELSE "absent"]
    /\ tty \in BOOLEAN
    /\ main = "add" /\ at = "loop" /\ fd = listenfd /\ batch = <<>>
    /\ backlog = <<>>
    /\ peer = [f \in Sources |-> IF f = Stdin THEN "open" ELSE "away"]
    /\ sent = [f \in Sources |-> 0] /\ got = sent
    /\ buf = EmptyBuffer

Ended == buf.status # "ok"

-----------------------------------------------------------------------------
(* epoll_ctl(): it fails on a number that stands for nothing, ADD on what  *)
(* is registered and MOD and DEL on what is not, and nobody looks.  (It    *)
(* refuses a regular file as well: standard input is not redirected here.) *)
Key(n) == <<table[n], n>>
Registered(n) == table[n] # None /\ interest[Key(n)] # "absent"

CtlAdd(n, events) ==
    interest' = IF table[n] = None \/ Registered(n) THEN interest ELSE [interest EXCEPT ![Key(n)] = events]

CtlMod(n, events) ==
    interest' = IF Registered(n) THEN [interest EXCEPT ![Key(n)] = events] ELSE interest

CtlDel(n) ==
    interest' = IF Registered(n) THEN [interest EXCEPT ![Key(n)] = "absent"] ELSE interest

\* close(): the registration goes with the last number of the file.
CloseFd(n) ==
    /\ table' = [table EXCEPT ![n] = None]
    /\ interest' = IF table[n] = Stdin /\ tty THEN interest ELSE [interest EXCEPT ![Key(n)] = "absent"]

-----------------------------------------------------------------------------
Readable(f) ==
    IF f = Listener THEN backlog # <<>> ELSE got[f] < sent[f] \/ peer[f] \in {"closed", "reset"}

\* EPOLLHUP alone, of which the loop takes no notice, is left out.
Ready == {k \in DOMAIN interest : interest[k] = "in" /\ Readable(k[1])}

NetWait ==
    /\ at = "loop" /\ batch = <<>> /\ Ready # {}
    /\ batch' \in SetToSeqs(Ready)
    /\ UNCHANGED <<table, interest, at, fd, buf, others>>

\* If the table is full accept() returns -1, and the ADD of -1 fails as well.
AcceptOne ==
    LET free == {n \in Fds : table[n] = None}
    IN  /\ batch # <<>> /\ Head(batch)[2] = listenfd /\ backlog # <<>>
        /\ \/ free = {} /\ UNCHANGED <<table, at, fd, backlog>>
           \/ \E n \in free :
                 /\ \A m \in free : n <= m
                 /\ table' = [table EXCEPT ![n] = Head(backlog)]
                 /\ backlog' = Tail(backlog)
                 /\ at' = "add" /\ fd' = n
        /\ UNCHANGED <<interest, tty, main, peer, sent, got, buf>>

\* mutation: accept() until there is no connection left
AcceptsUntilEmpty == AcceptOne /\ UNCHANGED batch

Accept == AcceptOne /\ batch' = Tail(batch)

Add(events) ==
    /\ at = "add" /\ at' = "loop"
    /\ CtlAdd(fd, events) /\ fd' = listenfd
    /\ UNCHANGED <<table, batch, buf, others>>

\* mutation: the event mask of the new connection is left empty
AddsWithoutEvents == Add("off")

AddConnection == Add("in")

\* mutation: the separator comes first
SeparatesFirst(b, bytes) == UNION {readFd(e, bytes, Len(bytes)) : e \in append(b, SeparatorLine, SeparatorLen)}

\* readFd() and, if the program goes on, append() of the line.
ReadAndSeparate(b, bytes) ==
    UNION {IF e.status = "ok" THEN append(e, SeparatorLine, SeparatorLen) ELSE {e} :
              e \in readFd(b, bytes, Len(bytes))}

\* The event at hand, which is not one of listenfd.
Event(n) == batch # <<>> /\ n = Head(batch)[2] /\ n # listenfd /\ batch' = Tail(batch)

Read ==
    \E n \in Fds :
        /\ Event(n) /\ table[n] # None
        /\ LET f == table[n]
           IN  \E len \in 1 .. (sent[f] - got[f]) :
                  /\ len <= MaxRead(buf)
                  /\ buf' \in ReadAndSeparate(buf, Chunk(f, len))
                  /\ got' = [got EXCEPT ![f] = @ + len]
        /\ UNCHANGED <<table, interest, at, fd, tty, main, backlog, peer, sent>>

\* readFd() returns 0.  A terminal reports the end once and may go on.
AtEnd(n) ==
    LET f == table[n]
    IN  /\ Event(n) /\ f # None /\ got[f] = sent[f] /\ peer[f] = "closed"
        /\ at' = "del" /\ fd' = n
        /\ peer' = IF f = Stdin /\ tty THEN [peer EXCEPT ![f] = "open"] ELSE peer
        /\ UNCHANGED <<buf, tty, main, backlog, sent, got>>

\* mutation: the registration is removed and the descriptor forgotten
ForgetsFd == \E n \in Fds : AtEnd(n) /\ CtlDel(n) /\ UNCHANGED table

EndOfStream == \E n \in Fds : AtEnd(n) /\ CloseFd(n)

DelConnection ==
    /\ at = "del" /\ at' = "loop"
    /\ CtlDel(fd) /\ fd' = listenfd
    /\ UNCHANGED <<table, batch, buf, others>>

\* readv() fails: the number stands for nothing, or the connection was reset.
ReadError ==
    \E n \in Fds :
        /\ Event(n)
        /\ table[n] # None => peer[table[n]] = "reset" /\ got[table[n]] = sent[table[n]]
        /\ buf' \in readFd(buf, <<>>, Word - 1)
        /\ UNCHANGED <<table, interest, at, fd, others>>

Handle == at = "loop" /\ (Accept \/ Read \/ EndOfStream \/ ReadError)

threadFunc == ~ Ended /\ (NetWait \/ Handle \/ AddConnection \/ DelConnection)

-----------------------------------------------------------------------------
MainAdd ==
    /\ main = "add" /\ main' = "loop"
    /\ CtlAdd(0, "off")
    /\ UNCHANGED <<table, at, fd, batch, buf, tty, backlog, peer, sent, got>>

\* mutation: ev is kept, and EPOLLIN goes in and out of it
MainToggles ==
    /\ main = "loop" /\ CtlMod(0, IF Registered(0) /\ interest[Key(0)] = "in" THEN "off" ELSE "in")
    /\ UNCHANGED <<table, at, fd, batch, buf, others>>

MainMod ==
    /\ main = "loop" /\ CtlMod(0, "in")
    /\ UNCHANGED <<table, at, fd, batch, buf, others>>

Main == ~ Ended /\ (MainAdd \/ MainMod)

-----------------------------------------------------------------------------
(* The clients, the typist, and the network that may reset a connection.   *)
Connect(c) ==
    /\ peer[c] = "away" /\ peer' = [peer EXCEPT ![c] = "open"]
    /\ backlog' = Append(backlog, c)
    /\ UNCHANGED <<server, tty, main, sent, got>>

Send(f) ==
    /\ peer[f] = "open" /\ sent[f] < MaxSent[f]
    /\ sent' = [sent EXCEPT ![f] = @ + 1]
    /\ UNCHANGED <<server, tty, main, backlog, peer, got>>

Leave(f) ==
    /\ peer[f] = "open"
    /\ \E how \in IF f \in Resettable THEN {"closed", "reset"} ELSE {"closed"} : peer' = [peer EXCEPT ![f] = how]
    /\ UNCHANGED <<server, tty, main, backlog, sent, got>>

Environment == ~ Ended /\ ((\E c \in Clients : Connect(c)) \/ (\E f \in Sources : Send(f) \/ Leave(f)))

NetNext == threadFunc \/ Main \/ Environment

NetFairness == WF_netVars(threadFunc) /\ WF_netVars(MainAdd) /\ WF_netVars(MainMod)

NetSpec == NetInit /\ [][NetNext]_netVars /\ NetFairness

-----------------------------------------------------------------------------
(* The types of the variables.                                             *)
NetTypeOK ==
    /\ table \in [Fds -> Files \cup {None}]
    /\ interest \in [Files \X Fds -> {"absent", "off", "in"}]
    /\ tty \in BOOLEAN /\ main \in {"add", "loop"}
    /\ at \in {"loop", "add", "del"} /\ fd \in Fds
    /\ batch \in Seq(Files \X Fds) /\ backlog \in Seq(Clients)
    /\ peer \in [Sources -> {"away", "open", "closed", "reset"}]
    /\ \A f \in Sources : got[f] \in 0 .. sent[f] /\ sent[f] \in 0 .. MaxSent[f]

(* Has the terminal's end been read?  Its registration survives close(0):  *)
(* what is typed later is taken for an event of whatever number 0 has      *)
(* become.                                                                 *)
StdinAstray == tty /\ table[0] # Stdin

(* The buffer holds all that was read, each source's bytes in the order    *)
(* sent and every chunk closed by one separator line before the next one   *)
(* (bufferNetTest.cc:72-76), through every growth of the vector.           *)
BytesRead == UNION {{Byte(f, i) : i \in 1 .. got[f]} : f \in Sources}

InOrder(w) ==
    \A i, j \in 1 .. Len(w) :
        (i < j /\ w[i] # Separator /\ w[j] # Separator /\ From(w[i]) = From(w[j])) => w[i] < w[j]

\* One separator line, whole and no more, after the byte at i.
ClosedAfter(w, i) ==
    /\ i \in 1 .. Len(w) - SeparatorLen
    /\ w[i] # Separator
    /\ \A k \in i + 1 .. i + SeparatorLen : w[k] = Separator
    /\ i + SeparatorLen < Len(w) => w[i + SeparatorLen + 1] # Separator

\* No chunk is empty, none mixes the bytes of two sources, and no separator
\* line is cut.
InChunks(w) ==
    /\ \A k \in 1 .. Len(w) :
          w[k] = Separator => \E i \in 1 .. Len(w) : ClosedAfter(w, i) /\ k \in i + 1 .. i + SeparatorLen
    /\ \A i \in 1 .. Len(w) - 1 :
          (w[i] # Separator /\ w[i + 1] # Separator) => From(w[i]) = From(w[i + 1])

Holding(w) == {w[i] : i \in {j \in 1 .. Len(w) : w[j] # Separator}}

ChunksIntact ==
    LET w == window(buf)
    IN  ~ Ended => /\ Holding(w) = BytesRead
                   /\ InOrder(w) /\ InChunks(w)
                   /\ w # <<>> => w[Len(w)] = Separator

(* A connection that has a descriptor is watched, except between accept()  *)
(* and the ADD (lines 58-64): main(), which takes 0 for standard input     *)
(* whatever it has become (line 118), does not switch it off.              *)
EveryConnectionWatched ==
    \A n \in Fds : (table[n] \in Clients /\ ~ (at = "add" /\ fd = n)) => interest[Key(n)] = "in"

(* accept() and readv() block, and are called only for what is ready; the  *)
(* batch is never ahead of the table, unless standard input has gone       *)
(* astray.                                                                 *)
NoCallBlocks ==
    ~ StdinAstray =>
        \A k \in Range(batch) : table[k[2]] = k[1] /\ Readable(k[1])

(* The program ends by a failed readv(), on a connection that was reset or *)
(* on a terminal gone astray, or because nothing is ever taken out of the  *)
(* buffer (line 76); but the vector does not throw before half of what it  *)
(* may grow to is in use, and that takes at least a byte read for every    *)
(* separator line in it.                                                   *)
StaysUp ==
    Ended => \/ StdinAstray
             \/ \E c \in Clients : peer[c] = "reset"
             \/ buf.status = "throw" /\ 2 * (1 + SeparatorLen) * Cardinality(BytesRead) > MaxSize - kinitSize

Full == None \notin {table[n] : n \in Fds}

(* All that is sent is read: as clients send only so much, a time comes    *)
(* when nothing waits, unless the table gets full before a connection is   *)
(* accepted, the program ends or standard input is astray.                 *)
EveryByteRead ==
    (\E f \in Sources : got[f] < sent[f])
        ~> ((\A f \in Sources : got[f] = sent[f]) \/ Full \/ Ended \/ StdinAstray)

Holds(c) == \E n \in Fds : table[n] = c

(* The descriptor of a connection that was closed is given back (lines     *)
(* 80-84).                                                                 *)
ClosedReleased ==
    (\E c \in Clients : peer[c] = "closed" /\ Holds(c))
        ~> ((\A c \in Clients : peer[c] = "closed" => ~ Holds(c)) \/ Ended \/ StdinAstray)
=============================================================================
