-------------------------- MODULE BufferNetProofs --------------------------
(***************************************************************************)
(* For any number of clients and any descriptor table: what bufferNetTest  *)
(* does to its epoll instance never switches a connection off.             *)
(*                                                                         *)
(* The property is not inductive.  It needs that main() has done its ADD   *)
(* before number 0 can become a connection's, that a number is closed when *)
(* the DEL names it, and that no connection is ever registered for nothing.*)
(***************************************************************************)
EXTENDS BufferNet, VectorBufferProofs, FiniteSetTheorems

Keys == Files \X Fds

Typed ==
    /\ table \in [Fds -> Files \cup {None}]
    /\ interest \in [Keys -> {"absent", "off", "in"}]
    /\ fd \in Fds /\ batch \in Seq(Keys) /\ backlog \in Seq(Clients)

\* Standard input is on number 0, and not registered, until main() adds it.
InputFirst ==
    main = "add" =>
        /\ table[0] = Stdin
        /\ \A f \in Files : interest[<<f, 0>>] = "absent"
        /\ \A i \in 1 .. Len(batch) : batch[i][2] # 0

\* The thread is about to register a connection, or to remove a closed number.
AtRight ==
    /\ at = "add" => table[fd] \in Clients
    /\ at = "del" => table[fd] = None

NeverOff == \A c \in Clients, n \in Fds : interest[<<c, n>>] # "off"

IInv == Typed /\ InputFirst /\ AtRight /\ NeverOff /\ EveryConnectionWatched

-----------------------------------------------------------------------------
LEMMA FileTypes ==
    /\ Stdin \in Files /\ Listener \in Files /\ None \notin Files
    /\ Clients \subseteq Files /\ Stdin \notin Clients /\ Listener \notin Clients
    /\ Stdin # None /\ Listener # None /\ None \notin Clients /\ IsFiniteSet(Files)
<1>1. IsFiniteSet(1 .. NClients)
  BY FS_Interval, NetAssumption
<1>2. IsFiniteSet(Files)
  BY <1>1, FS_AddElement DEF Files, Sources, Clients
<1>3. QED BY <1>2, NetAssumption DEF Files, Sources, Clients, Stdin, Listener, None

LEMMA InitIInv == ASSUME NetInit PROVE IInv
<1>1. /\ table = [n \in Fds |-> IF n = 0 THEN Stdin ELSE IF n = listenfd THEN Listener ELSE None]
      /\ interest = [k \in Keys |-> IF k = <<Listener, listenfd>> THEN "in" ELSE "absent"]
      /\ at = "loop" /\ fd = listenfd /\ batch = <<>> /\ backlog = <<>>
  BY DEF NetInit, Keys
<1>2. Typed
  BY <1>1, FileTypes, EmptySeq, NetAssumption DEF Typed, Keys
<1>3. InputFirst /\ AtRight /\ NeverOff /\ EveryConnectionWatched
  BY <1>1, FileTypes, NetAssumption DEF InputFirst, AtRight, NeverOff, EveryConnectionWatched, Keys
<1>4. QED BY <1>2, <1>3 DEF IInv

-----------------------------------------------------------------------------
(* What main() and the kernel leave alone.                                 *)
LEMMA OthersStep ==
    ASSUME IInv, Environment
    PROVE  IInv'
<1>1. /\ backlog' \in Seq(Clients)
      /\ UNCHANGED <<table, interest, main, at, fd, batch>>
  <2>1. CASE \E c \in Clients : Connect(c)
    BY <2>1, AppendProperties DEF Connect, server, IInv, Typed
  <2>2. CASE \E f \in Sources : Send(f) \/ Leave(f)
    BY <2>2 DEF Send, Leave, server, IInv, Typed
  <2>3. QED BY <2>1, <2>2 DEF Environment
<1>2. QED BY <1>1 DEF IInv, Typed, InputFirst, AtRight, NeverOff, EveryConnectionWatched, Key

(* MOD and ADD of number 0: standard input at first; a connection, later,  *)
(* that is watched with the same mask.                                     *)
LEMMA MainStep == ASSUME IInv, Main PROVE IInv'
<1> USE FileTypes, NetAssumption DEF IInv, Typed, InputFirst, AtRight, NeverOff, EveryConnectionWatched, Key, Keys, Registered
<1>1. CASE MainAdd
  <2>1. /\ main' = "loop" /\ interest' = [interest EXCEPT ![<<Stdin, 0>>] = "off"]
        /\ UNCHANGED <<table, at, fd, batch, backlog>>
    BY <1>1 DEF MainAdd, CtlAdd
  <2>2. QED BY <2>1
<1>2. CASE MainMod
  <2>1. /\ UNCHANGED <<table, at, fd, batch, main, backlog>> /\ main = "loop"
        /\ interest' = IF Registered(0) THEN [interest EXCEPT ![Key(0)] = "in"] ELSE interest
    BY <1>2 DEF MainMod, CtlMod, others
  <2>2. interest' \in [Keys -> {"absent", "off", "in"}]
    BY <2>1
  <2>3. \A k \in Keys : interest'[k] \in {interest[k], "in"}
    BY <2>1
  <2>4. QED BY <2>1, <2>2, <2>3
<1>3. QED BY <1>1, <1>2 DEF Main

-----------------------------------------------------------------------------
(* A batch is made of the keys that are ready, each of them once.          *)
LEMMA BatchOfReady ==
    ASSUME Typed, NEW b \in SetToSeqs(Ready)
    PROVE  /\ b \in Seq(Keys) /\ \A i \in 1 .. Len(b) : b[i] \in Ready
           /\ \A i, j \in 1 .. Len(b) : i # j => b[i] # b[j]
<1>1. Ready \subseteq Keys /\ IsFiniteSet(Keys)
  BY FileTypes, FS_Product, NetAssumption DEF Ready, Keys, Typed
<1>2. Cardinality(Ready) \in Nat
  BY <1>1, FS_Subset, FS_CardinalityType
<1>3. /\ b \in [1 .. Cardinality(Ready) -> Ready]
      /\ \A i, j \in 1 .. Cardinality(Ready) : i # j => b[i] # b[j]
  BY DEF SetToSeqs
<1>4. b \in Seq(Keys) /\ Len(b) = Cardinality(Ready)
  <2>1. b \in [1 .. Cardinality(Ready) -> Keys]
    BY <1>1, <1>3
  <2>2. QED BY <1>2, <2>1, LenProperties
<1>5. QED BY <1>3, <1>4

(* The rest of a batch, once its first event is being handled.             *)
LEMMA RestOfBatch ==
    ASSUME Typed, batch # <<>>
    PROVE  /\ Len(batch) \in Nat \ {0} /\ Head(batch) = batch[1] /\ batch[1] \in Keys
           /\ Tail(batch) \in Seq(Keys) /\ Len(Tail(batch)) = Len(batch) - 1
           /\ \A i \in 1 .. Len(Tail(batch)) : Tail(batch)[i] = batch[i + 1]
<1>1. batch \in Seq(Keys)
  BY DEF Typed
<1>2. QED BY <1>1, HeadTailProperties, EmptySeq, ElementOfSeq

LEMMA WaitStep == ASSUME IInv, NetWait PROVE IInv'
<1>1. /\ batch' \in SetToSeqs(Ready) /\ UNCHANGED <<table, interest, at, fd, main, backlog>>
  BY DEF NetWait, others
<1>2. batch' \in Seq(Keys) /\ \A i \in 1 .. Len(batch') : batch'[i] \in Ready
  BY <1>1, BatchOfReady DEF IInv
<1>3. \A k \in Ready : k = <<k[1], k[2]>> /\ k[1] \in Files /\ k[2] \in Fds /\ interest[k] = "in"
  BY DEF Ready, IInv, Typed, Keys
<1>4. InputFirst'
  BY <1>1, <1>2, <1>3 DEF IInv, InputFirst
<1>5. QED BY <1>1, <1>2, <1>4 DEF IInv, Typed, AtRight, NeverOff, EveryConnectionWatched, Key

LEMMA AcceptStep == ASSUME IInv, at = "loop", Accept PROVE IInv'
<1>1. /\ batch # <<>> /\ backlog # <<>> /\ batch' = Tail(batch) /\ UNCHANGED <<interest, main>>
  BY DEF Accept, AcceptOne
<1>2. Head(backlog) \in Clients /\ Tail(backlog) \in Seq(Clients)
  BY <1>1, HeadTailProperties DEF IInv, Typed
<1>3. /\ Tail(batch) \in Seq(Keys)
      /\ (main = "add" => \A i \in 1 .. Len(Tail(batch)) : Tail(batch)[i][2] # 0)
  <2>1. Typed /\ (main = "add" => \A i \in 1 .. Len(batch) : batch[i][2] # 0)
    BY DEF IInv, InputFirst
  <2>2. /\ Len(batch) \in Nat \ {0} /\ Len(Tail(batch)) = Len(batch) - 1 /\ Tail(batch) \in Seq(Keys)
        /\ \A i \in 1 .. Len(Tail(batch)) : Tail(batch)[i] = batch[i + 1]
    BY <1>1, <2>1, RestOfBatch
  <2>3. QED BY <2>1, <2>2
<1>4. CASE UNCHANGED <<table, at, fd, backlog>>
  BY <1>1, <1>3, <1>4 DEF IInv, Typed, InputFirst, AtRight, NeverOff, EveryConnectionWatched, Key
<1>5. CASE \E n \in Fds : /\ table[n] = None /\ table' = [table EXCEPT ![n] = Head(backlog)]
                          /\ at' = "add" /\ fd' = n /\ backlog' = Tail(backlog)
  <2>1. PICK n \in Fds : /\ table[n] = None /\ table' = [table EXCEPT ![n] = Head(backlog)]
                         /\ at' = "add" /\ fd' = n /\ backlog' = Tail(backlog)
    BY <1>5
  <2>2. Typed' /\ AtRight'
    BY <1>1, <1>2, <1>3, <2>1, FileTypes DEF IInv, Typed, AtRight
  <2>3. InputFirst' /\ NeverOff'
    BY <1>1, <1>3, <2>1, FileTypes DEF IInv, Typed, InputFirst, NeverOff
  <2>4. EveryConnectionWatched'
    BY <1>1, <2>1 DEF IInv, Typed, EveryConnectionWatched, Key
  <2>5. QED BY <2>2, <2>3, <2>4 DEF IInv
<1>6. QED BY <1>4, <1>5 DEF Accept, AcceptOne

(* The events that take their key out of the batch.                        *)
LEMMA EventTakesKey ==
    ASSUME IInv, NEW n, Event(n)
    PROVE  /\ n # listenfd /\ n \in Fds /\ batch' \in Seq(Keys)
           /\ main = "add" => n # 0 /\ \A i \in 1 .. Len(batch') : batch'[i][2] # 0
<1>1. batch # <<>> /\ n = Head(batch)[2] /\ n # listenfd /\ batch' = Tail(batch) /\ Typed
  BY DEF Event, IInv
<1>2. /\ Len(batch) \in Nat \ {0} /\ Head(batch) = batch[1] /\ batch[1] \in Keys
      /\ Tail(batch) \in Seq(Keys) /\ Len(Tail(batch)) = Len(batch) - 1
      /\ \A i \in 1 .. Len(Tail(batch)) : Tail(batch)[i] = batch[i + 1]
  BY <1>1, RestOfBatch
<1>3. n \in Fds
  BY <1>1, <1>2 DEF Keys
<1>4. main = "add" => \A i \in 1 .. Len(batch) : batch[i][2] # 0
  BY DEF IInv, InputFirst
<1>5. QED BY <1>1, <1>2, <1>3, <1>4

LEMMA ReadStep == ASSUME IInv, Read \/ ReadError PROVE IInv'
<1>1. PICK n \in Fds : Event(n) /\ UNCHANGED <<table, interest, at, fd, main, backlog>>
  BY DEF Read, ReadError, others
<1>2. batch' \in Seq(Keys) /\ (main = "add" => \A i \in 1 .. Len(batch') : batch'[i][2] # 0)
  BY <1>1, EventTakesKey
<1>3. QED BY <1>1, <1>2 DEF IInv, Typed, InputFirst, AtRight, NeverOff, EveryConnectionWatched, Key

(* close() takes the registration of the number that it frees and no other.*)
LEMMA EndStep == ASSUME IInv, at = "loop", EndOfStream PROVE IInv'
<1>1. PICK n \in Fds : AtEnd(n) /\ CloseFd(n)
  BY DEF EndOfStream
<1>2. Event(n) /\ at' = "del" /\ fd' = n /\ UNCHANGED <<main, backlog>>
  BY <1>1 DEF AtEnd
<1>3. /\ n \in Fds /\ n # listenfd /\ batch' \in Seq(Keys)
      /\ main = "add" => n # 0 /\ \A i \in 1 .. Len(batch') : batch'[i][2] # 0
  BY <1>2, EventTakesKey
<1>4. table' = [table EXCEPT ![n] = None]
  BY <1>1 DEF CloseFd
<1>5. interest' = interest \/ interest' = [interest EXCEPT ![<<table[n], n>>] = "absent"]
  BY <1>1 DEF CloseFd, Key
<1>6. /\ interest' \in [Keys -> {"absent", "off", "in"}]
      /\ \A k \in Keys : interest'[k] = interest[k] \/ interest'[k] = "absent"
      /\ \A f \in Files, m \in Fds : m # n => interest'[<<f, m>>] = interest[<<f, m>>]
  BY <1>5 DEF IInv, Typed, Keys
<1>7. Typed' /\ AtRight'
  BY <1>2, <1>3, <1>4, <1>6 DEF IInv, Typed, AtRight
<1>8. InputFirst'
  BY <1>2, <1>3, <1>4, <1>6, NetAssumption DEF IInv, Typed, InputFirst
<1>9. NeverOff'
  BY <1>6, FileTypes DEF IInv, NeverOff, Keys
<1>10. EveryConnectionWatched'
  BY <1>2, <1>4, <1>6, FileTypes DEF IInv, Typed, EveryConnectionWatched, Key
<1>11. QED BY <1>7, <1>8, <1>9, <1>10 DEF IInv

(* The ADD of a new connection, and the DEL of a number just closed.       *)
LEMMA CtlStep == ASSUME IInv, AddConnection \/ DelConnection PROVE IInv'
<1> USE FileTypes, NetAssumption DEF IInv, Typed, InputFirst, AtRight, NeverOff, EveryConnectionWatched, Key, Keys, Registered
<1>1. CASE AddConnection
  <2>1. /\ at = "add" /\ at' = "loop" /\ fd' = listenfd
        /\ interest' = IF table[fd] = None \/ Registered(fd) THEN interest ELSE [interest EXCEPT ![Key(fd)] = "in"]
        /\ UNCHANGED <<table, batch, main, backlog>>
    BY <1>1 DEF AddConnection, Add, CtlAdd, others
  <2>2. /\ table[fd] \in Clients
        /\ interest'[<<table[fd], fd>>] = "in"
        /\ interest' \in [Keys -> {"absent", "off", "in"}]
        /\ \A k \in Keys : k # <<table[fd], fd>> => interest'[k] = interest[k]
    BY <2>1
  <2>3. main = "add" => fd # 0
    BY <2>2
  <2>4. Typed' /\ InputFirst'
    <3>1. Typed'
      BY <2>1, <2>2
    <3>2. main = "add" => \A f \in Files : interest'[<<f, 0>>] = interest[<<f, 0>>]
      BY <2>2, <2>3
    <3>3. QED BY <2>1, <3>1, <3>2
  <2>5. NeverOff'
    <3>1. ASSUME NEW c \in Clients, NEW n \in Fds PROVE interest'[<<c, n>>] # "off"
      <4>1. <<c, n>> \in Keys
        OBVIOUS
      <4>2. CASE <<c, n>> = <<table[fd], fd>>
        BY <2>2, <4>2
      <4>3. CASE <<c, n>> # <<table[fd], fd>>
        BY <2>2, <4>1, <4>3
      <4>4. QED BY <4>2, <4>3
    <3>2. QED BY <3>1
  <2>6. EveryConnectionWatched'
    <3>1. ASSUME NEW n \in Fds, table'[n] \in Clients PROVE interest'[<<table'[n], n>>] = "in"
      BY <2>1, <2>2, <3>1
    <3>2. QED BY <3>1
  <2>7. QED BY <2>1, <2>4, <2>5, <2>6
<1>2. CASE DelConnection
  BY <1>2 DEF DelConnection, CtlDel, others
<1>3. QED BY <1>1, <1>2

LEMMA Invariance == NetInit /\ [][NetNext]_netVars => []IInv
<1>1. IInv /\ [NetNext]_netVars => IInv'
  <2> SUFFICES ASSUME IInv, [NetNext]_netVars PROVE IInv'
    OBVIOUS
  <2>1. CASE UNCHANGED netVars
    BY <2>1 DEF IInv, Typed, InputFirst, AtRight, NeverOff, EveryConnectionWatched, Key, netVars
  <2>2. CASE threadFunc
    BY <2>2, WaitStep, AcceptStep, ReadStep, EndStep, CtlStep DEF threadFunc, Handle
  <2>3. QED BY <2>1, <2>2, MainStep, OthersStep DEF NetNext
<1>2. QED BY InitIInv, <1>1, PTL

(* A connection that has a descriptor is watched, except between accept()  *)
(* and the ADD: neither the DEL of a number that was closed (line 83) nor  *)
(* main(), which takes 0 for standard input (line 118), switches it off.   *)
THEOREM Watched == NetSpec => []EveryConnectionWatched
<1>1. IInv => EveryConnectionWatched
  BY DEF IInv
<1>2. QED BY Invariance, <1>1, PTL DEF NetSpec

-----------------------------------------------------------------------------
(* A batch is never ahead of the table.  Here it matters that a file has   *)
(* one number at most, that epoll knows a file under its own number only,  *)
(* and that no key is twice in a batch.                                    *)
CountsTyped ==
    /\ sent \in [Sources -> Int] /\ got \in [Sources -> Int]
    /\ peer \in [Sources -> {"away", "open", "closed", "reset"}]

OneNumber ==
    /\ \A n, m \in Fds : table[n] = table[m] /\ table[n] # None => n = m
    /\ table[listenfd] = Listener
    /\ \A n \in Fds : table[n] = Stdin => n = 0

\* Clients come into backlog when they connect, and leave it for the table.
Arrived ==
    /\ \A n \in Fds : table[n] \in Clients => peer[table[n]] # "away"
    /\ \A i \in 1 .. Len(backlog) : peer[backlog[i]] # "away" /\ \A n \in Fds : table[n] # backlog[i]
    /\ \A i, j \in 1 .. Len(backlog) : i # j => backlog[i] # backlog[j]

InterestRight == ~ StdinAstray => \A k \in Keys : interest[k] # "absent" => table[k[2]] = k[1]

BatchRight ==
    /\ \A i, j \in 1 .. Len(batch) : i # j => batch[i] # batch[j]
    /\ ~ StdinAstray => \A i \in 1 .. Len(batch) : table[batch[i][2]] = batch[i][1] /\ Readable(batch[i][1])

JInv == CountsTyped /\ OneNumber /\ Arrived /\ InterestRight /\ BatchRight

LEMMA InitJInv == ASSUME NetInit PROVE JInv
<1>1. /\ table = [n \in Fds |-> IF n = 0 THEN Stdin ELSE IF n = listenfd THEN Listener ELSE None]
      /\ interest = [k \in Keys |-> IF k = <<Listener, listenfd>> THEN "in" ELSE "absent"]
      /\ batch = <<>> /\ backlog = <<>>
      /\ peer = [f \in Sources |-> IF f = Stdin THEN "open" ELSE "away"]
      /\ sent = [f \in Sources |-> 0] /\ got = sent
  BY DEF NetInit, Keys
<1>2. Stdin # Listener /\ Stdin # None /\ Listener # None /\ Len(<<>>) = 0
  BY FileTypes, EmptySeq, NetAssumption DEF Stdin, Listener
<1>3. OneNumber
  BY <1>1, <1>2, NetAssumption DEF OneNumber
<1>4. CountsTyped /\ BatchRight
  BY <1>1, <1>2 DEF CountsTyped, BatchRight
<1>5. Arrived
  BY <1>1, <1>2, FileTypes, NetAssumption DEF Arrived
<1>6. InterestRight
  BY <1>1, FileTypes, NetAssumption DEF InterestRight, Keys
<1>7. QED BY <1>3, <1>4, <1>5, <1>6 DEF JInv

(* What clients, the typist and the network do makes nothing unreadable.   *)
LEMMA OthersKeepJInv == ASSUME IInv, JInv, Environment PROVE JInv'
<1>0. UNCHANGED <<table, interest, at, fd, batch, tty, got>>
  BY DEF Environment, Connect, Send, Leave, server
<1>1. CASE \E c \in Clients : Connect(c)
  <2>1. PICK c \in Clients : /\ peer[c] = "away" /\ peer' = [peer EXCEPT ![c] = "open"]
                             /\ backlog' = Append(backlog, c) /\ UNCHANGED sent
    BY <1>1 DEF Connect
  <2>2. /\ Len(backlog) \in Nat /\ Len(backlog') = Len(backlog) + 1
        /\ backlog'[Len(backlog) + 1] = c
        /\ \A i \in 1 .. Len(backlog) : backlog'[i] = backlog[i] /\ backlog[i] \in Clients
    BY <2>1, AppendProperties, LenProperties, ElementOfSeq DEF IInv, Typed
  <2>3. CountsTyped' /\ \A f \in Sources : peer[f] # "away" => peer'[f] = peer[f]
    BY <2>1, <1>0 DEF JInv, CountsTyped
  <2>4. Clients \subseteq Sources
    BY DEF Sources
  <2>5. Arrived'
    <3>1. \A n \in Fds : table[n] \in Clients => peer'[table[n]] # "away" /\ table[n] # c
      BY <2>1, <2>3, <2>4 DEF JInv, Arrived
    <3>2. \A i \in 1 .. Len(backlog) : peer'[backlog[i]] # "away" /\ backlog[i] # c
      BY <2>1, <2>2, <2>3, <2>4 DEF JInv, Arrived
    <3>3. peer'[c] # "away"
      BY <2>1, <2>4 DEF JInv, CountsTyped
    <3>4. \A i \in 1 .. Len(backlog') : i \in 1 .. Len(backlog) \/ (i = Len(backlog) + 1 /\ backlog'[i] = c)
      BY <2>2
    <3>5. \A i \in 1 .. Len(backlog') : peer'[backlog'[i]] # "away" /\ \A n \in Fds : table[n] # backlog'[i]
      BY <2>2, <3>1, <3>2, <3>3, <3>4 DEF JInv, Arrived
    <3>6. \A i, j \in 1 .. Len(backlog') : i # j => backlog'[i] # backlog'[j]
      BY <2>2, <3>2, <3>4 DEF JInv, Arrived
    <3>7. QED BY <1>0, <3>1, <3>5, <3>6 DEF Arrived
  <2>6. backlog' # <<>>
    BY <2>2, EmptySeq
  <2>7. \A f \in Files : Readable(f) => Readable(f)'
    BY <1>0, <2>1, <2>3, <2>6 DEF Readable, Files
  <2>8. BatchRight'
    <3>1. \A i \in 1 .. Len(batch) : batch[i][1] \in Files
      BY ElementOfSeq DEF IInv, Typed, Keys
    <3>2. QED BY <1>0, <2>7, <3>1 DEF JInv, BatchRight, StdinAstray
  <2>9. QED BY <1>0, <2>3, <2>5, <2>8 DEF JInv, OneNumber, InterestRight, StdinAstray
<1>2. CASE \E f \in Sources : Send(f) \/ Leave(f)
  <2>1. PICK f \in Sources : /\ UNCHANGED backlog
                             /\ \/ sent' = [sent EXCEPT ![f] = @ + 1] /\ UNCHANGED peer
                                \/ /\ peer[f] = "open" /\ UNCHANGED sent
                                   /\ peer' \in {[peer EXCEPT ![f] = "closed"], [peer EXCEPT ![f] = "reset"]}
    BY <1>2 DEF Send, Leave
  <2>2. CountsTyped'
    BY <1>0, <2>1 DEF JInv, CountsTyped
  <2>3. /\ \A s \in Sources : peer[s] # "away" => peer'[s] # "away"
        /\ \A s \in Sources : peer[s] \in {"closed", "reset"} => peer'[s] \in {"closed", "reset"}
        /\ \A s \in Sources : got[s] < sent[s] => got[s] < sent'[s]
    BY <2>1 DEF JInv, CountsTyped
  <2>4. Clients \subseteq Sources /\ \A i \in 1 .. Len(backlog) : backlog[i] \in Clients
    BY ElementOfSeq DEF Sources, IInv, Typed
  <2>5. Arrived'
    BY <1>0, <2>1, <2>3, <2>4 DEF JInv, Arrived
  <2>6. \A s \in Files : Readable(s) => Readable(s)'
    BY <1>0, <2>1, <2>3 DEF Readable, Files
  <2>7. BatchRight'
    <3>1. \A i \in 1 .. Len(batch) : batch[i][1] \in Files
      BY ElementOfSeq DEF IInv, Typed, Keys
    <3>2. QED BY <1>0, <2>6, <3>1 DEF JInv, BatchRight, StdinAstray
  <2>8. QED BY <1>0, <2>2, <2>5, <2>7 DEF JInv, OneNumber, InterestRight, StdinAstray
<1>3. QED BY <1>1, <1>2 DEF Environment

(* main() and the thread's epoll_ctl() only touch a number's own file.     *)
LEMMA CtlKeepsJInv ==
    ASSUME IInv, JInv, Main \/ AddConnection \/ DelConnection
    PROVE  JInv'
<1>1. UNCHANGED <<table, batch, backlog, peer, sent, got, tty>>
  BY DEF Main, MainAdd, MainMod, AddConnection, Add, DelConnection, others
<1>2. \A k \in Keys : interest'[k] # "absent" => interest[k] # "absent" \/ (table[k[2]] # None /\ k = Key(k[2]))
  <2> USE NetAssumption DEF IInv, Typed, Keys, Registered, Key
  <2>1. CASE MainAdd
    BY <2>1 DEF MainAdd, CtlAdd
  <2>2. CASE MainMod
    BY <2>2 DEF MainMod, CtlMod
  <2>3. CASE AddConnection
    BY <2>3 DEF AddConnection, Add, CtlAdd
  <2>4. CASE DelConnection
    BY <2>4 DEF DelConnection, CtlDel
  <2>5. QED BY <2>1, <2>2, <2>3, <2>4 DEF Main
<1>3. InterestRight'
  BY <1>1, <1>2 DEF JInv, InterestRight, StdinAstray, Key
<1>4. BatchRight'
  BY <1>1 DEF JInv, BatchRight, StdinAstray, Readable
<1>5. QED BY <1>1, <1>3, <1>4 DEF JInv, CountsTyped, OneNumber, Arrived

LEMMA WaitKeepsJInv == ASSUME IInv, JInv, NetWait PROVE JInv'
<1>1. batch' \in SetToSeqs(Ready) /\ UNCHANGED <<table, interest, tty, backlog, peer, sent, got>>
  BY DEF NetWait, others
<1>2. /\ \A i \in 1 .. Len(batch') : batch'[i] \in Ready
      /\ \A i, j \in 1 .. Len(batch') : i # j => batch'[i] # batch'[j]
  BY <1>1, BatchOfReady DEF IInv
<1>3. \A k \in Ready : k \in Keys /\ interest[k] # "absent" /\ Readable(k[1])
  BY DEF Ready, IInv, Typed
<1>4. BatchRight'
  BY <1>1, <1>2, <1>3 DEF JInv, InterestRight, BatchRight, StdinAstray, Readable
<1>5. QED BY <1>1, <1>4 DEF JInv, CountsTyped, OneNumber, Arrived, InterestRight, StdinAstray

(* What is left of the batch has nothing of the event that was taken: no   *)
(* other key in it is of the same number, or of the same file.             *)
LEMMA RestIsOther ==
    ASSUME IInv, JInv, batch # <<>>, batch' = Tail(batch)
    PROVE  /\ \A i, j \in 1 .. Len(batch') : i # j => batch'[i] # batch'[j]
           /\ Head(batch) = batch[1] /\ batch[1] \in Keys
           /\ ~ StdinAstray => table[batch[1][2]] = batch[1][1]
           /\ ~ StdinAstray => \A i \in 1 .. Len(batch') :
                 /\ batch'[i] \in Keys /\ table[batch'[i][2]] = batch'[i][1] /\ Readable(batch'[i][1])
                 /\ batch'[i][1] # batch[1][1] /\ batch'[i][2] # batch[1][2]
<1>1. /\ Len(batch) \in Nat \ {0} /\ Head(batch) = batch[1] /\ batch[1] \in Keys
      /\ Len(batch') = Len(batch) - 1
      /\ \A i \in 1 .. Len(batch') : batch'[i] = batch[i + 1]
  BY RestOfBatch DEF IInv
<1>2. \A i \in 1 .. Len(batch') : i + 1 \in 1 .. Len(batch) /\ i + 1 # 1
  BY <1>1
<1>3. 1 \in 1 .. Len(batch) /\ \A i \in 1 .. Len(batch) : batch[i] \in Keys
  BY <1>1, ElementOfSeq DEF IInv, Typed
<1>4. \A i, j \in 1 .. Len(batch') : i # j => batch'[i] # batch'[j]
  BY <1>1, <1>2 DEF JInv, BatchRight
<1>5. ASSUME ~ StdinAstray, NEW i \in 1 .. Len(batch')
      PROVE  /\ batch'[i] \in Keys /\ table[batch'[i][2]] = batch'[i][1] /\ Readable(batch'[i][1])
             /\ batch'[i] # batch[1]
  BY <1>1, <1>2, <1>3, <1>5 DEF JInv, BatchRight
<1>6. ~ StdinAstray => table[batch[1][2]] = batch[1][1]
  BY <1>3 DEF JInv, BatchRight
<1>7. \A k, l \in Keys : /\ k # l => k[1] # l[1] \/ k[2] # l[2]
                         /\ k[1] \in Files /\ k[2] \in Fds /\ l[1] \in Files /\ l[2] \in Fds
  BY DEF Keys
<1>8. \A n, m \in Fds : table[n] = table[m] /\ table[n] # None => n = m
  BY DEF JInv, OneNumber
<1>9. None \notin Files
  BY FileTypes
<1>10. QED BY <1>1, <1>4, <1>5, <1>6, <1>7, <1>8, <1>9

LEMMA RestIsRight ==
    ASSUME IInv, JInv, batch # <<>>, batch' = Tail(batch),
           ~ StdinAstray' =>
               /\ ~ StdinAstray
               /\ \A k \in Keys : table[k[2]] = k[1] /\ k[2] # batch[1][2] => table'[k[2]] = k[1]
               /\ \A f \in Files : f # table[batch[1][2]] /\ Readable(f) => Readable(f)'
    PROVE  BatchRight'
<1>1. \A i, j \in 1 .. Len(batch') : i # j => batch'[i] # batch'[j]
  BY RestIsOther
<1>2. ASSUME ~ StdinAstray', NEW i \in 1 .. Len(batch')
      PROVE  /\ table'[batch'[i][2]] = batch'[i][1]
             /\ \E f \in Files : f = batch'[i][1] /\ Readable(f)'
  <2>1. /\ ~ StdinAstray /\ batch'[i] \in Keys /\ table[batch'[i][2]] = batch'[i][1]
        /\ Readable(batch'[i][1]) /\ batch'[i][1] # table[batch[1][2]] /\ batch'[i][2] # batch[1][2]
    BY <1>2, RestIsOther
  <2>2. table'[batch'[i][2]] = batch'[i][1]
    BY <1>2, <2>1
  <2>3. PICK f \in Files : f = batch'[i][1]
    BY <2>1 DEF Keys
  <2>4. Readable(f) /\ f # table[batch[1][2]]
    BY <2>1, <2>3
  <2>5. Readable(f)'
    BY <1>2, <2>4
  <2>6. QED BY <2>2, <2>3, <2>5
<1>3. QED BY <1>1, <1>2 DEF BatchRight, Readable

LEMMA AcceptKeepsJInv == ASSUME IInv, JInv, Accept PROVE JInv'
<1>1. /\ batch # <<>> /\ backlog # <<>> /\ batch' = Tail(batch) /\ Head(batch)[2] = listenfd
      /\ UNCHANGED <<interest, tty, peer, sent, got>>
  BY DEF Accept, AcceptOne
<1>2. batch[1][2] = listenfd /\ table[listenfd] = Listener
  BY <1>1, RestIsOther DEF JInv, OneNumber
<1>3. CountsTyped' /\ \A f \in Files : f # Listener /\ Readable(f) => Readable(f)'
  BY <1>1 DEF JInv, CountsTyped, Readable
<1>4. CASE UNCHANGED <<table, at, fd, backlog>>
  <2>1. BatchRight'
    BY <1>1, <1>2, <1>3, <1>4, RestIsRight DEF StdinAstray
  <2>2. QED BY <1>1, <1>3, <1>4, <2>1 DEF JInv, OneNumber, Arrived, InterestRight, StdinAstray
<1>5. CASE \E n \in Fds : /\ table[n] = None /\ table' = [table EXCEPT ![n] = Head(backlog)]
                          /\ backlog' = Tail(backlog)
  <2>1. PICK n \in Fds : /\ table[n] = None /\ table' = [table EXCEPT ![n] = Head(backlog)]
                         /\ backlog' = Tail(backlog)
    BY <1>5
  <2>2. /\ Len(backlog) \in Nat \ {0} /\ Head(backlog) = backlog[1] /\ Head(backlog) \in Clients
        /\ Len(backlog') = Len(backlog) - 1
        /\ \A i \in 1 .. Len(backlog') : backlog'[i] = backlog[i + 1] /\ i + 1 \in 1 .. Len(backlog) /\ i + 1 # 1
    BY <1>1, <2>1, HeadTailProperties, EmptySeq DEF IInv, Typed
  <2>3. /\ 1 \in 1 .. Len(backlog) /\ peer[Head(backlog)] # "away"
        /\ \A m \in Fds : table[m] # Head(backlog)
        /\ \A i \in 1 .. Len(backlog') : backlog'[i] # Head(backlog)
    BY <2>2 DEF JInv, Arrived
  <2>4. table'[n] = Head(backlog) /\ \A m \in Fds : m # n => table'[m] = table[m]
    BY <2>1 DEF IInv, Typed
  <2>5. OneNumber'
    <3>1. \A m, l \in Fds : table'[m] = table'[l] /\ table'[m] # None => m = l
      BY <2>3, <2>4 DEF JInv, OneNumber
    <3>2. listenfd # n /\ table'[listenfd] = Listener
      BY <2>1, <2>4, FileTypes, NetAssumption DEF JInv, OneNumber
    <3>3. \A m \in Fds : table'[m] = Stdin => m = 0
      BY <2>2, <2>4, FileTypes DEF JInv, OneNumber
    <3>4. QED BY <3>1, <3>2, <3>3 DEF OneNumber
  <2>6. Arrived'
    <3>1. \A m \in Fds : table'[m] \in Clients => peer[table'[m]] # "away"
      BY <2>3, <2>4 DEF JInv, Arrived
    <3>2. \A i \in 1 .. Len(backlog') : peer[backlog'[i]] # "away" /\ \A m \in Fds : table'[m] # backlog'[i]
      BY <2>2, <2>3, <2>4 DEF JInv, Arrived
    <3>3. \A i, j \in 1 .. Len(backlog') : i # j => backlog'[i] # backlog'[j]
      <4>1. \A i, j \in 1 .. Len(backlog') : i # j => i + 1 # j + 1
        OBVIOUS
      <4>2. QED BY <2>2, <4>1 DEF JInv, Arrived
    <3>4. QED BY <1>1, <3>1, <3>2, <3>3 DEF Arrived
  <2>7. ~ StdinAstray' => ~ StdinAstray
    BY <1>1, <2>2, <2>4, FileTypes, NetAssumption DEF StdinAstray
  <2>8. ASSUME ~ StdinAstray, NEW k \in Keys, table[k[2]] = k[1] PROVE table'[k[2]] = k[1]
    BY <2>1, <2>4, <2>8, FileTypes DEF Keys
  <2>9. InterestRight'
    BY <1>1, <2>7, <2>8 DEF JInv, InterestRight
  <2>10. BatchRight'
    BY <1>1, <1>2, <1>3, <2>7, <2>8, RestIsRight
  <2>11. QED BY <1>3, <2>5, <2>6, <2>9, <2>10 DEF JInv
<1>6. QED BY <1>4, <1>5 DEF Accept, AcceptOne

(* A read takes from one file, which no other key of the batch is of.      *)
LEMMA ReadKeepsJInv == ASSUME IInv, JInv, Read \/ ReadError PROVE JInv'
<1>1. PICK n \in Fds :
         /\ Event(n) /\ UNCHANGED <<table, interest, tty, peer, sent, backlog>>
         /\ got' \in [Sources -> Int] /\ \A f \in Sources : f # table[n] => got'[f] = got[f]
  <2>1. CASE Read
    <3>1. PICK n \in Fds : /\ Event(n) /\ table[n] # None /\ UNCHANGED <<table, interest, tty, peer, sent, backlog>>
                           /\ \E len \in 1 .. (sent[table[n]] - got[table[n]]) : got' = [got EXCEPT ![table[n]] = @ + len]
      BY <2>1 DEF Read
    <3>2. table[n] # Listener
      BY <3>1, FileTypes, NetAssumption DEF Event, JInv, OneNumber
    <3>3. table[n] \in Sources
      BY <3>1, <3>2 DEF IInv, Typed, Files
    <3>4. sent[table[n]] \in Int /\ got[table[n]] \in Int
      BY <3>3 DEF JInv, CountsTyped
    <3>5. PICK len \in 1 .. (sent[table[n]] - got[table[n]]) : got' = [got EXCEPT ![table[n]] = @ + len]
      BY <3>1
    <3>6. got[table[n]] + len \in Int
      BY <3>4
    <3>7. got' \in [Sources -> Int] /\ \A f \in Sources : f # table[n] => got'[f] = got[f]
      BY <3>5, <3>6 DEF JInv, CountsTyped
    <3>8. QED BY <3>1, <3>7
  <2>2. CASE ReadError
    BY <2>2 DEF ReadError, others, JInv, CountsTyped
  <2>3. QED BY <2>1, <2>2
<1>2. batch # <<>> /\ n = Head(batch)[2] /\ batch' = Tail(batch)
  BY <1>1 DEF Event
<1>3. n = batch[1][2]
  BY <1>2, RestIsOther
<1>4. \A f \in Files : f # table[n] /\ Readable(f) => Readable(f)'
  BY <1>1 DEF Readable, Files
<1>5. BatchRight'
  BY <1>1, <1>2, <1>3, <1>4, RestIsRight DEF StdinAstray
<1>6. QED BY <1>1, <1>5 DEF JInv, CountsTyped, OneNumber, Arrived, InterestRight, StdinAstray

(* close() frees the number; the end of a terminal that was reported once  *)
(* makes it unreadable, but then standard input has gone astray.           *)
LEMMA EndKeepsJInv == ASSUME IInv, JInv, EndOfStream PROVE JInv'
<1>1. PICK n \in Fds : AtEnd(n) /\ CloseFd(n)
  BY DEF EndOfStream
<1>2. /\ Event(n) /\ table[n] # None
      /\ peer' = IF table[n] = Stdin /\ tty THEN [peer EXCEPT ![table[n]] = "open"] ELSE peer
      /\ UNCHANGED <<tty, backlog, sent, got>>
  BY <1>1 DEF AtEnd
<1>3. /\ table' = [table EXCEPT ![n] = None]
      /\ interest' = IF table[n] = Stdin /\ tty THEN interest ELSE [interest EXCEPT ![<<table[n], n>>] = "absent"]
  BY <1>1 DEF CloseFd, Key
<1>4. batch # <<>> /\ n = Head(batch)[2] /\ batch' = Tail(batch) /\ n # listenfd
  BY <1>2 DEF Event
<1>5. n = batch[1][2]
  BY <1>4, RestIsOther
<1>6. table'[n] = None /\ \A m \in Fds : m # n => table'[m] = table[m]
  BY <1>3 DEF IInv, Typed
<1>7. CountsTyped' /\ \A f \in Sources : peer[f] # "away" => peer'[f] # "away"
  BY <1>2 DEF JInv, CountsTyped
<1>8. OneNumber'
  BY <1>4, <1>6, FileTypes, NetAssumption, ZenonT(30) DEF JInv, OneNumber
<1>9. Arrived'
  <2>1. Clients \subseteq Sources /\ \A i \in 1 .. Len(backlog) : backlog[i] \in Clients
    BY ElementOfSeq DEF Sources, IInv, Typed
  <2>2. QED BY <1>2, <1>6, <1>7, <2>1, FileTypes DEF JInv, Arrived
<1>10. ~ StdinAstray' => ~ StdinAstray /\ ~ (table[n] = Stdin /\ tty)
  <2>1. table[n] = Stdin => n = 0
    BY DEF JInv, OneNumber
  <2>2. QED BY <1>2, <1>6, <2>1, FileTypes, NetAssumption DEF StdinAstray
<1>11. InterestRight'
  <2>1. ASSUME ~ StdinAstray', NEW k \in Keys, interest'[k] # "absent" PROVE table'[k[2]] = k[1]
    <3>1. interest' = [interest EXCEPT ![<<table[n], n>>] = "absent"] /\ ~ StdinAstray
      BY <1>3, <1>10, <2>1
    <3>2. interest[k] # "absent" /\ k # <<table[n], n>>
      BY <2>1, <3>1 DEF IInv, Typed
    <3>3. table[k[2]] = k[1] /\ k = <<k[1], k[2]>> /\ k[2] \in Fds
      BY <3>1, <3>2 DEF JInv, InterestRight, Keys
    <3>4. QED BY <1>6, <3>2, <3>3
  <2>2. QED BY <2>1 DEF InterestRight
<1>12. BatchRight'
  <2>1. ASSUME ~ StdinAstray' PROVE \A f \in Files : Readable(f) => Readable(f)'
    BY <1>2, <1>10, <2>1 DEF Readable
  <2>2. \A k \in Keys : k[2] \in Fds
    BY DEF Keys
  <2>3. QED BY <1>4, <1>5, <1>6, <1>10, <2>1, <2>2, RestIsRight
<1>13. QED BY <1>7, <1>8, <1>9, <1>11, <1>12 DEF JInv

LEMMA InvarianceOfJ == NetInit /\ [][NetNext]_netVars => []JInv
<1>1. IInv /\ JInv /\ [NetNext]_netVars => JInv'
  <2> SUFFICES ASSUME IInv, JInv, [NetNext]_netVars PROVE JInv'
    OBVIOUS
  <2>1. CASE UNCHANGED netVars
    BY <2>1, ZenonT(30) DEF JInv, CountsTyped, OneNumber, Arrived, InterestRight, BatchRight, StdinAstray, Readable, netVars
  <2>2. CASE threadFunc
    BY <2>2, WaitKeepsJInv, AcceptKeepsJInv, ReadKeepsJInv, EndKeepsJInv, CtlKeepsJInv DEF threadFunc, Handle
  <2>3. QED BY <2>1, <2>2, CtlKeepsJInv, OthersKeepJInv DEF NetNext
<1>2. QED BY InitJInv, <1>1, Invariance, PTL

(* accept() and readv(), which block, are called only for what is ready    *)
(* (lines 55-93), as long as a terminal's registration has not outlived    *)
(* its number.                                                             *)
THEOREM NoBlockingCall == NetSpec => []NoCallBlocks
<1>1. IInv /\ JInv => NoCallBlocks
  <2>1. ASSUME IInv PROVE \A k \in Range(batch) : \E i \in 1 .. Len(batch) : k = batch[i]
    BY <2>1, LenProperties DEF Range, IInv, Typed
  <2>2. QED BY <2>1 DEF JInv, BatchRight, NoCallBlocks
<1>2. QED BY Invariance, InvarianceOfJ, <1>1, PTL DEF NetSpec

-----------------------------------------------------------------------------
(* The numbers that stand for bytes.                                       *)
LEMMA SourceTypes ==
    /\ NClients \in Nat /\ Sources = 0 .. NClients /\ Stdin \in Sources
    /\ Clients \subseteq Sources /\ MaxSent \in [Sources -> Nat]
BY NetAssumption DEF Sources, Clients, Stdin

LEMMA Multiples ==
    ASSUME NEW d \in Nat \ {0}, NEW i \in Int, i * d < d, - d < i * d
    PROVE  i = 0
<1>1. CASE i >= 1
  <2>1. i * d >= d
    BY <1>1
  <2>2. QED BY <2>1
<1>2. CASE i <= -1
  <2>1. i * d <= - d
    BY <1>2
  <2>2. QED BY <2>1
<1>3. QED BY <1>1, <1>2

LEMMA ByteFacts ==
    ASSUME NEW f \in Sources, NEW i \in Nat \ {0}
    PROVE  Byte(f, i) \in Nat \ {0} /\ From(Byte(f, i)) = f
<1> DEFINE d == NClients + 1
           b == Byte(f, i)
<1>1. d \in Nat \ {0} /\ f \in 0 .. d - 1 /\ b = i * d + f
  BY SourceTypes DEF Byte
<1> HIDE DEF d
<1>2. i * d \in Nat /\ i * d >= 1
  BY <1>1
<1>3. b \in Nat \ {0}
  BY <1>1, <1>2
<1> HIDE DEF b
<1>4. b % d = f
  <2> DEFINE q == b \div d
             r == b % d
  <2>1. q \in Int /\ r \in 0 .. d - 1 /\ b = d * q + r
    BY <1>1, <1>3
  <2> HIDE DEF q, r
  <2>2. (i - q) * d = r - f
    <3>1. i * d + f = d * q + r
      BY <1>1, <2>1
    <3>2. (i - q) * d = i * d - d * q
      BY <1>1, <2>1
    <3>3. QED BY <1>1, <1>2, <2>1, <3>1, <3>2
  <2> DEFINE k == i - q
  <2>3. k \in Int /\ k * d < d /\ - d < k * d
    BY <1>1, <2>1, <2>2
  <2>4. k = 0
    <3> HIDE DEF k
    <3>1. QED BY <1>1, <2>3, Multiples
  <2>5. r = f
    BY <1>1, <2>1, <2>2, <2>4
  <2>6. QED BY <2>5 DEF r
<1>5. QED BY <1>3, <1>4 DEF From, b, d

LEMMA ByteOrder ==
    ASSUME NEW f \in Sources, NEW i \in Nat, NEW j \in Nat, i < j
    PROVE  Byte(f, i) < Byte(f, j)
<1> DEFINE d == NClients + 1
<1>1. d \in Nat \ {0} /\ f \in Nat
  BY SourceTypes
<1> HIDE DEF d
<1>2. (j - i) * d >= d /\ j * d = (j - i) * d + i * d /\ i * d \in Nat /\ j * d \in Nat
  BY <1>1
<1>3. i * d + f < j * d + f
  BY <1>1, <1>2
<1>4. QED BY <1>3 DEF Byte, d
-----------------------------------------------------------------------------
(* The bytes read are as many as their sources count.                      *)
LEMMA MoreRead ==
    ASSUME got \in [Sources -> Nat], IsFiniteSet(BytesRead),
           NEW f \in Sources, NEW n \in Nat \ {0}, got' = [got EXCEPT ![f] = @ + n]
    PROVE  /\ IsFiniteSet(BytesRead') /\ Cardinality(BytesRead) \in Nat
           /\ Cardinality(BytesRead') = Cardinality(BytesRead) + n
<1> DEFINE new == [i \in 1 .. n |-> Byte(f, got[f] + i)]
           New == {new[i] : i \in 1 .. n}
<1>1. got' \in [Sources -> Nat] /\ got'[f] = got[f] + n /\ \A g \in Sources : g # f => got'[g] = got[g]
  OBVIOUS
<1>2. BytesRead' = BytesRead \cup New
  <2>1. ASSUME NEW x \in BytesRead' PROVE x \in BytesRead \cup New
    <3>1. PICK g \in Sources : \E i \in 1 .. got'[g] : x = Byte(g, i)
      BY DEF BytesRead, Byte
    <3>2. PICK i \in 1 .. got'[g] : x = Byte(g, i)
      BY <3>1
    <3>3. CASE i \in 1 .. got[g]
      BY <3>2, <3>3 DEF BytesRead
    <3>4. CASE i \notin 1 .. got[g]
      <4>1. g = f /\ i - got[f] \in 1 .. n /\ got[f] + (i - got[f]) = i
        BY <1>1, <3>4
      <4>2. QED BY <3>2, <4>1
    <3>5. QED BY <3>3, <3>4
  <2>2. ASSUME NEW x \in BytesRead PROVE x \in BytesRead'
    <3>1. PICK g \in Sources : \E i \in 1 .. got[g] : x = Byte(g, i)
      BY DEF BytesRead
    <3>2. 1 .. got[g] \subseteq 1 .. got'[g]
      BY <1>1
    <3>3. QED BY <3>1, <3>2 DEF BytesRead, Byte
  <2>3. ASSUME NEW i \in 1 .. n PROVE new[i] \in BytesRead'
    <3>1. got[f] + i \in 1 .. got'[f]
      BY <1>1
    <3>2. QED BY <3>1 DEF BytesRead, Byte
  <2>4. QED BY <2>1, <2>2, <2>3
<1>3. ASSUME NEW i \in 1 .. n PROVE new[i] \notin BytesRead
  <2>1. ASSUME NEW g \in Sources, NEW k \in 1 .. got[g], Byte(f, got[f] + i) = Byte(g, k) PROVE FALSE
    <3>1. k \in Nat \ {0} /\ got[f] + i \in Nat \ {0}
      OBVIOUS
    <3>2. g = f
      BY <2>1, <3>1, ByteFacts
    <3>3. k < got[f] + i
      BY <3>2
    <3>4. Byte(f, k) < Byte(f, got[f] + i)
      BY <3>1, <3>3, ByteOrder
    <3>5. Byte(f, k) \in Nat
      BY <3>1, ByteFacts
    <3>6. QED BY <2>1, <3>2, <3>4, <3>5
  <2>2. QED BY <2>1 DEF BytesRead
<1>4. new \in Bijection(1 .. n, New)
  <2>1. ASSUME NEW i \in 1 .. n, NEW j \in 1 .. n, new[i] = new[j] PROVE i = j
    <3>1. got[f] + i \in Nat \ {0} /\ got[f] + j \in Nat \ {0} /\ i \in Int /\ j \in Int
      OBVIOUS
    <3>2. Byte(f, got[f] + i) \in Nat /\ Byte(f, got[f] + j) \in Nat
      BY <3>1, ByteFacts
    <3>3. i < j => Byte(f, got[f] + i) < Byte(f, got[f] + j)
      BY <3>1, ByteOrder
    <3>4. j < i => Byte(f, got[f] + j) < Byte(f, got[f] + i)
      BY <3>1, ByteOrder
    <3>5. QED BY <2>1, <3>1, <3>2, <3>3, <3>4
  <2> HIDE DEF new
  <2>2. new \in [1 .. n -> New]
    BY DEF new
  <2>3. QED BY <2>1, <2>2 DEF Bijection, Injection, Surjection, IsInjective
<1>5. IsFiniteSet(New) /\ Cardinality(New) = n
  <2> HIDE DEF new, New
  <2>1. IsFiniteSet(1 .. n) /\ Cardinality(1 .. n) = n
    BY FS_Interval
  <2>2. QED BY <1>4, <2>1, FS_Bijection DEF ExistsBijection
<1>6. BytesRead \cap New = {}
  BY <1>3
<1> HIDE DEF New, new
<1>7. Cardinality(BytesRead \cap New) = 0
  BY <1>6, FS_EmptySet
<1>8. /\ IsFiniteSet(BytesRead \cup New)
      /\ Cardinality(BytesRead \cup New) = Cardinality(BytesRead) + Cardinality(New) - Cardinality(BytesRead \cap New)
  BY <1>5, FS_Union
<1>9. Cardinality(BytesRead) \in Nat
  BY FS_CardinalityType
<1>10. QED BY <1>2, <1>5, <1>7, <1>8, <1>9

-----------------------------------------------------------------------------
(* Every byte that was read is in the buffer once, in chunks that are      *)
(* closed by one separator line each.                                      *)
Ordered(w, read) == Holding(w) = read /\ InOrder(w) /\ InChunks(w)

LEMMA LineFacts ==
    /\ SeparatorLen \in Nat \ {0} /\ 4 * SeparatorLen <= Word
    /\ SeparatorLine \in Seq(Nat) /\ Len(SeparatorLine) = SeparatorLen
    /\ \A i \in 1 .. SeparatorLen : SeparatorLine[i] = Separator
<1>1. SeparatorLen \in Nat \ {0} /\ SeparatorLen <= Word \div 4
  BY NetAssumption
<1>2. 4 * SeparatorLen <= Word
  BY <1>1, Sizes
<1>3. SeparatorLine \in [1 .. SeparatorLen -> Nat]
  BY DEF SeparatorLine, Separator
<1>4. QED BY <1>1, <1>2, <1>3, FunctionIsSeq DEF SeparatorLine

(* A line that closes a chunk goes on closing it, unless a separator is    *)
(* added right behind.                                                     *)
LEMMA ClosedStays ==
    ASSUME NEW w \in Seq(Nat), NEW v \in Seq(Nat), NEW n \in Nat, Len(v) = Len(w) + n,
           \A i \in 1 .. Len(w) : v[i] = w[i],
           NEW i, ClosedAfter(w, i),
           n > 0 /\ w[Len(w)] = Separator => v[Len(w) + 1] # Separator
    PROVE  ClosedAfter(v, i)
<1> DEFINE m == Len(w)
<1>1. /\ m \in Nat /\ SeparatorLen \in Nat \ {0} /\ i \in 1 .. m - SeparatorLen
      /\ w[i] # Separator /\ \A k \in i + 1 .. i + SeparatorLen : w[k] = Separator
      /\ i + SeparatorLen < m => w[i + SeparatorLen + 1] # Separator
  BY LineFacts, LenProperties DEF ClosedAfter
<1>0. Len(v) = m + n /\ \A k \in 1 .. m : v[k] = w[k]
  OBVIOUS
<1> HIDE DEF m
<1>2. i \in 1 .. Len(v) - SeparatorLen /\ v[i] # Separator
  <2>1. i \in 1 .. m /\ i \in 1 .. (m + n) - SeparatorLen
    BY <1>1
  <2>2. QED BY <1>0, <1>1, <2>1
<1>3. \A k \in i + 1 .. i + SeparatorLen : v[k] = Separator
  <2>1. \A k \in i + 1 .. i + SeparatorLen : k \in 1 .. m
    BY <1>1
  <2>2. QED BY <1>0, <1>1, <2>1
<1>4. ASSUME i + SeparatorLen < Len(v) PROVE v[i + SeparatorLen + 1] # Separator
  <2>1. CASE i + SeparatorLen < m
    <3>1. i + SeparatorLen + 1 \in 1 .. m
      BY <1>1, <2>1
    <3>2. QED BY <1>1, <2>1, <3>1 DEF m
  <2>2. CASE i + SeparatorLen = m
    <3>1. m \in i + 1 .. i + SeparatorLen
      BY <1>1, <2>2
    <3>2. w[m] = Separator /\ n > 0
      BY <1>1, <1>4, <2>2, <3>1 DEF m
    <3>3. QED BY <2>2, <3>2 DEF m
  <2>3. QED BY <1>1, <2>1, <2>2
<1>5. QED BY <1>2, <1>3, <1>4 DEF ClosedAfter

LEMMA Joined ==
    ASSUME NEW s \in Seq(Nat), NEW t \in Seq(Nat)
    PROVE  /\ s \o t \in Seq(Nat) /\ Len(s \o t) = Len(s) + Len(t)
           /\ \A i \in 1 .. Len(s) : (s \o t)[i] = s[i]
           /\ \A i \in 1 .. Len(t) : (s \o t)[Len(s) + i] = t[i]
<1>1. /\ s \o t \in Seq(Nat) /\ Len(s \o t) = Len(s) + Len(t) /\ Len(s) \in Nat /\ Len(t) \in Nat
      /\ \A i \in 1 .. Len(s) + Len(t) : (s \o t)[i] = IF i <= Len(s) THEN s[i] ELSE t[i - Len(s)]
  BY ConcatProperties, LenProperties
<1>2. \A i \in 1 .. Len(t) : /\ Len(s) + i \in 1 .. Len(s) + Len(t) /\ ~ (Len(s) + i <= Len(s))
                              /\ (Len(s) + i) - Len(s) = i
  BY <1>1
<1>3. QED BY <1>1, <1>2

LEMMA SeparatorAdded ==
    ASSUME NEW v \in Seq(Nat), NEW read, Ordered(v, read), v # <<>>, v[Len(v)] # Separator
    PROVE  LET w == v \o SeparatorLine
           IN  /\ w \in Seq(Nat) /\ Len(w) = Len(v) + SeparatorLen
               /\ Ordered(w, read) /\ w[Len(w)] = Separator
<1> DEFINE w == v \o SeparatorLine
           n == Len(v)
<1>1. /\ w \in Seq(Nat) /\ Len(w) = n + SeparatorLen /\ n \in Nat \ {0} /\ SeparatorLen \in Nat \ {0}
      /\ \A i \in 1 .. n : w[i] = v[i]
      /\ \A i \in 1 .. SeparatorLen : w[n + i] = Separator
  <2>1. n \in Nat \ {0}
    BY EmptySeq, LenProperties
  <2>2. QED BY <2>1, LineFacts, Joined, ZenonT(30)
<1>0. n \in Nat \ {0} /\ SeparatorLen \in Nat \ {0} /\ Len(w) = n + SeparatorLen
  BY <1>1
<1> HIDE DEF w, n
<1>2. ASSUME NEW k \in 1 .. Len(w), k \notin 1 .. n PROVE w[k] = Separator /\ k \in n + 1 .. n + SeparatorLen
  <2> DEFINE j == k - n
  <2>1. j \in 1 .. SeparatorLen /\ n + j = k
    BY <1>0, <1>2
  <2> HIDE DEF j
  <2>2. w[n + j] = Separator
    BY <1>1, <2>1
  <2>3. n + j \in n + 1 .. n + SeparatorLen
    BY <1>0, <2>1
  <2>4. QED BY <2>1, <2>2, <2>3
<1>3. Holding(w) = read
  <2>1. 1 .. n \subseteq 1 .. Len(w)
    BY <1>0
  <2>2. {j \in 1 .. Len(w) : w[j] # Separator} = {j \in 1 .. n : v[j] # Separator}
    BY <1>1, <1>2, <2>1
  <2>3. QED BY <1>1, <2>2 DEF Ordered, Holding, n
<1>4. InOrder(w)
  <2>1. ASSUME NEW i \in 1 .. Len(w), NEW j \in 1 .. Len(w), w[i] # Separator, w[j] # Separator
        PROVE  i \in 1 .. n /\ j \in 1 .. n /\ w[i] = v[i] /\ w[j] = v[j]
    BY <1>1, <1>2, <2>1
  <2>2. QED BY <2>1 DEF Ordered, InOrder, n
<1>5. InChunks(w)
  <2>1. ASSUME NEW k \in 1 .. Len(w), w[k] = Separator
        PROVE  \E i \in 1 .. Len(w) : ClosedAfter(w, i) /\ k \in i + 1 .. i + SeparatorLen
    <3>1. CASE k \in 1 .. n
      <4>1. v[k] = Separator
        BY <1>1, <2>1, <3>1
      <4>2. PICK i \in 1 .. n : ClosedAfter(v, i) /\ k \in i + 1 .. i + SeparatorLen
        BY <3>1, <4>1 DEF Ordered, InChunks, n
      <4>3. ClosedAfter(w, i)
        BY <1>1, <4>2, ClosedStays DEF n
      <4>4. i \in 1 .. Len(w)
        BY <1>0
      <4>5. QED BY <4>2, <4>3, <4>4
    <3>2. CASE k \notin 1 .. n
      <4>1. n \in 1 .. n /\ n \in 1 .. Len(w) /\ n \in 1 .. Len(w) - SeparatorLen /\ ~ (n + SeparatorLen < Len(w))
        BY <1>0
      <4>2. w[n] # Separator
        BY <1>1, <4>1 DEF n
      <4>3. ASSUME NEW j \in n + 1 .. n + SeparatorLen PROVE w[j] = Separator
        <5>1. j \in 1 .. Len(w) /\ j \notin 1 .. n
          BY <1>0
        <5>2. QED BY <1>2, <5>1
      <4>4. ClosedAfter(w, n)
        BY <4>1, <4>2, <4>3 DEF ClosedAfter
      <4>5. QED BY <1>2, <3>2, <4>1, <4>4
    <3>3. QED BY <3>1, <3>2
  <2>2. ASSUME NEW i \in 1 .. Len(w) - 1, w[i] # Separator, w[i + 1] # Separator
        PROVE  From(w[i]) = From(w[i + 1])
    <3>1. i \in 1 .. Len(w) /\ i + 1 \in 1 .. Len(w)
      BY <1>0
    <3>2. i \in 1 .. n /\ i + 1 \in 1 .. n
      BY <1>2, <2>2, <3>1
    <3>3. i \in 1 .. n - 1 /\ w[i] = v[i] /\ w[i + 1] = v[i + 1]
      BY <1>0, <1>1, <3>2
    <3>4. QED BY <2>2, <3>3 DEF Ordered, InChunks, n
  <2>3. QED BY <2>1, <2>2 DEF InChunks
<1>6. w[Len(w)] = Separator
  <2>1. Len(w) \in 1 .. Len(w) /\ Len(w) \notin 1 .. n
    BY <1>0
  <2>2. QED BY <1>2, <2>1
<1>7. QED BY <1>1, <1>3, <1>4, <1>5, <1>6 DEF Ordered, w, n

LEMMA ChunkFacts ==
    ASSUME got \in [Sources -> Nat], NEW f \in Sources, NEW n \in Nat
    PROVE  /\ Chunk(f, n) \in Seq(Nat) /\ Len(Chunk(f, n)) = n
           /\ \A i \in 1 .. n : /\ Chunk(f, n)[i] = Byte(f, got[f] + i) /\ got[f] + i \in Nat \ {0}
                                /\ Chunk(f, n)[i] \in Nat \ {0} /\ From(Chunk(f, n)[i]) = f
<1>1. \A i \in 1 .. n : got[f] + i \in Nat \ {0}
  OBVIOUS
<1>2. \A i \in 1 .. n : Byte(f, got[f] + i) \in Nat \ {0} /\ From(Byte(f, got[f] + i)) = f
  BY <1>1, ByteFacts
<1>3. Chunk(f, n) \in [1 .. n -> Nat]
  BY <1>2 DEF Chunk
<1>4. QED BY <1>1, <1>2, <1>3, FunctionIsSeq DEF Chunk

(* The next chunk of a source, once there is a separator after the last.   *)
LEMMA ChunkAdded ==
    ASSUME got \in [Sources -> Nat],
           NEW w \in Seq(Nat), Ordered(w, BytesRead), w # <<>> => w[Len(w)] = Separator,
           NEW f \in Sources, NEW n \in Nat \ {0}, got' = [got EXCEPT ![f] = @ + n]
    PROVE  LET v == w \o Chunk(f, n)
           IN  v \in Seq(Nat) /\ Ordered(v, BytesRead') /\ v # <<>> /\ v[Len(v)] # Separator
<1> DEFINE m == Len(w)
           c == Chunk(f, n)
           v == w \o c
<1>1. /\ v \in Seq(Nat) /\ m \in Nat /\ Len(v) = m + n
      /\ \A i \in 1 .. m : v[i] = w[i] /\ w[i] \in Nat
      /\ \A i \in 1 .. n : v[m + i] = Byte(f, got[f] + i) /\ v[m + i] # Separator /\ From(v[m + i]) = f
  <2>1. c \in Seq(Nat) /\ Len(c) = n /\ \A i \in 1 .. n : /\ c[i] = Byte(f, got[f] + i)
                                                         /\ c[i] # Separator /\ From(c[i]) = f
    BY ChunkFacts, ZenonT(30) DEF Separator
  <2>2. m \in Nat /\ \A i \in 1 .. m : w[i] \in Nat
    BY LenProperties, ElementOfSeq
  <2> HIDE DEF c, m
  <2>3. /\ w \o c \in Seq(Nat) /\ Len(w \o c) = m + n
        /\ \A i \in 1 .. m : (w \o c)[i] = w[i]
        /\ \A i \in 1 .. n : (w \o c)[m + i] = c[i]
    BY <2>1, Joined DEF m
  <2>4. QED BY <2>1, <2>2, <2>3
<1>0. m \in Nat /\ Len(v) = m + n
  BY <1>1
<1> HIDE DEF v, c, m
<1>2. \A k \in 1 .. Len(v) : k \in 1 .. m \/ (k - m \in 1 .. n /\ m + (k - m) = k)
  BY <1>0
<1>3. \A k \in 1 .. Len(v) : k \in 1 .. m \/ (v[k] = Byte(f, got[f] + (k - m)) /\ v[k] # Separator /\ From(v[k]) = f)
  <2>1. ASSUME NEW k \in 1 .. Len(v), k \notin 1 .. m
        PROVE  v[k] = Byte(f, got[f] + (k - m)) /\ v[k] # Separator /\ From(v[k]) = f
    <3> DEFINE j == k - m
    <3>1. j \in 1 .. n /\ m + j = k
      BY <1>2, <2>1
    <3> HIDE DEF j
    <3>2. v[m + j] = Byte(f, got[f] + j) /\ v[m + j] # Separator /\ From(v[m + j]) = f
      BY <1>1, <3>1
    <3>3. QED BY <3>1, <3>2 DEF j
  <2>2. QED BY <2>1
<1>4. Holding(v) = BytesRead'
  <2>1. got' \in [Sources -> Nat] /\ got'[f] = got[f] + n /\ \A g \in Sources : g # f => got'[g] = got[g]
    OBVIOUS
  <2>2. ASSUME NEW x \in Holding(v) PROVE x \in BytesRead'
    <3>1. PICK k \in 1 .. Len(v) : x = v[k] /\ v[k] # Separator
      BY DEF Holding
    <3>2. CASE k \in 1 .. m
      <4>1. x \in BytesRead
        BY <1>1, <3>1, <3>2 DEF Ordered, Holding, m
      <4>2. PICK g \in Sources : \E i \in 1 .. got[g] : x = Byte(g, i)
        BY <4>1 DEF BytesRead
      <4>3. 1 .. got[g] \subseteq 1 .. got'[g]
        BY <2>1
      <4>4. QED BY <4>2, <4>3 DEF BytesRead, Byte
    <3>3. CASE k \notin 1 .. m
      <4>1. x = Byte(f, got[f] + (k - m)) /\ got[f] + (k - m) \in 1 .. got'[f]
        BY <1>2, <1>3, <2>1, <3>1, <3>3
      <4>2. QED BY <4>1 DEF BytesRead, Byte
    <3>4. QED BY <3>2, <3>3
  <2>3. ASSUME NEW x \in BytesRead' PROVE x \in Holding(v)
    <3>1. PICK g \in Sources : \E i \in 1 .. got'[g] : x = Byte(g, i)
      BY DEF BytesRead, Byte
    <3>2. PICK i \in 1 .. got'[g] : x = Byte(g, i)
      BY <3>1
    <3>3. CASE i \in 1 .. got[g]
      <4>1. x \in Holding(w)
        BY <3>2, <3>3 DEF BytesRead, Ordered
      <4>2. PICK k \in 1 .. m : x = w[k] /\ w[k] # Separator
        BY <4>1 DEF Holding, m
      <4>3. k \in 1 .. Len(v) /\ v[k] = w[k]
        <5>1. k \in 1 .. Len(v)
          BY <1>0
        <5>2. QED BY <1>1, <5>1
      <4>4. QED BY <4>2, <4>3 DEF Holding
    <3>4. CASE i \notin 1 .. got[g]
      <4>1. g = f /\ i - got[f] \in 1 .. n /\ got[f] + (i - got[f]) = i
        BY <2>1, <3>4
      <4>2. v[m + (i - got[f])] = x /\ v[m + (i - got[f])] # Separator
        BY <1>1, <3>2, <4>1
      <4>3. m + (i - got[f]) \in 1 .. Len(v)
        BY <1>0, <4>1
      <4>4. QED BY <4>2, <4>3 DEF Holding
    <3>5. QED BY <3>3, <3>4
  <2>4. QED BY <2>2, <2>3
<1>5. InOrder(v)
  <2> SUFFICES ASSUME NEW i \in 1 .. Len(v), NEW j \in 1 .. Len(v), i < j,
                      v[i] # Separator, v[j] # Separator, From(v[i]) = From(v[j])
               PROVE  v[i] < v[j]
    BY DEF InOrder
  <2>1. CASE j \in 1 .. m
    <3>1. i \in 1 .. m
      BY <1>0, <2>1
    <3>2. v[i] = w[i] /\ v[j] = w[j]
      BY <1>1, <2>1, <3>1
    <3>3. QED BY <2>1, <3>1, <3>2 DEF Ordered, InOrder, m
  <2>2. CASE i \in 1 .. m /\ j \notin 1 .. m
    <3>1. v[j] = Byte(f, got[f] + (j - m)) /\ From(v[i]) = f /\ j - m \in 1 .. n
      BY <1>2, <1>3, <2>2
    <3>2. v[i] \in BytesRead
      BY <1>1, <2>2 DEF Ordered, Holding, m
    <3>3. PICK g \in Sources : \E k \in 1 .. got[g] : v[i] = Byte(g, k)
      BY <3>2 DEF BytesRead
    <3>4. PICK k \in 1 .. got[g] : v[i] = Byte(g, k)
      BY <3>3
    <3>5. k \in Nat \ {0}
      BY <3>4
    <3>6. g = f
      BY <3>1, <3>4, <3>5, ByteFacts
    <3>7. k < got[f] + (j - m) /\ got[f] + (j - m) \in Nat
      BY <3>1, <3>6
    <3>8. Byte(f, k) < Byte(f, got[f] + (j - m))
      BY <3>5, <3>7, ByteOrder
    <3>9. QED BY <3>1, <3>4, <3>6, <3>8
  <2>3. CASE i \notin 1 .. m
    <3>1. j \notin 1 .. m
      BY <1>0, <2>3
    <3>2. /\ v[i] = Byte(f, got[f] + (i - m)) /\ v[j] = Byte(f, got[f] + (j - m))
          /\ i - m \in 1 .. n /\ j - m \in 1 .. n
      BY <1>2, <1>3, <2>3, <3>1
    <3>3. got[f] + (i - m) \in Nat /\ got[f] + (j - m) \in Nat /\ got[f] + (i - m) < got[f] + (j - m)
      BY <1>0, <3>2
    <3>4. QED BY <3>2, <3>3, ByteOrder
  <2>4. QED BY <2>1, <2>2, <2>3
<1>6. InChunks(v)
  <2>1. ASSUME NEW k \in 1 .. Len(v), v[k] = Separator
        PROVE  \E i \in 1 .. Len(v) : ClosedAfter(v, i) /\ k \in i + 1 .. i + SeparatorLen
    <3>1. k \in 1 .. m /\ w[k] = Separator
      BY <1>1, <1>3, <2>1
    <3>2. PICK i \in 1 .. m : ClosedAfter(w, i) /\ k \in i + 1 .. i + SeparatorLen
      BY <3>1 DEF Ordered, InChunks, m
    <3>3. m + 1 \in 1 .. Len(v) /\ m + 1 \notin 1 .. m
      BY <1>0
    <3>4. v[m + 1] # Separator
      BY <1>3, <3>3
    <3>5. ClosedAfter(v, i)
      BY <1>1, <3>2, <3>4, ClosedStays DEF m
    <3>6. i \in 1 .. Len(v)
      BY <1>0
    <3>7. QED BY <3>2, <3>5, <3>6
  <2>2. ASSUME NEW i \in 1 .. Len(v) - 1, v[i] # Separator, v[i + 1] # Separator
        PROVE  From(v[i]) = From(v[i + 1])
    <3>1. i \in 1 .. Len(v) /\ i + 1 \in 1 .. Len(v)
      BY <1>0
    <3>2. CASE i < m
      <4>1. i \in 1 .. m - 1 /\ i \in 1 .. m /\ i + 1 \in 1 .. m
        BY <1>0, <3>2
      <4>2. v[i] = w[i] /\ v[i + 1] = w[i + 1]
        BY <1>1, <4>1
      <4>3. QED BY <2>2, <4>1, <4>2 DEF Ordered, InChunks, m
    <3>3. CASE i = m
      <4>1. w # <<>> /\ i \in 1 .. m
        BY <1>0, <3>3, EmptySeq DEF m
      <4>2. v[i] = Separator
        BY <1>1, <3>3, <4>1 DEF m
      <4>3. QED BY <2>2, <4>2
    <3>4. CASE i > m
      <4>1. i \notin 1 .. m /\ i + 1 \notin 1 .. m
        BY <1>0, <3>4
      <4>2. QED BY <1>3, <3>1, <4>1
    <3>5. QED BY <1>0, <3>2, <3>3, <3>4
  <2>3. QED BY <2>1, <2>2 DEF InChunks
<1>7. v # <<>> /\ v[Len(v)] # Separator
  <2>1. Len(v) \in 1 .. Len(v) /\ Len(v) \notin 1 .. m
    BY <1>0
  <2>2. QED BY <1>3, <2>1, EmptySeq
<1>8. QED BY <1>1, <1>4, <1>5, <1>6, <1>7 DEF Ordered, v, c

-----------------------------------------------------------------------------
(* What the reads do to the buffer.  Its window never moves, as nothing is *)
(* retrieved and the room before it never suffices, so that the vector is  *)
(* at most twice as large, over what it had at first, as the bytes in it;  *)
(* and no memcpy() of overlapping ranges is ever made.  In the window      *)
(* there is at most one separator line for every byte read.                *)
Counted ==
    /\ sent \in [Sources -> Nat] /\ got \in [Sources -> Nat]
    /\ \A f \in Sources : got[f] <= sent[f] /\ sent[f] <= MaxSent[f]
    /\ peer \in [Sources -> {"away", "open", "closed", "reset"}] /\ peer[Stdin] # "reset"
    /\ tty \in BOOLEAN /\ main \in {"add", "loop"} /\ at \in {"loop", "add", "del"}

Roomy ==
    ~ Ended => /\ Good(buf) /\ buf.kreadIndex_ = kinitPreSize /\ buf.intact
               /\ size(buf) <= kinitSize + 2 * readable(buf)

Share == 1 + SeparatorLen

FewSeparators ==
    /\ IsFiniteSet(BytesRead)
    /\ ~ Ended => readable(buf) <= Share * Cardinality(BytesRead)

KInv == Counted /\ Roomy /\ FewSeparators /\ ChunksIntact /\ StaysUp

LEMMA InitKInv == ASSUME NetInit PROVE KInv
<1>1. /\ buf = EmptyBuffer /\ sent = [f \in Sources |-> 0] /\ got = sent
      /\ peer = [f \in Sources |-> IF f = Stdin THEN "open" ELSE "away"]
      /\ tty \in BOOLEAN /\ main = "add" /\ at = "loop"
  BY DEF NetInit
<1>2. Counted
  BY <1>1, SourceTypes DEF Counted
<1>3. /\ Good(buf) /\ buf.intact /\ size(buf) = kinitSize
      /\ buf.kreadIndex_ = kinitPreSize /\ buf.kwriteIndex_ = kinitPreSize
  <2>1. Zeros(kinitSize) \in Seq(Nat) /\ Len(Zeros(kinitSize)) = kinitSize
    BY Sizes DEF Zeros
  <2>2. QED BY <1>1, <2>1, Sizes DEF EmptyBuffer, BufferType, Good, size
<1>4. readable(buf) = 0 /\ window(buf) = <<>>
  <2>1. readable(buf) = buf.kwriteIndex_ - buf.kreadIndex_
    BY <1>3, GoodSizes
  <2>2. readable(buf) = 0
    BY <1>3, <2>1, Sizes
  <2>3. QED BY <1>3, <2>2, WindowFacts, EmptySeq
<1>5. Roomy /\ StaysUp
  BY <1>3, <1>4, Sizes DEF Roomy, StaysUp, Ended, Good
<1>6. ChunksIntact /\ FewSeparators
  <2>1. Len(window(buf)) = 0 /\ Holding(window(buf)) = {}
    BY <1>4, EmptySeq DEF Holding
  <2>2. \A f \in Sources : got[f] = 0
    BY <1>1
  <2>3. BytesRead = {}
    BY <2>2 DEF BytesRead
  <2>4. InOrder(window(buf)) /\ InChunks(window(buf))
    BY <1>4, <2>1 DEF InOrder, InChunks
  <2>5. FewSeparators
    <3>1. IsFiniteSet(BytesRead) /\ Cardinality(BytesRead) = 0
      BY <2>3, FS_EmptySet
    <3>2. readable(buf) <= Share * Cardinality(BytesRead)
      BY <1>4, <3>1, LineFacts DEF Share
    <3>3. QED BY <3>1, <3>2 DEF FewSeparators
  <2>6. QED BY <1>4, <2>1, <2>3, <2>4, <2>5 DEF ChunksIntact
<1>7. QED BY <1>2, <1>5, <1>6 DEF KInv

(* A step that reads nothing.                                              *)
LEMMA BufferKept ==
    ASSUME KInv, ~ Ended, UNCHANGED <<buf, got>>, Counted'
    PROVE  KInv'
<1>1. Roomy' /\ ~ Ended'
  BY DEF KInv, Roomy, Ended, Good, size, readable
<1>2. StaysUp'
  BY <1>1 DEF StaysUp
<1>3. ChunksIntact' /\ FewSeparators'
  <2>1. window(buf)' = window(buf) /\ BytesRead' = BytesRead /\ Ended' = Ended /\ readable(buf)' = readable(buf)
    BY DEF window, BytesRead, Byte, Ended, readable
  <2>2. ChunksIntact'
    BY <2>1 DEF KInv, ChunksIntact, InOrder, InChunks, ClosedAfter, Holding, Ended
  <2>3. FewSeparators'
    BY <2>1 DEF KInv, FewSeparators
  <2>4. QED BY <2>2, <2>3
<1>4. QED BY <1>1, <1>2, <1>3 DEF KInv

LEMMA RoomFor ==
    ASSUME NEW s \in Nat, NEW r \in Nat, NEW n \in Nat, s <= kinitSize + 2 * r
    PROVE  /\ r + n \in Nat
           /\ s + 2 * n > MaxSize => kinitSize + 2 * (r + n) > MaxSize
           /\ \A t \in Nat : t <= s + 2 * n => t <= kinitSize + 2 * (r + n)
BY Sizes

\* A chunk is at least one byte, so that one more separator line has its share.
LEMMA ShareFor ==
    ASSUME NEW r \in Nat, NEW k \in Nat, NEW n \in Nat \ {0}, r <= Share * k
    PROVE  r + n + SeparatorLen <= Share * (k + n)
<1> DEFINE l == SeparatorLen
<1>1. l \in Nat /\ Share = 1 + l
  BY LineFacts DEF Share
<1> HIDE DEF l
<1>2. (1 + l) * (k + n) = (1 + l) * k + n + l * n /\ l * n >= l /\ (1 + l) * k \in Nat /\ l * n \in Nat
  BY <1>1
<1>3. QED BY <1>1, <1>2 DEF l

(* A vector that cannot grow, when at least half of it would be in use.    *)
LEMMA ThrowIsLate ==
    ASSUME NEW k \in Nat, kinitSize + 2 * k > MaxSize, NEW read \in Nat, k <= Share * read
    PROVE  2 * Share * read > MaxSize - kinitSize
<1>1. Share \in Nat /\ Share * read \in Nat
  BY LineFacts DEF Share
<1>2. 2 * Share * read = 2 * (Share * read)
  BY <1>1
<1>3. QED BY <1>1, <1>2, Sizes

(* readFd() and append(): the chunk and its line are added, or the program *)
(* ends, at a time when more than half the vector is in use.               *)
LEMMA ReadKeepsKInv == ASSUME IInv, JInv, KInv, ~ Ended, Read PROVE KInv'
<1>1. PICK n \in Fds :
          /\ Event(n) /\ table[n] # None
          /\ UNCHANGED <<table, interest, at, fd, tty, main, backlog, peer, sent>>
          /\ \E len \in 1 .. (sent[table[n]] - got[table[n]]) :
                /\ len <= MaxRead(buf)
                /\ buf' \in ReadAndSeparate(buf, Chunk(table[n], len))
                /\ got' = [got EXCEPT ![table[n]] = @ + len]
  BY DEF Read
<1> DEFINE f == table[n]
           w == window(buf)
<1>2. f \in Sources
  <2>1. f # Listener
    BY <1>1, FileTypes, NetAssumption DEF Event, JInv, OneNumber
  <2>2. QED BY <1>1, <2>1 DEF IInv, Typed, Files
<1> HIDE DEF f
<1>3. PICK len \in 1 .. (sent[f] - got[f]) :
          /\ len <= MaxRead(buf)
          /\ buf' \in ReadAndSeparate(buf, Chunk(f, len))
          /\ got' = [got EXCEPT ![f] = @ + len]
  BY <1>1 DEF f
<1> DEFINE c == Chunk(f, len)
           v == w \o c
           u == v \o SeparatorLine
<1>4. got \in [Sources -> Nat] /\ sent \in [Sources -> Nat] /\ len \in Nat \ {0} /\ got[f] + len <= sent[f]
  BY <1>2, <1>3 DEF KInv, Counted
<1>5. Counted'
  <2>1. /\ got' \in [Sources -> Nat] /\ got'[f] = got[f] + len /\ \A g \in Sources : g # f => got'[g] = got[g]
    BY <1>2, <1>3, <1>4
  <2>2. \A g \in Sources : got'[g] <= sent[g]
    BY <1>4, <2>1 DEF KInv, Counted
  <2>3. QED BY <1>1, <2>1, <2>2 DEF KInv, Counted
<1>6. /\ Good(buf) /\ buf.kreadIndex_ = kinitPreSize /\ size(buf) <= kinitSize + 2 * readable(buf) /\ buf.intact
      /\ w \in Seq(Nat) /\ Len(w) = readable(buf) /\ Ordered(w, BytesRead)
      /\ w # <<>> => w[Len(w)] = Separator
  BY WindowFacts DEF KInv, Roomy, ChunksIntact, Ordered
<1>7. c \in Seq(Nat) /\ Len(c) = len
  BY <1>2, <1>4, ChunkFacts
<1>8. v \in Seq(Nat) /\ Ordered(v, BytesRead') /\ v # <<>> /\ v[Len(v)] # Separator /\ Len(v) = readable(buf) + len
  <2>1. Len(v) = readable(buf) + len
    BY <1>6, <1>7, Joined, ZenonT(30)
  <2> HIDE DEF w
  <2>2. QED BY <1>2, <1>3, <1>4, <1>6, <2>1, ChunkAdded
<1>9. /\ Ordered(u, BytesRead') /\ u[Len(u)] = Separator
      /\ Len(u) = readable(buf) + len + SeparatorLen
  <2> HIDE DEF v
  <2>1. QED BY <1>8, SeparatorAdded
<1>10. /\ readable(buf) \in Nat /\ size(buf) \in Nat /\ writable(buf) \in Nat
  BY <1>6, GoodSizes
\* How many bytes there are, in the buffer or thrown away, bounds what is read.
<1>11. /\ IsFiniteSet(BytesRead') /\ Cardinality(BytesRead') \in Nat
       /\ readable(buf) + len + SeparatorLen <= Share * Cardinality(BytesRead')
  <2>1. /\ IsFiniteSet(BytesRead') /\ Cardinality(BytesRead) \in Nat
        /\ Cardinality(BytesRead') = Cardinality(BytesRead) + len
    BY <1>2, <1>3, <1>4, MoreRead DEF KInv, FewSeparators
  <2>2. readable(buf) <= Share * Cardinality(BytesRead)
    BY DEF KInv, FewSeparators
  <2>3. readable(buf) + len + SeparatorLen <= Share * (Cardinality(BytesRead) + len)
    BY <1>4, <1>10, <2>1, <2>2, ShareFor
  <2>4. QED BY <1>4, <2>1, <2>3
<1>12. ASSUME NEW k \in Nat, kinitSize + 2 * k > MaxSize, buf'.status = "throw",
              k <= readable(buf) + len + SeparatorLen
       PROVE  KInv'
  <2>1. k <= Share * Cardinality(BytesRead')
    <3>1. Share \in Nat /\ readable(buf) + len + SeparatorLen \in Nat
      BY <1>4, <1>10, LineFacts DEF Share
    <3>2. Share * Cardinality(BytesRead') \in Nat
      BY <1>11, <3>1
    <3>3. QED BY <1>11, <1>12, <3>1, <3>2
  <2>2. 2 * Share * Cardinality(BytesRead') > MaxSize - kinitSize
    BY <1>11, <1>12, <2>1, ThrowIsLate
  <2>3. buf'.status # "ok"
    BY <1>12
  <2>4. StaysUp' /\ Ended'
    BY <1>12, <2>2, <2>3 DEF StaysUp, Ended, Share
  <2>5. Roomy' /\ ChunksIntact' /\ FewSeparators'
    BY <1>11, <2>4 DEF Roomy, ChunksIntact, FewSeparators
  <2>6. QED BY <1>5, <2>4, <2>5 DEF KInv
<1>13. PICK e \in readFd(buf, c, Len(c)) :
           buf' \in (IF e.status = "ok" THEN append(e, SeparatorLine, SeparatorLen) ELSE {e})
  BY <1>3 DEF ReadAndSeparate
<1>14. e.intact /\ (Added(e, buf, c) \/ Threw(e, buf, len))
  <2>1. len - writable(buf) <= ExtraSize
    BY <1>3, <1>4, <1>10, SizeAssumption DEF MaxRead
  <2>2. 4 * (len - writable(buf)) <= Word
    BY <1>4, <1>10, <2>1, SizeAssumption
  <2> HIDE DEF c
  <2>3. kinitPreSize <= buf.kreadIndex_ /\ 4 * (Len(c) - writable(buf)) <= Word
    BY <1>6, <1>7, <2>2, Sizes
  <2>4. e.intact
    <3>1. Len(c) \in Nat
      BY <1>4, <1>7
    <3>2. e.intact = buf.intact
      BY <1>6, <1>7, <1>13, <3>1, ReadFdIntact
    <3>3. QED BY <1>6, <3>2
  <2>5. QED BY <1>6, <1>7, <1>13, <2>3, <2>4, ReadFdAdds
<1>15. CASE Threw(e, buf, len)
  <2>1. e.status = "throw" /\ buf' = e /\ size(buf) + 2 * len > MaxSize
    BY <1>13, <1>15 DEF Threw
  <2>2. kinitSize + 2 * (readable(buf) + len) > MaxSize /\ readable(buf) + len \in Nat
    BY <1>4, <1>6, <1>10, <2>1, RoomFor
  <2>3. readable(buf) + len <= readable(buf) + len + SeparatorLen
    BY <2>2, LineFacts
  <2>4. QED BY <1>12, <2>1, <2>2, <2>3
<1>16. CASE Added(e, buf, c)
  <2>1. /\ Good(e) /\ e.status = "ok" /\ window(e) = v /\ e.kreadIndex_ = kinitPreSize
        /\ size(e) <= size(buf) + 2 * len
    BY <1>6, <1>7, <1>16 DEF Added, Good
  <2>2. readable(e) = readable(buf) + len /\ size(e) \in Nat /\ readable(e) \in Nat
    <3> HIDE DEF v
    <3>1. QED BY <1>8, <2>1, WindowFacts, GoodSizes
  <2>3. size(e) <= kinitSize + 2 * readable(e)
    BY <1>4, <1>6, <1>10, <2>1, <2>2, RoomFor
  <2>4. buf' \in append(e, SeparatorLine, SeparatorLen)
    BY <1>13, <2>1
  <2>5. buf'.intact
    <3>1. buf'.intact = e.intact
      BY <2>1, <2>4, LineFacts, AppendIntact
    <3>2. QED BY <1>14, <3>1
  <2>6. Added(buf', e, SeparatorLine) \/ Threw(buf', e, SeparatorLen)
    <3>1. kinitPreSize <= e.kreadIndex_
      BY <2>1, Sizes
    <3>2. QED BY <2>1, <2>4, <2>5, <3>1, LineFacts, AppendAdds
  <2>7. readable(e) + SeparatorLen \in Nat /\ readable(e) + SeparatorLen = readable(buf) + len + SeparatorLen
    BY <2>2, LineFacts
  <2>8. CASE Threw(buf', e, SeparatorLen)
    <3>1. buf'.status = "throw" /\ size(e) + 2 * SeparatorLen > MaxSize
      BY <2>8 DEF Threw
    <3>2. kinitSize + 2 * (readable(e) + SeparatorLen) > MaxSize
      BY <2>2, <2>3, <3>1, LineFacts, RoomFor
    <3>3. readable(e) + SeparatorLen <= readable(buf) + len + SeparatorLen
      BY <2>7
    <3>4. QED BY <1>12, <2>7, <3>1, <3>2, <3>3
  <2>9. CASE Added(buf', e, SeparatorLine)
    <3>1. /\ Good(buf') /\ window(buf') = u /\ buf'.kreadIndex_ = kinitPreSize
          /\ size(buf') <= size(e) + 2 * SeparatorLen
      BY <2>1, <2>9, LineFacts DEF Added
    <3>2. readable(buf') = readable(e) + SeparatorLen /\ size(buf') \in Nat
      <4> HIDE DEF u
      <4>1. QED BY <1>9, <2>7, <3>1, WindowFacts, GoodSizes
    <3>3. size(buf') <= kinitSize + 2 * readable(buf')
      <4>1. size(buf') <= kinitSize + 2 * (readable(e) + SeparatorLen)
        BY <2>2, <2>3, <3>1, <3>2, LineFacts, RoomFor
      <4>2. QED BY <3>2, <4>1
    <3>4. ~ Ended' /\ StaysUp'
      BY <3>1 DEF Ended, Good, StaysUp
    <3>5. Roomy'
      BY <2>5, <3>1, <3>3 DEF Roomy, Good, size, readable
    <3>6. ChunksIntact'
      <4>1. window(buf)' = u
        BY <3>1 DEF window
      <4> HIDE DEF u
      <4>2. QED BY <1>9, <4>1 DEF ChunksIntact, Ordered
    <3>7. FewSeparators'
      <4>1. readable(buf)' = readable(buf) + len + SeparatorLen
        BY <2>7, <3>2 DEF readable
      <4>2. QED BY <1>11, <4>1 DEF FewSeparators
    <3>8. QED BY <1>5, <3>4, <3>5, <3>6, <3>7 DEF KInv
  <2>10. QED BY <2>6, <2>8, <2>9
<1>17. QED BY <1>14, <1>15, <1>16

(* A failed readv() always ends the program: -1 is taken for a length.     *)
LEMMA ReadErrorKeepsKInv == ASSUME IInv, JInv, KInv, ~ Ended, ReadError PROVE KInv'
<1>1. PICK n \in Fds :
          /\ Event(n)
          /\ table[n] # None => peer[table[n]] = "reset"
          /\ buf' \in readFd(buf, <<>>, Word - 1)
          /\ UNCHANGED <<table, at, tty, main, peer, sent, got>>
  BY DEF ReadError, others
<1>2. Good(buf)
  BY DEF KInv, Roomy
<1>3. buf'.status # "ok"
  BY <1>1, <1>2, ReadErrorEnds
<1>4. Counted' /\ Ended' /\ BytesRead' = BytesRead
  BY <1>1, <1>3 DEF KInv, Counted, Ended, BytesRead, Byte
<1>5. StdinAstray \/ \E c \in Clients : peer[c] = "reset"
  <2>1. CASE table[n] = None
    <3>1. batch # <<>> /\ n = Head(batch)[2] /\ batch' = Tail(batch)
      BY <1>1 DEF Event
    <3>2. n = batch[1][2] /\ batch[1] \in Keys /\ (~ StdinAstray => table[batch[1][2]] = batch[1][1])
      BY <3>1, RestIsOther
    <3>3. batch[1][1] # None
      BY <3>2, FileTypes DEF Keys
    <3>4. QED BY <2>1, <3>2, <3>3
  <2>2. CASE table[n] # None
    <3>1. peer[table[n]] = "reset" /\ table[n] \in Files
      BY <1>1, <2>2 DEF IInv, Typed
    <3>2. table[n] # Listener
      BY <1>1, <2>2, FileTypes, NetAssumption DEF Event, JInv, OneNumber
    <3>3. table[n] # Stdin
      BY <3>1 DEF KInv, Counted
    <3>4. table[n] \in Clients
      BY <3>1, <3>2, <3>3 DEF Files, Sources
    <3>5. QED BY <3>1, <3>4
  <2>3. QED BY <2>1, <2>2
<1>6. StaysUp'
  BY <1>1, <1>5 DEF StaysUp, StdinAstray
<1>7. Roomy' /\ ChunksIntact' /\ FewSeparators'
  BY <1>4 DEF KInv, Roomy, ChunksIntact, FewSeparators
<1>8. QED BY <1>4, <1>6, <1>7 DEF KInv

LEMMA OthersKeepKInv ==
    ASSUME KInv, ~ Ended,
           Environment \/ Main \/ NetWait \/ Accept \/ EndOfStream \/ AddConnection \/ DelConnection
    PROVE  KInv'
<1>1. UNCHANGED <<buf, got>>
  BY DEF Environment, Connect, Send, Leave, server, Main, MainAdd, MainMod, NetWait, others,
         Accept, AcceptOne, EndOfStream, AtEnd, AddConnection, Add, DelConnection
<1>2. Counted'
  <2> USE SourceTypes, NetAssumption DEF KInv, Counted
  <2>1. CASE Environment
    <3>1. CASE \E c \in Clients : Connect(c)
      <4>1. PICK c \in Clients : peer' = [peer EXCEPT ![c] = "open"] /\ UNCHANGED <<at, tty, main, sent>>
        BY <3>1 DEF Connect, server
      <4>2. QED BY <1>1, <4>1
    <3>2. CASE \E f \in Sources : Send(f)
      <4>1. PICK f \in Sources : /\ sent[f] < MaxSent[f] /\ sent' = [sent EXCEPT ![f] = @ + 1]
                                 /\ UNCHANGED <<at, tty, main, peer>>
        BY <3>2 DEF Send, server
      <4>2. /\ sent' \in [Sources -> Nat] /\ sent'[f] = sent[f] + 1
            /\ \A g \in Sources : g # f => sent'[g] = sent[g]
        <5>1. sent \in [Sources -> Nat]
          BY DEF KInv, Counted
        <5> HIDE DEF KInv, Counted
        <5>2. sent[f] + 1 \in Nat
          BY <5>1
        <5>3. QED BY <4>1, <5>1, <5>2
      <4>3. \A g \in Sources : got[g] <= sent'[g] /\ sent'[g] <= MaxSent[g]
        <5>1. /\ got \in [Sources -> Nat] /\ sent \in [Sources -> Nat] /\ MaxSent \in [Sources -> Nat]
              /\ \A g \in Sources : got[g] <= sent[g] /\ sent[g] <= MaxSent[g]
          BY DEF KInv, Counted
        <5> HIDE SourceTypes, NetAssumption DEF KInv, Counted
        <5>2. got[f] <= sent'[f] /\ sent'[f] <= MaxSent[f]
          BY <4>1, <4>2, <5>1
        <5>3. QED BY <4>2, <5>1, <5>2
      <4>4. QED BY <1>1, <4>1, <4>2, <4>3
    <3>3. CASE \E f \in Sources : Leave(f)
      <4>1. PICK f \in Sources :
                /\ \E how \in IF f \in Resettable THEN {"closed", "reset"} ELSE {"closed"} :
                        peer' = [peer EXCEPT ![f] = how]
                /\ UNCHANGED <<at, tty, main, sent>>
        BY <3>3 DEF Leave, server
      <4>2. Stdin \notin Resettable
        BY DEF Stdin
      <4>3. QED BY <1>1, <4>1, <4>2
    <3>4. QED BY <2>1, <3>1, <3>2, <3>3 DEF Environment
  <2>2. CASE Main
    BY <1>1, <2>2 DEF Main, MainAdd, MainMod, others
  <2>3. CASE NetWait \/ AddConnection \/ DelConnection
    BY <1>1, <2>3 DEF NetWait, AddConnection, Add, DelConnection, others
  <2>4. CASE Accept
    BY <1>1, <2>4 DEF Accept, AcceptOne
  <2>5. CASE EndOfStream
    <3>1. PICK n \in Fds : /\ peer' = IF table[n] = Stdin /\ tty THEN [peer EXCEPT ![table[n]] = "open"] ELSE peer
                           /\ at' = "del" /\ UNCHANGED <<tty, main, sent>>
      BY <2>5 DEF EndOfStream, AtEnd
    <3>2. QED BY <1>1, <3>1
  <2>6. QED BY <2>1, <2>2, <2>3, <2>4, <2>5
<1>3. QED BY <1>1, <1>2, BufferKept

LEMMA InvarianceOfK == NetInit /\ [][NetNext]_netVars => []KInv
<1>1. IInv /\ JInv /\ KInv /\ [NetNext]_netVars => KInv'
  <2> SUFFICES ASSUME IInv, JInv, KInv, [NetNext]_netVars PROVE KInv'
    OBVIOUS
  <2>1. CASE UNCHANGED netVars
    <3>1. /\ UNCHANGED <<buf, got, sent, peer, tty, main, at, table>>
      BY <2>1 DEF netVars
    <3>2. Counted' /\ StaysUp' /\ Roomy'
      BY <3>1 DEF KInv, Counted, StaysUp, StdinAstray, Ended, BytesRead, Byte, Roomy, Good, size, readable
    <3>3. /\ window(buf)' = window(buf) /\ BytesRead' = BytesRead
          /\ Ended' = Ended /\ readable(buf)' = readable(buf)
      BY <3>1 DEF window, BytesRead, Byte, Ended, readable
    <3>4. ChunksIntact'
      BY <3>1, <3>3 DEF KInv, ChunksIntact, InOrder, InChunks, ClosedAfter, Holding, Ended
    <3>5. FewSeparators'
      BY <3>3 DEF KInv, FewSeparators
    <3>6. QED BY <3>2, <3>4, <3>5 DEF KInv
  <2>2. CASE threadFunc
    BY <2>2, OthersKeepKInv, ReadKeepsKInv, ReadErrorKeepsKInv DEF threadFunc, Handle
  <2>3. QED BY <2>1, <2>2, OthersKeepKInv DEF NetNext, Main, Environment
<1>2. QED BY InitKInv, <1>1, Invariance, InvarianceOfJ, PTL

(* Whatever arrives in whatever pieces, on however many connections, the   *)
(* buffer holds every byte that was read once, each source's in the order  *)
(* sent and every chunk closed by one separator line (lines 72-76).        *)
THEOREM ChunksStayIntact == NetSpec => []ChunksIntact
<1>1. KInv => ChunksIntact
  BY DEF KInv
<1>2. QED BY InvarianceOfK, <1>1, PTL DEF NetSpec

(* The reads and appends of lines 72-76 end the program in no other way    *)
(* than a failed readv(), or a vector that cannot grow any more when       *)
(* nothing has been retrieved from it for long enough: separator lines,    *)
(* of whatever length, do not fill it before a byte was read for each.     *)
THEOREM EndsForAReason == NetSpec => []StaysUp
<1>1. KInv => StaysUp
  BY DEF KInv
<1>2. QED BY InvarianceOfK, <1>1, PTL DEF NetSpec

(* The variables keep their types; no more is read than was sent.          *)
LEMMA NetTypes == NetInit /\ [][NetNext]_netVars => []NetTypeOK
<1>1. IInv /\ KInv => NetTypeOK
  BY SourceTypes DEF IInv, Typed, Keys, KInv, Counted, NetTypeOK
<1>2. QED BY Invariance, InvarianceOfK, <1>1, PTL
=============================================================================
