---------------------------- MODULE ReactorProofs ----------------------------
(***************************************************************************)
(* For any number of loops and clients: every connection belongs to one    *)
(* loop, no callback blocks, and the loops are evenly loaded.              *)
(*                                                                         *)
(* OneLoopPerConnection is not inductive.  An accepted connection must be  *)
(* new to connlist, or a loop's registered connection would change hands;  *)
(* and an event must stay ready until its turn, for which no other loop    *)
(* may be able to take it, the acceptor's included.  Balanced follows from *)
(* how many rounds of turns are complete, whatever the clients do.         *)
(***************************************************************************)
EXTENDS Reactor, SequenceTheorems, FiniteSetTheorems, TLAPS

(* A client is in the queue of completed connections once, before it is    *)
(* accepted, and a connection being set up is in connlist.                 *)
NewToConnlist ==
    /\ \A i \in DOMAIN backlog : backlog[i] \notin DOMAIN connlist /\ peer[backlog[i]] # "idle"
    /\ \A i, j \in DOMAIN backlog : backlog[i] = backlog[j] => i = j
    /\ \A c \in DOMAIN connlist : peer[c] # "idle"
    /\ \A l \in Loop : accepting[l] # NoConn => accepting[l] \in DOMAIN connlist

(* Only the loop that the acceptor is registered with, loop 0, accepts.    *)
OneAcceptingLoop ==
    /\ mainPc = 0 => cur = 0
    /\ \A l \in Loop : Acceptor \in interest[l] => l = 0

(* What is unread has been sent.                                           *)
UnreadWasSent == \A c \in Client : unread[c] <= sent[c]

IInv ==
    /\ TypeOK /\ NewToConnlist /\ OneAcceptingLoop /\ UnreadWasSent
    /\ OneLoopPerConnection /\ NeverBlocks

-----------------------------------------------------------------------------
LEMMA InitIInv == Init => IInv
<1> SUFFICES ASSUME Init PROVE IInv
  OBVIOUS
<1>1. 0 \in Loop /\ <<>> \in Seq(Client) /\ DOMAIN <<>> = {}
  BY ReactorAssumption DEF Loop
<1>2. Range(connlist) = {}
  BY <1>1 DEF Init, Range
<1>3. TypeOK
  BY <1>1, <1>2, ReactorAssumption DEF Init, TypeOK
<1>4. QED
  BY <1>1, <1>3 DEF Init, IInv, NewToConnlist, OneLoopPerConnection, OneAcceptingLoop,
         UnreadWasSent, NeverBlocks

(* The turn stays among the loops.                                         *)
LEMMA NextLoopInLoop == ASSUME cur \in Loop, getNextLoop PROVE cur' \in Loop
BY ReactorAssumption DEF getNextLoop, Loop

-----------------------------------------------------------------------------
(* What clients do makes no event less ready.                              *)
LEMMA ConnectStep == ASSUME IInv, NEW c \in Client, Connect(c) PROVE IInv'
<1> USE DEF IInv
<1>1. backlog \in Seq(Client) /\ peer[c] = "idle" /\ peer \in [Client -> {"idle", "open", "closed"}]
      /\ peer' = [peer EXCEPT ![c] = "open"] /\ backlog' = Append(backlog, c)
      /\ UNCHANGED <<serverVars, sent, unread>>
  BY DEF TypeOK, Connect
<1>2. /\ backlog' \in Seq(Client) /\ backlog' # <<>> /\ Len(backlog) \in Nat
      /\ DOMAIN backlog = 1 .. Len(backlog) /\ DOMAIN backlog' = 1 .. Len(backlog) + 1
      /\ \A i \in 1 .. Len(backlog) : backlog'[i] = backlog[i]
      /\ backlog'[Len(backlog) + 1] = c
  BY <1>1, AppendProperties, LenProperties
<1>3. TypeOK'
  BY <1>1, <1>2 DEF TypeOK, serverVars, Loop
<1>4. c \notin DOMAIN connlist /\ \A i \in DOMAIN backlog : backlog[i] # c
  BY <1>1 DEF NewToConnlist
<1>5. NewToConnlist'
  <2>1. \A i \in DOMAIN backlog' : backlog'[i] \notin DOMAIN connlist /\ peer'[backlog'[i]] # "idle"
    <3>1. ASSUME NEW i \in DOMAIN backlog'
          PROVE  backlog'[i] \notin DOMAIN connlist /\ peer'[backlog'[i]] # "idle"
      <4>1. CASE i \in DOMAIN backlog
        <5>1. backlog'[i] = backlog[i] /\ backlog[i] \in Client
          BY <1>1, <1>2, <4>1, ElementOfSeq
        <5>2. QED BY <1>1, <1>4, <4>1, <5>1 DEF NewToConnlist
      <4>2. CASE i = Len(backlog) + 1
        BY <1>1, <1>2, <1>4, <4>2
      <4>3. QED BY <1>2, <3>1, <4>1, <4>2
    <3>2. QED BY <3>1
  <2>2. \A i, j \in DOMAIN backlog' : backlog'[i] = backlog'[j] => i = j
    BY <1>2, <1>4 DEF NewToConnlist
  <2>3. \A d \in DOMAIN connlist : peer'[d] # "idle"
    BY <1>1, <1>4 DEF NewToConnlist, TypeOK
  <2>4. QED BY <1>1, <2>1, <2>2, <2>3 DEF NewToConnlist, serverVars
<1>6. OneLoopPerConnection' /\ OneAcceptingLoop' /\ UnreadWasSent'
  BY <1>1 DEF OneLoopPerConnection, OneAcceptingLoop, UnreadWasSent, serverVars
<1>7. Ready \subseteq Ready'
  <2>1. \A d \in Client : unread'[d] = unread[d] /\ (peer[d] = "closed" => peer'[d] = "closed")
    BY <1>1
  <2>2. QED BY <1>2, <2>1 DEF Ready
<1>8. NeverBlocks'
  BY <1>1, <1>7 DEF NeverBlocks, serverVars
<1>9. QED BY <1>3, <1>5, <1>6, <1>8

LEMMA SendOrCloseStep == ASSUME IInv, NEW c \in Client, Send(c) \/ Close(c) PROVE IInv'
<1> USE DEF IInv
<1>1. /\ peer \in [Client -> {"idle", "open", "closed"}]
      /\ sent \in [Client -> 0 .. MaxSent] /\ unread \in [Client -> 0 .. MaxSent]
      /\ backlog \in Seq(Client) /\ DOMAIN connlist \subseteq Client
      /\ MaxSent \in Nat /\ \A d \in Client : unread[d] <= sent[d]
      /\ UNCHANGED <<serverVars, backlog>>
  BY ReactorAssumption DEF TypeOK, UnreadWasSent, Send, Close
<1>2. /\ peer' \in [Client -> {"idle", "open", "closed"}]
      /\ sent' \in [Client -> 0 .. MaxSent] /\ unread' \in [Client -> 0 .. MaxSent]
      /\ \A d \in Client : /\ unread'[d] <= sent'[d]
                           /\ unread[d] > 0 => unread'[d] > 0
                           /\ peer[d] # "idle" => peer'[d] # "idle"
                           /\ peer[d] = "closed" => peer'[d] = "closed"
  <2>1. CASE Send(c)
    BY <1>1, <2>1 DEF Send
  <2>2. CASE Close(c)
    BY <1>1, <2>2 DEF Close
  <2>3. QED BY <2>1, <2>2
<1>3. TypeOK' /\ UnreadWasSent'
  BY <1>1, <1>2 DEF TypeOK, UnreadWasSent, serverVars, Loop
<1>4. \A i \in DOMAIN backlog : backlog[i] \in Client
  BY <1>1, ElementOfSeq, LenProperties
<1>5. NewToConnlist'
  BY <1>1, <1>2, <1>4 DEF NewToConnlist, serverVars
<1>6. OneLoopPerConnection' /\ OneAcceptingLoop'
  BY <1>1 DEF OneLoopPerConnection, OneAcceptingLoop, serverVars
<1>7. Ready \subseteq Ready'
  BY <1>1, <1>2 DEF Ready
<1>8. NeverBlocks'
  BY <1>1, <1>7 DEF NeverBlocks, serverVars
<1>9. QED BY <1>3, <1>5, <1>6, <1>8

-----------------------------------------------------------------------------
(* main() registers the acceptor with loop 0, the first whose turn it is.  *)
LEMMA MainStep == ASSUME IInv, Main PROVE IInv'
<1> USE DEF IInv
<1>1. /\ mainPc \in 0 .. Num + 1 /\ cur \in Loop /\ Num \in Nat \ {0}
      /\ interest \in [Loop -> SUBSET (Client \cup {Acceptor})]
      /\ UNCHANGED <<connlist, batch, accepting, exited, peerVars>>
      /\ mainPc' \in 1 .. Num + 1
  BY ReactorAssumption DEF TypeOK, Main, RegisterAcceptor, StartLoop
<1>2. cur' \in Loop /\ interest' \in [Loop -> SUBSET (Client \cup {Acceptor})]
  <2>1. CASE RegisterAcceptor
    BY <1>1, <2>1, NextLoopInLoop DEF RegisterAcceptor
  <2>2. CASE StartLoop
    BY <1>1, <2>2 DEF StartLoop
  <2>3. QED BY <2>1, <2>2 DEF Main
<1>3. TypeOK'
  BY <1>1, <1>2 DEF TypeOK, peerVars, Loop
<1>4. \A l \in Loop : /\ interest[l] \subseteq interest'[l]
                      /\ interest'[l] \ {Acceptor} = interest[l] \ {Acceptor}
                      /\ Acceptor \in interest'[l] => l = 0
  <2>1. CASE RegisterAcceptor
    <3>1. cur = 0 /\ interest' = [interest EXCEPT ![cur] = @ \cup {Acceptor}]
      BY <2>1 DEF RegisterAcceptor, OneAcceptingLoop
    <3>2. QED BY <1>1, <3>1 DEF OneAcceptingLoop
  <2>2. CASE StartLoop
    BY <2>2 DEF StartLoop, OneAcceptingLoop
  <2>3. QED BY <2>1, <2>2 DEF Main
<1>5. OneAcceptingLoop'
  BY <1>1, <1>4 DEF OneAcceptingLoop
<1>6. OneLoopPerConnection'
  BY <1>1, <1>4 DEF OneLoopPerConnection
<1>7. NewToConnlist' /\ UnreadWasSent' /\ NeverBlocks'
  BY <1>1 DEF NewToConnlist, UnreadWasSent, NeverBlocks, Ready, peerVars
<1>8. QED BY <1>3, <1>5, <1>6, <1>7

-----------------------------------------------------------------------------
LEMMA EpollWaitStep == ASSUME IInv, NEW l \in Loop, EpollWait(l) PROVE IInv'
<1> USE DEF IInv
<1>1. PICK events \in SUBSET (Ready \cap interest[l]) : batch' = [batch EXCEPT ![l] = events]
  BY DEF EpollWait
<1>2. UNCHANGED <<mainPc, cur, connlist, interest, accepting, exited, peerVars>>
  BY DEF EpollWait
<1>3. /\ batch \in [Loop -> SUBSET (Client \cup {Acceptor})]
      /\ interest \in [Loop -> SUBSET (Client \cup {Acceptor})]
  BY DEF TypeOK
<1>4. \A k \in Loop : batch'[k] \subseteq Ready \cap interest[k]
  BY <1>1, <1>3 DEF NeverBlocks, OneLoopPerConnection
<1>5. batch' \in [Loop -> SUBSET (Client \cup {Acceptor})]
  BY <1>1, <1>3
<1>6. TypeOK'
  BY <1>2, <1>5 DEF TypeOK, peerVars
<1>7. Ready' = Ready
  BY <1>2 DEF Ready, peerVars
<1>8. OneLoopPerConnection' /\ NeverBlocks'
  BY <1>2, <1>4, <1>7 DEF OneLoopPerConnection, NeverBlocks
<1>9. NewToConnlist' /\ UnreadWasSent' /\ OneAcceptingLoop'
  BY <1>2 DEF NewToConnlist, UnreadWasSent, OneAcceptingLoop, peerVars
<1>10. QED BY <1>6, <1>8, <1>9

(* The accepting loop takes the head of the queue.  No other loop's batch  *)
(* has the acceptor in it, and the client is new to connlist.              *)
LEMMA AcceptStep == ASSUME IInv, NEW l \in Loop, Accept(l) PROVE IInv'
<1> USE DEF IInv
<1> DEFINE c == Head(backlog)
<1>1. /\ batch \in [Loop -> SUBSET (Client \cup {Acceptor})]
      /\ accepting \in [Loop -> Client \cup {NoConn}]
      /\ backlog \in Seq(Client) /\ cur \in Loop
      /\ DOMAIN connlist \subseteq Client /\ Range(connlist) \subseteq Loop
      /\ Acceptor \notin Client /\ NoConn \notin Client
  BY ReactorAssumption DEF TypeOK
<1>2. /\ Acceptor \in batch[l] /\ Acceptor \in Ready
      /\ batch' = [batch EXCEPT ![l] = @ \ {Acceptor}]
      /\ connlist' = [d \in DOMAIN connlist \cup {c} |-> IF d = c THEN cur ELSE connlist[d]]
      /\ accepting' = [accepting EXCEPT ![l] = c]
      /\ backlog' = Tail(backlog) /\ getNextLoop
      /\ UNCHANGED <<mainPc, interest, exited, peer, sent, unread>>
      /\ mainPc # 0
  BY DEF Accept, Handles, Started, Loop, TypeOK
<1>3. backlog # <<>>
  BY <1>1, <1>2 DEF Ready
<1>4. /\ c \in Client /\ backlog' \in Seq(Client) /\ Len(backlog') = Len(backlog) - 1
      /\ Len(backlog) \in Nat \ {0} /\ c = backlog[1]
      /\ DOMAIN backlog = 1 .. Len(backlog) /\ DOMAIN backlog' = 1 .. Len(backlog')
      /\ \A i \in 1 .. Len(backlog') : backlog'[i] = backlog[i + 1]
  BY <1>1, <1>2, <1>3, HeadTailProperties, LenProperties
<1> HIDE DEF c
<1>5. c \notin DOMAIN connlist /\ peer[c] # "idle"
  BY <1>4 DEF NewToConnlist
<1>6. /\ DOMAIN connlist' = DOMAIN connlist \cup {c} /\ connlist'[c] = cur
      /\ \A d \in DOMAIN connlist : connlist'[d] = connlist[d]
  BY <1>2, <1>5
<1>7. TypeOK'
  <2>1. cur' \in Loop
    BY <1>1, <1>2, NextLoopInLoop
  <2>2. Range(connlist') \subseteq Loop /\ DOMAIN connlist' \subseteq Client
    BY <1>1, <1>4, <1>6 DEF Range
  <2>3. batch' \in [Loop -> SUBSET (Client \cup {Acceptor})]
    BY <1>1, <1>2
  <2>4. accepting' \in [Loop -> Client \cup {NoConn}]
    BY <1>1, <1>2, <1>4
  <2>5. QED BY <1>2, <1>4, <2>1, <2>2, <2>3, <2>4 DEF TypeOK, Loop
<1>8. NewToConnlist'
  <2>1. \A i \in DOMAIN backlog' : /\ i + 1 \in DOMAIN backlog /\ backlog'[i] = backlog[i + 1]
                                   /\ backlog[i + 1] # c
    BY <1>4 DEF NewToConnlist
  <2>2. \A i \in DOMAIN backlog' : backlog'[i] \notin DOMAIN connlist' /\ peer'[backlog'[i]] # "idle"
    BY <1>2, <1>6, <2>1 DEF NewToConnlist
  <2>3. \A i, j \in DOMAIN backlog' : backlog'[i] = backlog'[j] => i = j
    <3>1. ASSUME NEW i \in DOMAIN backlog', NEW j \in DOMAIN backlog', backlog'[i] = backlog'[j]
          PROVE  i = j
      <4>1. i + 1 = j + 1
        BY <2>1, <3>1 DEF NewToConnlist
      <4>2. QED BY <1>4, <4>1
    <3>2. QED BY <3>1
  <2>4. \A d \in DOMAIN connlist' : peer'[d] # "idle"
    BY <1>2, <1>5, <1>6 DEF NewToConnlist
  <2>5. \A k \in Loop : accepting'[k] # NoConn => accepting'[k] \in DOMAIN connlist'
    BY <1>1, <1>2, <1>6 DEF NewToConnlist
  <2>6. QED BY <2>2, <2>3, <2>4, <2>5 DEF NewToConnlist
<1>9. OneLoopPerConnection'
  BY <1>1, <1>2, <1>6 DEF OneLoopPerConnection
<1>10. OneAcceptingLoop' /\ UnreadWasSent'
  BY <1>2 DEF OneAcceptingLoop, UnreadWasSent
<1>11. NeverBlocks'
  <2>1. \A k \in Loop : Acceptor \notin batch'[k]
    <3>1. \A k \in Loop : Acceptor \in batch[k] => k = l
      BY <1>2 DEF OneLoopPerConnection, OneAcceptingLoop
    <3>2. QED BY <1>1, <1>2, <3>1
  <2>2. \A k \in Loop : batch'[k] \subseteq batch[k]
    BY <1>1, <1>2
  <2>3. Ready \ {Acceptor} \subseteq Ready'
    BY <1>2 DEF Ready
  <2>4. QED BY <2>1, <2>2, <2>3 DEF NeverBlocks
<1>12. QED BY <1>7, <1>8, <1>9, <1>10, <1>11

LEMMA AcceptFailsStep == ASSUME IInv, NEW l \in Loop, AcceptFails(l) PROVE IInv'
<1> USE DEF IInv
<1>1. /\ batch \in [Loop -> SUBSET (Client \cup {Acceptor})]
      /\ batch' = [batch EXCEPT ![l] = @ \ {Acceptor}] /\ exited' = TRUE
      /\ UNCHANGED <<mainPc, cur, connlist, interest, accepting, peerVars>>
  BY DEF AcceptFails, Handles, TypeOK
<1>2. /\ batch' \in [Loop -> SUBSET (Client \cup {Acceptor})]
      /\ \A k \in Loop : batch'[k] \subseteq batch[k]
  BY <1>1
<1>3. Ready' = Ready
  BY <1>1 DEF Ready, peerVars
<1>4. QED
  BY <1>1, <1>2, <1>3
  DEF TypeOK, NewToConnlist, OneAcceptingLoop, UnreadWasSent, OneLoopPerConnection, NeverBlocks, peerVars

(* registerLoop() registers with the loop that connlist names.             *)
LEMMA RegisterStep == ASSUME IInv, NEW l \in Loop, Register(l) PROVE IInv'
<1> USE DEF IInv
<1> DEFINE c == accepting[l]
<1>1. /\ interest \in [Loop -> SUBSET (Client \cup {Acceptor})]
      /\ accepting \in [Loop -> Client \cup {NoConn}]
      /\ c \in DOMAIN connlist /\ c \in Client /\ c # Acceptor /\ connlist[c] \in Loop
      /\ interest' = [interest EXCEPT ![connlist[c]] = @ \cup {c}]
      /\ accepting' = [accepting EXCEPT ![l] = NoConn]
      /\ UNCHANGED <<mainPc, cur, connlist, batch, exited, peerVars>>
  BY ReactorAssumption DEF TypeOK, NewToConnlist, Register, Range
<1> HIDE DEF c
<1>2. /\ interest' \in [Loop -> SUBSET (Client \cup {Acceptor})]
      /\ accepting' \in [Loop -> Client \cup {NoConn}]
      /\ \A k \in Loop : /\ interest[k] \subseteq interest'[k]
                         /\ interest'[k] \subseteq interest[k] \cup {c}
                         /\ c \in interest'[k] => c \in interest[k] \/ k = connlist[c]
  BY <1>1
<1>3. TypeOK'
  BY <1>1, <1>2 DEF TypeOK, peerVars
<1>4. NewToConnlist'
  BY <1>1 DEF NewToConnlist, peerVars, TypeOK
<1>5. OneLoopPerConnection' /\ OneAcceptingLoop'
  BY <1>1, <1>2 DEF OneLoopPerConnection, OneAcceptingLoop
<1>6. UnreadWasSent' /\ NeverBlocks'
  BY <1>1 DEF UnreadWasSent, NeverBlocks, Ready, peerVars
<1>7. QED BY <1>3, <1>4, <1>5, <1>6

(* A connection's event is in the batch of its own loop only, so nobody    *)
(* else is left with it when its data have been read.                      *)
LEMMA ReadCallbackStep ==
    ASSUME IInv, NEW l \in Loop, NEW c \in Client, ReadCallback(l, c)
    PROVE  IInv'
<1> USE DEF IInv
<1>1. /\ batch \in [Loop -> SUBSET (Client \cup {Acceptor})]
      /\ sent \in [Client -> 0 .. MaxSent] /\ unread \in [Client -> 0 .. MaxSent]
      /\ MaxSent \in Nat /\ ReadMax \in Nat \ {0} /\ Acceptor \notin Client
      /\ c \in batch[l] /\ batch' = [batch EXCEPT ![l] = @ \ {c}]
      /\ unread' = [unread EXCEPT ![c] = IF @ > ReadMax THEN @ - ReadMax ELSE 0]
      /\ UNCHANGED <<mainPc, cur, connlist, interest, accepting, exited, backlog, peer, sent>>
  BY ReactorAssumption DEF ReadCallback, Handles, TypeOK
<1>2. /\ batch' \in [Loop -> SUBSET (Client \cup {Acceptor})]
      /\ \A k \in Loop : batch'[k] \subseteq batch[k]
  BY <1>1
<1>3. unread' \in [Client -> 0 .. MaxSent] /\ UnreadWasSent'
  BY <1>1 DEF UnreadWasSent
<1>4. TypeOK'
  BY <1>1, <1>2, <1>3 DEF TypeOK
<1>5. NewToConnlist' /\ OneAcceptingLoop' /\ OneLoopPerConnection'
  BY <1>1, <1>2 DEF NewToConnlist, OneAcceptingLoop, OneLoopPerConnection
<1>6. NeverBlocks'
  <2>1. \A k \in Loop : c \notin batch'[k]
    <3>1. \A k \in Loop : c \in batch[k] => k = l
      BY <1>1 DEF OneLoopPerConnection
    <3>2. QED BY <1>1, <3>1
  <2>2. Ready \ {c} \subseteq Ready'
    BY <1>1 DEF Ready
  <2>3. QED BY <1>2, <2>1, <2>2 DEF NeverBlocks
<1>7. QED BY <1>3, <1>4, <1>5, <1>6

-----------------------------------------------------------------------------
LEMMA Invariance == Spec => []IInv
<1>1. IInv /\ [Next]_vars => IInv'
  <2> SUFFICES ASSUME IInv, [Next]_vars PROVE IInv'
    OBVIOUS
  <2>1. CASE Main
    BY <2>1, MainStep
  <2>2. ASSUME NEW l \in Loop, LoopStep(l) PROVE IInv'
    BY <2>2, EpollWaitStep, AcceptStep, AcceptFailsStep, RegisterStep, ReadCallbackStep DEF LoopStep
  <2>3. ASSUME NEW c \in Client, ClientStep(c) PROVE IInv'
    BY <2>3, ConnectStep, SendOrCloseStep DEF ClientStep
  <2>4. CASE UNCHANGED vars
    BY <2>4 DEF vars, serverVars, peerVars, IInv, TypeOK, NewToConnlist, OneAcceptingLoop,
                UnreadWasSent, OneLoopPerConnection, NeverBlocks, Ready
  <2>5. QED BY <2>1, <2>2, <2>3, <2>4 DEF Next
<1>2. QED BY InitIInv, <1>1, PTL DEF Spec

(* Every reachable state is well typed; above all, cur names a loop that   *)
(* looplist has (Server::getNextLoop(), lines 212-223).                    *)
THEOREM TypeCorrect == Spec => []TypeOK
<1>1. IInv => TypeOK
  BY DEF IInv
<1>2. QED BY Invariance, <1>1, PTL

(* One thread, one loop (request.md:6): epoll_ctl() from the acceptor's    *)
(* thread never gives a connection to a loop that is not its own.          *)
THEOREM OneThreadOneLoop == Spec => []OneLoopPerConnection
<1>1. IInv => OneLoopPerConnection
  BY DEF IInv
<1>2. QED BY Invariance, <1>1, PTL

(* A reported event is still there at its turn in the batch, so neither    *)
(* accept() (line 251) nor read() (line 353) blocks a loop.                *)
THEOREM NoCallbackBlocks == Spec => []NeverBlocks
<1>1. IInv => NeverBlocks
  BY DEF IInv
<1>2. QED BY Invariance, <1>1, PTL

-----------------------------------------------------------------------------
(* After q rounds every loop has q connections, and those whose turn in    *)
(* the round is over have one more.                                        *)
RoundsOf(q) == \A l \in Loop : Load(l) = q + (IF l < cur THEN 1 ELSE 0)

SharedOut ==
    /\ IsFiniteSet(DOMAIN connlist)
    /\ mainPc = 0 => DOMAIN connlist = {} /\ cur = 0
    /\ \E q \in Nat : RoundsOf(q)

LEMMA InitSharedOut == Init => SharedOut
<1> SUFFICES ASSUME Init PROVE SharedOut
  OBVIOUS
<1>1. DOMAIN connlist = {} /\ cur = 0 /\ mainPc = 0
  BY DEF Init
<1>2. \A l \in Loop : {c \in DOMAIN connlist : connlist[c] = l} = {}
  BY <1>1
<1>3. \A l \in Loop : Load(l) = 0 /\ ~ (l < 0)
  BY <1>1, <1>2, FS_EmptySet, ReactorAssumption DEF Load, Loop
<1>4. RoundsOf(0)
  BY <1>1, <1>3 DEF RoundsOf
<1>5. QED BY <1>1, <1>4, FS_EmptySet DEF SharedOut

(* The turn goes on when the loop whose turn it is gets its share.         *)
LEMMA TurnGoesOn ==
    ASSUME cur \in Loop, getNextLoop, NEW q \in Nat, RoundsOf(q),
           \A l \in Loop : Load(l)' = Load(l) + (IF l = cur THEN 1 ELSE 0)
    PROVE  \E r \in Nat : RoundsOf(r)'
<1>1. \A l \in Loop : Load(l)' = q + (IF l <= cur THEN 1 ELSE 0)
  BY ReactorAssumption DEF RoundsOf, Loop
<1>2. CASE cur + 1 >= Num
  <2>1. cur' = 0 /\ \A l \in Loop : l <= cur /\ ~ (l < 0)
    BY <1>2, ReactorAssumption DEF getNextLoop, Loop
  <2>2. RoundsOf(q + 1)'
    BY <1>1, <2>1 DEF RoundsOf
  <2>3. QED BY <2>2
<1>3. CASE ~ (cur + 1 >= Num)
  <2>1. cur' = cur + 1 /\ \A l \in Loop : l < cur' <=> l <= cur
    BY <1>3, ReactorAssumption DEF getNextLoop, Loop
  <2>2. RoundsOf(q)'
    BY <1>1, <2>1 DEF RoundsOf
  <2>3. QED BY <2>2
<1>4. QED BY <1>2, <1>3

(* The acceptor counts as the first share of loop 0.                       *)
LEMMA RegisterAcceptorShares == ASSUME IInv, SharedOut, RegisterAcceptor PROVE SharedOut'
<1>1. PICK q \in Nat : RoundsOf(q)
  BY DEF SharedOut
<1>2. /\ cur = 0 /\ cur \in Loop /\ mainPc = 0 /\ mainPc' = 1 /\ connlist' = connlist
      /\ getNextLoop
  BY DEF IInv, TypeOK, SharedOut, RegisterAcceptor
<1>3. \A l \in Loop : Cardinality({c \in DOMAIN connlist : connlist[c] = l}) = 0
  <2>1. \A l \in Loop : {c \in DOMAIN connlist : connlist[c] = l} = {}
    BY <1>2 DEF SharedOut
  <2>2. QED BY <2>1, FS_EmptySet
<1>4. \A l \in Loop : Load(l)' = Load(l) + (IF l = cur THEN 1 ELSE 0)
  BY <1>2, <1>3 DEF Load
<1>5. QED BY <1>1, <1>2, <1>4, TurnGoesOn DEF SharedOut

(* An accepted connection is new, and goes to the loop whose turn it is.   *)
LEMMA AcceptShares == ASSUME IInv, SharedOut, NEW l \in Loop, Accept(l) PROVE SharedOut'
<1> DEFINE c == Head(backlog)
           Of(k) == {d \in DOMAIN connlist : connlist[d] = k}
<1>1. PICK q \in Nat : RoundsOf(q)
  BY DEF SharedOut
<1>2. /\ backlog \in Seq(Client) /\ backlog # <<>> /\ cur \in Loop /\ mainPc # 0 /\ mainPc' = mainPc
      /\ mainPc \in Nat /\ getNextLoop
      /\ connlist' = [d \in DOMAIN connlist \cup {c} |-> IF d = c THEN cur ELSE connlist[d]]
  BY ReactorAssumption DEF IInv, TypeOK, Accept, Handles, Started, Ready, Loop
<1>3. c = backlog[1] /\ 1 \in DOMAIN backlog
  BY <1>2, HeadTailProperties, LenProperties
<1> HIDE DEF c
<1>4. c \notin DOMAIN connlist
  BY <1>3 DEF IInv, NewToConnlist
<1>5. /\ DOMAIN connlist' = DOMAIN connlist \cup {c} /\ connlist'[c] = cur
      /\ \A d \in DOMAIN connlist : connlist'[d] = connlist[d]
  BY <1>2, <1>4
<1>6. IsFiniteSet(DOMAIN connlist) /\ IsFiniteSet(DOMAIN connlist')
  BY <1>5, FS_AddElement DEF SharedOut
<1>7. ASSUME NEW k \in Loop PROVE Load(k)' = Load(k) + (IF k = cur THEN 1 ELSE 0)
  <2>1. IsFiniteSet(Of(k)) /\ Cardinality(Of(k)) \in Nat /\ c \notin Of(k)
    BY <1>4, <1>6, FS_Subset, FS_CardinalityType
  <2>2. Of(k)' = IF k = cur THEN Of(k) \cup {c} ELSE Of(k)
    BY <1>2, <1>4, <1>5
  <2> HIDE DEF Of
  <2>3. Cardinality(Of(k) \cup {c}) = Cardinality(Of(k)) + 1
    BY <2>1, FS_AddElement
  <2>4. /\ Load(k) = Cardinality(Of(k)) + (IF k = 0 /\ mainPc > 0 THEN 1 ELSE 0)
        /\ Load(k)' = Cardinality(Of(k)') + (IF k = 0 /\ mainPc > 0 THEN 1 ELSE 0)
    BY <1>2 DEF Load, Of
  <2>5. CASE k = cur
    BY <2>1, <2>2, <2>3, <2>4, <2>5
  <2>6. CASE k # cur
    BY <2>1, <2>2, <2>4, <2>6
  <2>7. QED BY <2>5, <2>6
<1>8. QED BY <1>1, <1>2, <1>6, <1>7, TurnGoesOn DEF SharedOut

(* No other step hands out a turn or makes a connection.                   *)
LEMMA OthersShareNothing ==
    ASSUME SharedOut, UNCHANGED <<connlist, cur>>, mainPc' = mainPc \/ (mainPc > 0 /\ mainPc' > 0)
    PROVE  SharedOut'
<1>1. \A l \in Loop : Load(l)' = Load(l)
  BY DEF Load
<1>2. QED BY <1>1 DEF SharedOut, RoundsOf

LEMMA SharedOutStep == ASSUME IInv, SharedOut, [Next]_vars PROVE SharedOut'
<1>1. CASE RegisterAcceptor
  BY <1>1, RegisterAcceptorShares
<1>2. CASE StartLoop
  <2>1. UNCHANGED <<connlist, cur>> /\ mainPc > 0 /\ mainPc' > 0
    BY <1>2, ReactorAssumption DEF StartLoop
  <2>2. QED BY <2>1, OthersShareNothing
<1>3. ASSUME NEW l \in Loop, LoopStep(l) PROVE SharedOut'
  <2>1. CASE Accept(l)
    BY <2>1, AcceptShares
  <2>2. CASE ~ Accept(l)
    <3>1. UNCHANGED <<connlist, cur, mainPc>>
      BY <1>3, <2>2 DEF LoopStep, EpollWait, AcceptFails, Register, ReadCallback
    <3>2. QED BY <3>1, OthersShareNothing
  <2>3. QED BY <2>1, <2>2
<1>4. ASSUME NEW c \in Client, ClientStep(c) PROVE SharedOut'
  <2>1. UNCHANGED <<connlist, cur, mainPc>>
    BY <1>4 DEF ClientStep, Connect, Send, Close, serverVars
  <2>2. QED BY <2>1, OthersShareNothing
<1>5. CASE UNCHANGED vars
  BY <1>5, OthersShareNothing DEF vars, serverVars
<1>6. QED BY <1>1, <1>2, <1>3, <1>4, <1>5 DEF Next, Main

(* Server::getNextLoop() shares connections out evenly, the acceptor's     *)
(* registration counting as one (lines 212-223).                           *)
THEOREM EvenlyShared == Spec => []Balanced
<1>1. SharedOut => Balanced
  <2> SUFFICES ASSUME SharedOut, NEW l \in Loop, NEW k \in Loop PROVE Load(l) <= Load(k) + 1
    BY DEF Balanced
  <2>1. PICK q \in Nat : RoundsOf(q)
    BY DEF SharedOut
  <2>2. Load(l) \in {q, q + 1} /\ Load(k) \in {q, q + 1}
    BY <2>1 DEF RoundsOf
  <2>3. QED BY <2>2
<1>2. QED BY Invariance, InitSharedOut, SharedOutStep, <1>1, PTL DEF Spec
=============================================================================
