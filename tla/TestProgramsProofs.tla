------------------------- MODULE TestProgramsProofs -------------------------
(***************************************************************************)
(* The test programs, for any number of clients, descriptors, expirations  *)
(* and lines.  perSec counts each connection once, and neither accept()    *)
(* nor the read of the timer blocks: only the server takes a connection or *)
(* an expiration, and each while it is in the batch.  timefd shows every   *)
(* expiration that it has read.  epolltest never blocks in read() on       *)
(* EPOLLOUT, which is in the mask only while there is input.  And the four *)
(* programs, one of which runs, keep the types of their variables.         *)
(***************************************************************************)
EXTENDS TestProgramsMC, BufferNetProofs

(* A thread of the client that has not reached its goal has a call left.   *)
LoadInv ==
    /\ LoadTypeOK /\ Accounted /\ LoopNeverBlocks
    /\ \A t \in Threads : phase[t] # "goal" => tries[t] < Goal

LEMMA InitLoadInv == LoadInit => LoadInv
<1> SUFFICES ASSUME LoadInit PROVE LoadInv
  OBVIOUS
<1>1. 0 \in 0 .. Goal /\ 0 < Goal /\ 0 \in 0 .. Descriptors /\ 0 \in 0 .. MaxPending
  BY LoadAssumption
<1>2. LoadTypeOK
  BY <1>1 DEF LoadInit, LoadTypeOK
<1>3. Accounted /\ LoopNeverBlocks /\ \A t \in Threads : phase[t] # "goal" => tries[t] < Goal
  BY <1>1 DEF LoadInit, Accounted, LoopNeverBlocks
<1>4. QED BY <1>2, <1>3 DEF LoadInv

(* Clients and the clock only add to what can be read.                     *)
LEMMA ClientStep ==
    ASSUME LoadInv, ClientMain \/ (\E t \in Threads : client_echo(t) \/ SpuriousWakeup(t))
    PROVE  LoadInv'
<1>1. /\ phase \in [Threads -> {"unborn", "failed", "born", "waits", "connects", "goal"}]
      /\ tries \in [Threads -> 0 .. Goal] /\ opened \in BOOLEAN /\ arrived \in Nat
      /\ \A t \in Threads : phase[t] # "goal" => tries[t] < Goal
  BY DEF LoadInv, LoadTypeOK
<1>2. /\ phase' \in [Threads -> {"unborn", "failed", "born", "waits", "connects", "goal"}]
      /\ tries' \in [Threads -> 0 .. Goal] /\ opened' \in BOOLEAN
      /\ \A t \in Threads : phase'[t] # "goal" => tries'[t] < Goal
      /\ arrived' \in {arrived, arrived + 1} /\ UNCHANGED <<held, ready, count, printed, pending>>
  <2>1. CASE ClientMain
    BY <1>1, <2>1 DEF ClientMain, Create, Broadcast
  <2>2. CASE \E t \in Threads : CondWait(t) \/ SpuriousWakeup(t)
    BY <1>1, <2>2 DEF SpuriousWakeup, CondWait
  <2>3. CASE \E t \in Threads : ConnectOnce(t)
    <3>1. PICK t \in Threads : ConnectOnce(t)
      BY <2>3
    <3>2. /\ phase[t] = "connects" /\ tries' = [tries EXCEPT ![t] = @ + 1] /\ opened' = opened
          /\ phase' = IF tries[t] + 1 >= Goal THEN [phase EXCEPT ![t] = "goal"] ELSE phase
          /\ arrived' \in {arrived, arrived + 1} /\ UNCHANGED <<held, ready, count, printed, pending>>
      BY <3>1 DEF ConnectOnce, ConnectUntil
    <3>3. tries[t] + 1 \in 0 .. Goal
      BY <1>1, <3>2, LoadAssumption
    <3>4. QED BY <1>1, <3>2, <3>3, LoadAssumption
  <2>4. QED BY <2>1, <2>2, <2>3 DEF client_echo
<1>3. QED BY <1>1, <1>2 DEF LoadInv, LoadTypeOK, Accounted, LoopNeverBlocks, LoadReady

LEMMA ServerStep == ASSUME LoadInv, Server \/ Tick PROVE LoadInv'
<1> USE LoadAssumption DEF LoadInv, LoadTypeOK, Accounted, LoopNeverBlocks, LoadReady
<1>1. CASE LoadWait
  BY <1>1 DEF LoadWait, client
<1>2. CASE AcceptAndCount
  BY <1>2 DEF AcceptAndCount, AcceptIfRoom, client
<1>3. CASE PrintCount
  BY <1>3 DEF PrintCount, client
<1>4. CASE Tick
  BY <1>4 DEF Tick, client
<1>5. QED BY <1>1, <1>2, <1>3, <1>4 DEF Server

LEMMA InvarianceOfLoad == LoadInit /\ [][LoadNext]_loadVars => []LoadInv
<1>1. LoadInv /\ [LoadNext]_loadVars => LoadInv'
  <2>1. ASSUME LoadInv, UNCHANGED loadVars PROVE LoadInv'
    BY <2>1 DEF LoadInv, LoadTypeOK, Accounted, LoopNeverBlocks, LoadReady, loadVars
  <2>2. QED BY <2>1, ClientStep, ServerStep DEF LoadNext
<1>2. QED BY InitLoadInv, <1>1, PTL

(* Every connection accepted is in one count of the output, or in the      *)
(* current one (perSec.cc:161-173).                                        *)
THEOREM CountedOnce == LoadSpec => []Accounted
<1>1. LoadInv => Accounted
  BY DEF LoadInv
<1>2. QED BY InvarianceOfLoad, <1>1, PTL DEF LoadSpec

(* What epoll_wait() returned is still there when the loop gets to it, in  *)
(* whatever order that is (perSec.cc:152-180).                             *)
THEOREM TickNeverMissed == LoadSpec => []LoopNeverBlocks
<1>1. LoadInv => LoopNeverBlocks
  BY DEF LoadInv
<1>2. QED BY InvarianceOfLoad, <1>1, PTL DEF LoadSpec

-----------------------------------------------------------------------------
(* An expiration of a timer of timefd is shown, or waits to be read.       *)
TimerInv ==
    /\ TimerTypeOK
    /\ \A t \in Timers : fired[t] = shown[t] + unread[t]

LEMMA InvarianceOfTimer == TimerInit /\ [][TimerNext]_timerVars => []TimerInv
<1>1. TimerInit => TimerInv
  BY TimerAssumption DEF TimerInit, TimerInv, TimerTypeOK, Timers
<1>2. TimerInv /\ [TimerNext]_timerVars => TimerInv'
  <2> SUFFICES ASSUME TimerInv, [TimerNext]_timerVars PROVE TimerInv'
    OBVIOUS
  <2>1. /\ fired \in [Timers -> 0 .. MaxFired + 1] /\ unread \in [Timers -> 0 .. MaxFired + 1]
        /\ shown \in [Timers -> Nat] /\ events \subseteq Timers
        /\ \A t \in Timers : fired[t] = shown[t] + unread[t]
    BY DEF TimerInv, TimerTypeOK
  <2>2. CASE \E t \in Timers : Expire(t)
    <3>1. PICK t \in Timers : Expire(t)
      BY <2>2
    <3>2. PICK n \in 1 .. (IF t = "fd" THEN MaxJump ELSE 1) :
              /\ fired[t] + n <= (IF t = "fd" THEN MaxFired ELSE 1)
              /\ fired' = [fired EXCEPT ![t] = @ + n]
              /\ unread' = [unread EXCEPT ![t] = @ + n]
      BY <3>1 DEF Expire
    <3>3. n \in Nat
      BY <3>2, TimerAssumption
    <3>4. fired[t] + n \in 0 .. MaxFired + 1 /\ unread[t] + n \in 0 .. MaxFired + 1
      BY <2>1, <3>2, <3>3, TimerAssumption
    <3>5. shown' = shown /\ events' = events
      BY <3>1 DEF Expire
    <3>6. QED BY <2>1, <3>2, <3>3, <3>4, <3>5 DEF TimerInv, TimerTypeOK
  <2>3. CASE TimerWait
    BY <2>1, <2>3 DEF TimerWait, Expired, TimerInv, TimerTypeOK
  <2>4. CASE \E t \in Timers : ReadAndPrint(t)
    <3>1. PICK t \in Timers : ReadAndPrint(t)
      BY <2>4
    <3>2. /\ shown' = [shown EXCEPT ![t] = @ + unread[t]] /\ unread' = [unread EXCEPT ![t] = 0]
          /\ events' = events \ {t} /\ fired' = fired
      BY <3>1 DEF ReadAndPrint
    <3>3. shown[t] + unread[t] \in Nat /\ 0 \in 0 .. MaxFired + 1
      BY <2>1, TimerAssumption
    <3>4. QED BY <2>1, <3>2, <3>3 DEF TimerInv, TimerTypeOK
  <2>5. CASE UNCHANGED timerVars
    BY <2>5 DEF timerVars, TimerInv, TimerTypeOK
  <2>6. QED BY <2>2, <2>3, <2>4, <2>5 DEF TimerNext, TimerLoop
<1>3. QED BY <1>1, <1>2, PTL

-----------------------------------------------------------------------------
(* An event of either kind means input, until epolltest has taken it.      *)
ToggleInv ==
    /\ ToggleTypeOK
    /\ step \in {"in", "out"} => event # {} /\ taken < typed
    /\ step = "wait" /\ "out" \in wanted => taken < typed

LEMMA InvarianceOfToggle == ToggleInit /\ [][ToggleNext]_toggleVars => []ToggleInv
<1>1. ToggleInit => ToggleInv
  BY ToggleAssumption DEF ToggleInit, ToggleInv, ToggleTypeOK
<1>2. ToggleInv /\ [ToggleNext]_toggleVars => ToggleInv'
  <2> SUFFICES ASSUME ToggleInv, [ToggleNext]_toggleVars PROVE ToggleInv'
    OBVIOUS
  <2> USE ToggleAssumption DEF ToggleInv, ToggleTypeOK
  <2>1. CASE ToggleWait
    <3>1. Pending # {} => taken < typed
      BY <2>1 DEF ToggleWait, Pending
    <3>2. Pending \subseteq {"in", "out"}
      BY DEF Pending
    <3>3. QED BY <2>1, <3>1, <3>2 DEF ToggleWait
  <2>2. CASE OnReadable
    BY <2>2 DEF OnReadable, Modify
  <2>3. CASE OnWritable
    <3>1. step = "out" /\ taken < typed /\ UNCHANGED <<stdin, event, typed>>
      BY <2>3 DEF OnWritable
    <3>2. CASE "out" \in event
      <4>1. /\ taken' = taken + 1 /\ ev' = {"in"}
            /\ IF wanted = {} THEN step' = "exit" /\ wanted' = wanted ELSE step' = "wait" /\ wanted' = {"in"}
        BY <2>3, <3>2 DEF OnWritable, Modify
      <4>2. taken' \in 0 .. typed
        BY <3>1, <4>1
      <4>3. QED BY <3>1, <4>1, <4>2
    <3>3. CASE "out" \notin event
      BY <2>3, <3>1, <3>3 DEF OnWritable
    <3>4. QED BY <3>2, <3>3
  <2>4. CASE Timeout
    BY <2>4 DEF Timeout
  <2>5. CASE Type
    BY <2>5 DEF Type
  <2>6. CASE UNCHANGED toggleVars
    BY <2>6 DEF toggleVars
  <2>7. QED BY <2>1, <2>2, <2>3, <2>4, <2>5, <2>6 DEF ToggleNext, ToggleLoop
<1>3. QED BY <1>1, <1>2, PTL

(* read() on EPOLLOUT, which says nothing of input, always finds some      *)
(* (epolltest.cc:47-58).                                                   *)
THEOREM ReadFindsInput == ToggleSpec => []ToggleReadNeverBlocks
<1>1. ToggleInv => ToggleReadNeverBlocks
  BY DEF ToggleInv, ToggleReadNeverBlocks
<1>2. QED BY InvarianceOfToggle, <1>1, PTL DEF ToggleSpec

-----------------------------------------------------------------------------
(* A behaviour of one of the programs, seen through the variables of each, *)
(* is one of that program, or one in which nothing happens.                *)
LEMMA Parts ==
    Spec => /\ NetInit /\ [][NetNext]_netVars /\ LoadInit /\ [][LoadNext]_loadVars
            /\ TimerInit /\ [][TimerNext]_timerVars /\ ToggleInit /\ [][ToggleNext]_toggleVars
<1>1. Init => NetInit /\ LoadInit /\ TimerInit /\ ToggleInit
  BY DEF Init
<1>2. [Next]_vars => [NetNext]_netVars
  <2>1. ASSUME NetStep \/ LoadStep \/ TimerStep \/ ToggleStep \/ UNCHANGED vars
        PROVE  NetNext \/ UNCHANGED netVars
    BY <2>1, Zenon DEF NetStep, LoadStep, TimerStep, ToggleStep, vars
  <2>2. QED BY <2>1 DEF Next
<1>3. [Next]_vars => [LoadNext]_loadVars
  <2>1. ASSUME NetStep \/ LoadStep \/ TimerStep \/ ToggleStep \/ UNCHANGED vars
        PROVE  LoadNext \/ UNCHANGED loadVars
    BY <2>1, Zenon DEF NetStep, LoadStep, TimerStep, ToggleStep, vars
  <2>2. QED BY <2>1 DEF Next
<1>4. [Next]_vars => [TimerNext]_timerVars
  <2>1. ASSUME NetStep \/ LoadStep \/ TimerStep \/ ToggleStep \/ UNCHANGED vars
        PROVE  TimerNext \/ UNCHANGED timerVars
    BY <2>1, Zenon DEF NetStep, LoadStep, TimerStep, ToggleStep, vars
  <2>2. QED BY <2>1 DEF Next
<1>5. [Next]_vars => [ToggleNext]_toggleVars
  <2>1. ASSUME NetStep \/ LoadStep \/ TimerStep \/ ToggleStep \/ UNCHANGED vars
        PROVE  ToggleNext \/ UNCHANGED toggleVars
    BY <2>1, Zenon DEF NetStep, LoadStep, TimerStep, ToggleStep, vars
  <2>2. QED BY <2>1 DEF Next
<1>6. QED BY <1>1, <1>2, <1>3, <1>4, <1>5, PTL DEF Spec

(* The variables of the four programs keep their types: no more is read    *)
(* than was sent, no thread makes more connections than its goal and the   *)
(* server none that it has no descriptor for, an expiration is read once,  *)
(* and the mask registered with epoll is never ahead of the program's.     *)
THEOREM ProgramsTypeCorrect == Spec => []TypeOK
<1>1. LoadInv /\ TimerInv /\ ToggleInv /\ NetTypeOK => TypeOK
  BY DEF LoadInv, TimerInv, ToggleInv, TypeOK
<1>2. QED BY Parts, NetTypes, InvarianceOfLoad, InvarianceOfTimer, InvarianceOfToggle, <1>1, PTL
=============================================================================
