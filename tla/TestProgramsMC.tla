--------------------------- MODULE TestProgramsMC ---------------------------
(***************************************************************************)
(* Instances for TLC of the four programs that do not share their state    *)
(* with any other part: a behaviour is one of bufferNetTest, perSec,       *)
(* timefd or epolltest, chosen at the start, while the others stay where   *)
(* they are.  The properties are those of their modules.                   *)
(***************************************************************************)
EXTENDS BufferNet, LoadTest, TimerPrint, EpollToggle

\* One byte of standard input, two of the first client, none of the others.
Bytes == [f \in 0 .. NClients |-> IF f = 0 THEN 1 ELSE IF f = 1 THEN 2 ELSE 0]

VARIABLE program

vars == <<program, netVars, loadVars, timerVars, toggleVars>>

Runs(p) == program = p /\ UNCHANGED program

Init ==
    /\ program \in {"bufferNetTest", "perSec", "timefd", "epolltest"}
    /\ NetInit /\ (program # "bufferNetTest" => ~ tty)
    /\ LoadInit /\ TimerInit
    /\ ToggleInit /\ (program # "epolltest" => stdin = "file")

NetStep == Runs("bufferNetTest") /\ NetNext /\ UNCHANGED <<loadVars, timerVars, toggleVars>>
LoadStep == Runs("perSec") /\ LoadNext /\ UNCHANGED <<netVars, timerVars, toggleVars>>
TimerStep == Runs("timefd") /\ TimerNext /\ UNCHANGED <<netVars, loadVars, toggleVars>>
ToggleStep == Runs("epolltest") /\ ToggleNext /\ UNCHANGED <<netVars, loadVars, timerVars>>

Next == NetStep \/ LoadStep \/ TimerStep \/ ToggleStep

\* The fairness of the program that runs.
Fairness ==
    /\ WF_netVars(program = "bufferNetTest" /\ threadFunc)
    /\ WF_netVars(program = "bufferNetTest" /\ MainAdd)
    /\ WF_netVars(program = "bufferNetTest" /\ MainMod)
    /\ WF_loadVars(program = "perSec" /\ ClientMain)
    /\ \A t \in Threads : WF_loadVars(program = "perSec" /\ client_echo(t))
    /\ WF_loadVars(program = "perSec" /\ Server) /\ WF_loadVars(program = "perSec" /\ Tick)
    /\ WF_timerVars(program = "timefd" /\ TimerLoop)
    /\ WF_toggleVars(program = "epolltest" /\ ToggleLoop)

Spec == Init /\ [][Next]_vars /\ Fairness

-----------------------------------------------------------------------------
(* The variables of the four programs keep their types.                    *)
TypeOK == NetTypeOK /\ LoadTypeOK /\ TimerTypeOK /\ ToggleTypeOK
=============================================================================
