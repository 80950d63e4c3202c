------------------------------ MODULE LoadTest ------------------------------
(***************************************************************************)
(* timefdTest/perSec.cc, which counts the connections it accepts between   *)
(* two ticks of a timer, under the load of epollTest/client.cc, whose      *)
(* threads wait at a gate and then connect over and over (port 8832).      *)
(***************************************************************************)
EXTENDS Naturals

CONSTANTS
    Threads,        \* of the client: 1 .. 30000
    Goal,           \* connect() calls of a thread: 15
    Descriptors,    \* connections the server has descriptors for
    MaxPending      \* bound: expirations that wait to be read

ASSUME LoadAssumption ==
    Goal \in Nat \ {0} /\ Descriptors \in Nat /\ MaxPending \in Nat

VARIABLES
    phase,          \* of each thread of the client
    tries,          \* its connect() calls
    opened,         \* has main() broadcast?
    arrived,        \* connections to be accepted
    held,           \* connections with a descriptor of the server
    ready,          \* what epoll_wait() returned and is not handled yet
    count,          \* connections accepted since the last output
    printed,        \* history: the sum of the counts in the output
    pending         \* expirations of the timer that wait to be read

loadVars == <<phase, tries, opened, arrived, held, ready, count, printed, pending>>

client == <<phase, tries, opened>>

LoadInit ==
    /\ phase = [t \in Threads |-> "unborn"] /\ tries = [t \in Threads |-> 0] /\ opened = FALSE
    /\ arrived = 0 /\ held = 0 /\ ready = {}
    /\ count = 0 /\ printed = 0 /\ pending = 0

-----------------------------------------------------------------------------
(* epollTest/client.cc.                                                    *)

\* pthread_create() in the order of the loop; nobody looks whether it fails.
Create(t) ==
    /\ phase[t] = "unborn" /\ \A u \in Threads : u < t => phase[u] # "unborn"
    /\ \E p \in {"born", "failed"} : phase' = [phase EXCEPT ![t] = p]
    /\ UNCHANGED <<tries, opened, arrived, held, ready, count, printed, pending>>

\* mutation: pthread_cond_signal()
SignalsOne ==
    /\ ~ opened /\ \A t \in Threads : phase[t] # "unborn"
    /\ opened' = TRUE
    /\ IF \E t \in Threads : phase[t] = "waits"
       THEN \E t \in Threads : phase[t] = "waits" /\ phase' = [phase EXCEPT ![t] = "connects"]
       ELSE UNCHANGED phase
    /\ UNCHANGED <<tries, arrived, held, ready, count, printed, pending>>

Broadcast ==
    /\ ~ opened /\ \A t \in Threads : phase[t] # "unborn"
    /\ opened' = TRUE
    /\ phase' = [t \in Threads |-> IF phase[t] = "waits" THEN "connects" ELSE phase[t]]
    /\ UNCHANGED <<tries, arrived, held, ready, count, printed, pending>>

ClientMain == (\E t \in Threads : Create(t)) \/ Broadcast

\* The mutex is held for the moment before the wait only.
CondWait(t) ==
    /\ phase[t] = "born" /\ phase' = [phase EXCEPT ![t] = "waits"]
    /\ UNCHANGED <<tries, opened, arrived, held, ready, count, printed, pending>>

SpuriousWakeup(t) ==
    /\ phase[t] = "waits" /\ phase' = [phase EXCEPT ![t] = "connects"]
    /\ UNCHANGED <<tries, opened, arrived, held, ready, count, printed, pending>>

ConnectUntil(t, done) ==
    /\ phase[t] = "connects"
    /\ tries' = [tries EXCEPT ![t] = @ + 1]
    /\ phase' = IF done THEN [phase EXCEPT ![t] = "goal"] ELSE phase
    /\ arrived' \in {arrived, arrived + 1}
    /\ UNCHANGED <<opened, held, ready, count, printed, pending>>

\* mutation: the count is compared before it is incremented
ConnectsTooOften(t) == ConnectUntil(t, tries[t] >= Goal)

\* A connect() that fails counts as well.
ConnectOnce(t) == ConnectUntil(t, tries[t] + 1 >= Goal)

client_echo(t) == CondWait(t) \/ ConnectOnce(t)

-----------------------------------------------------------------------------
(* timefdTest/perSec.cc.                                                   *)
\* mutation: listenfd is not registered
OnlyTimer == {e \in {"timer"} : pending > 0}

LoadReady == {e \in {"listen", "timer"} : IF e = "listen" THEN arrived > 0 ELSE pending > 0}

LoadWait ==
    /\ ready = {} /\ LoadReady # {}
    /\ ready' = LoadReady
    /\ UNCHANGED <<client, arrived, held, count, printed, pending>>

\* accept() fails when the table is full; it blocks when nobody is there.
AcceptIfRoom ==
    /\ "listen" \in ready /\ arrived > 0
    /\ IF held < Descriptors
       THEN held' = held + 1 /\ count' = count + 1 /\ arrived' = arrived - 1
       ELSE UNCHANGED <<held, count, arrived>>
    /\ UNCHANGED <<client, printed, pending>>

\* mutation: the loop of 100 accept() calls that is commented out (line 159)
AcceptsMore == AcceptIfRoom /\ UNCHANGED ready

\* mutation: a full table is counted
CountsFailures ==
    /\ "listen" \in ready /\ arrived > 0
    /\ count' = count + 1
    /\ IF held < Descriptors THEN held' = held + 1 /\ arrived' = arrived - 1
       ELSE UNCHANGED <<held, arrived>>
    /\ ready' = ready \ {"listen"}
    /\ UNCHANGED <<client, printed, pending>>

AcceptAndCount == AcceptIfRoom /\ ready' = ready \ {"listen"}

\* read() of the timer takes all its expirations at once.
PrintCount ==
    /\ "timer" \in ready /\ pending > 0
    /\ printed' = printed + count /\ count' = 0 /\ pending' = 0
    /\ ready' = ready \ {"timer"}
    /\ UNCHANGED <<client, arrived, held>>

Server == LoadWait \/ AcceptAndCount \/ PrintCount

\* A second is over; the timer is periodic.
Tick ==
    /\ pending < MaxPending /\ pending' = pending + 1
    /\ UNCHANGED <<client, arrived, held, ready, count, printed>>

-----------------------------------------------------------------------------
LoadNext == ClientMain \/ (\E t \in Threads : client_echo(t) \/ SpuriousWakeup(t)) \/ Server \/ Tick

LoadFairness ==
    /\ WF_loadVars(ClientMain) /\ \A t \in Threads : WF_loadVars(client_echo(t))
    /\ WF_loadVars(Server) /\ WF_loadVars(Tick)

LoadSpec == LoadInit /\ [][LoadNext]_loadVars /\ LoadFairness

-----------------------------------------------------------------------------
(* The types of the variables.                                             *)
LoadTypeOK ==
    /\ phase \in [Threads -> {"unborn", "failed", "born", "waits", "connects", "goal"}]
    /\ tries \in [Threads -> 0 .. Goal] /\ opened \in BOOLEAN
    /\ arrived \in Nat /\ held \in 0 .. Descriptors /\ ready \subseteq {"listen", "timer"}
    /\ count \in Nat /\ printed \in Nat /\ pending \in 0 .. MaxPending

(* Every connection that was accepted is in one count of the output, or in *)
(* the current one: a tick between two accepts loses none and counts none  *)
(* twice, and a failed accept() is not counted (perSec.cc:161-173).        *)
Accounted == printed + count = held

(* Neither accept() nor the read of the timer blocks, in whatever order a  *)
(* batch is handled: the loop would miss its ticks.                        *)
LoopNeverBlocks == ready \subseteq LoadReady

(* All connections that clients make are accepted and printed in the end,  *)
(* unless the server has no descriptor left; what it has accepted is       *)
(* printed even then, although listenfd stays ready for ever.              *)
EveryConnectionPrinted ==
    printed < held + arrived ~> (printed = held /\ (arrived = 0 \/ held = Descriptors))

(* A thread that waits at the gate when main() broadcasts makes its        *)
(* connections.  (One that reaches the wait later waits for ever: the      *)
(* condition has no predicate.)                                            *)
GateOpens == \A t \in Threads : (phase[t] = "waits" /\ ~ opened) ~> phase[t] = "goal"
=============================================================================
