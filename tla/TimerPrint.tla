----------------------------- MODULE TimerPrint -----------------------------
(***************************************************************************)
(* timefdTest/timefd.cc: a loop prints how often a periodic timer and a    *)
(* one-shot timer have expired.  The periodic one follows CLOCK_REALTIME   *)
(* in absolute time, so several expirations may come together.             *)
(***************************************************************************)
EXTENDS Naturals

CONSTANTS
    MaxJump,        \* bound: expirations that come at once
    MaxFired        \* bound: expirations of the periodic timer

ASSUME TimerAssumption == MaxJump \in Nat /\ MaxFired \in Nat

Timers == {"fd", "fd2"}

VARIABLES
    fired,          \* history: how often a timer has expired
    unread,         \* expirations since its last read()
    shown,          \* history: the sum of the "OverTime Times" shown for it
    events          \* what epoll_wait() returned and is not handled yet

timerVars == <<fired, unread, shown, events>>

TimerInit ==
    /\ fired = [t \in Timers |-> 0] /\ unread = fired /\ shown = fired
    /\ events = {}

\* fd fires every five seconds of a clock that may be set, fd2 once.
Expire(t) ==
    /\ \E n \in 1 .. (IF t = "fd" THEN MaxJump ELSE 1) :
          /\ fired[t] + n <= (IF t = "fd" THEN MaxFired ELSE 1)
          /\ fired' = [fired EXCEPT ![t] = @ + n]
          /\ unread' = [unread EXCEPT ![t] = @ + n]
    /\ UNCHANGED <<shown, events>>

Expired == {t \in Timers : unread[t] > 0}

\* A timeout removes standard input, which is not registered: nothing changes.
TimerWait ==
    /\ events = {} /\ Expired # {}
    /\ events' = Expired
    /\ UNCHANGED <<fired, unread, shown>>

\* mutation: each read() is taken for one expiration
PrintsOne(t) ==
    /\ t \in events /\ unread[t] > 0
    /\ shown' = [shown EXCEPT ![t] = @ + 1] /\ unread' = [unread EXCEPT ![t] = 0]
    /\ events' = events \ {t}
    /\ UNCHANGED fired

\* read() blocks while there is no expiration, and clears them all.
ReadAndPrint(t) ==
    /\ t \in events /\ unread[t] > 0
    /\ shown' = [shown EXCEPT ![t] = @ + unread[t]] /\ unread' = [unread EXCEPT ![t] = 0]
    /\ events' = events \ {t}
    /\ UNCHANGED fired

TimerLoop == TimerWait \/ \E t \in Timers : ReadAndPrint(t)

TimerNext == TimerLoop \/ \E t \in Timers : Expire(t)

TimerSpec == TimerInit /\ [][TimerNext]_timerVars /\ WF_timerVars(TimerLoop)

-----------------------------------------------------------------------------
(* The types of the variables.                                             *)
TimerTypeOK ==
    /\ fired \in [Timers -> 0 .. MaxFired + 1] /\ unread \in [Timers -> 0 .. MaxFired + 1]
    /\ shown \in [Timers -> Nat] /\ events \subseteq Timers

(* However expirations come together before the loop gets to them, what is *)
(* shown adds up to all of them (timefd.cc:114-118).                       *)
EveryExpirationPrinted == Expired # {} ~> shown = fired
=============================================================================
