----------------------------- MODULE OwnedMutex -----------------------------
(***************************************************************************)
(* Base/Mutex.h and Base/Condition.h: a pthread mutex that records which   *)
(* thread holds it in owner_, and a condition variable that keeps the      *)
(* record right while pthread_cond_wait gives the mutex up and takes it    *)
(* again behind the class's back.                                          *)
(*                                                                         *)
(* The pthread calls and the assignments to owner_ are separate steps: a   *)
(* thread may be preempted between them, and notify(), getOwner() and      *)
(* other threads' calls run in between.                                    *)
(***************************************************************************)
EXTENDS Integers

CONSTANTS
    Thread,         \* the threads that use the mutex
    NoThread        \* the owner_ of nobody, 0

ASSUME ThreadAssumption == NoThread \notin Thread

VARIABLES
    holder,         \* the thread that holds the pthread mutex
    owner_,         \* the thread recorded as its owner
    waitSet,        \* the threads blocked in pthread_cond_wait
    pc,             \* where each thread is
    life            \* of the Mutex: "alive", "destroyed", or "exit" from ~Mutex

vars == <<holder, owner_, waitSet, pc, life>>

Init ==
    /\ holder = NoThread
    /\ owner_ = NoThread
    /\ waitSet = {}
    /\ pc = [t \in Thread |-> "out"]
    /\ life = "alive"

Goto(t, from, to) ==
    /\ life = "alive" /\ UNCHANGED life
    /\ pc[t] = from
    /\ pc' = [pc EXCEPT ![t] = to]

-----------------------------------------------------------------------------
(* lock(), which is also what MutexGuard's constructor does.               *)
PthreadLock(t) ==
    /\ Goto(t, "out", "locked")
    /\ holder = NoThread
    /\ holder' = t
    /\ UNCHANGED <<owner_, waitSet>>

\* mutation: the end of wait() as it would be without the call of assight()
NeverAssights(t) ==
    /\ Goto(t, "locked", "in")
    /\ UNCHANGED <<holder, owner_, waitSet>>

\* The same step ends lock() and wait().
assight(t) ==
    /\ Goto(t, "locked", "in")
    /\ owner_' = t
    /\ UNCHANGED <<holder, waitSet>>

\* mutations: unassight() leaves -1 for nobody; unlock() does not call it
LeavesMinusOne(t) ==
    /\ Goto(t, "in", "unlocking")
    /\ owner_' = -1
    /\ UNCHANGED <<holder, waitSet>>

NeverUnassights(t) ==
    /\ Goto(t, "in", "unlocking")
    /\ UNCHANGED <<holder, owner_, waitSet>>

(* unlock(), which is also what MutexGuard's destructor does.              *)
unassight(t) ==
    /\ Goto(t, "in", "unlocking")
    /\ owner_' = NoThread
    /\ UNCHANGED <<holder, waitSet>>

PthreadUnlock(t) ==
    /\ Goto(t, "unlocking", "out")
    /\ holder' = NoThread
    /\ UNCHANGED <<owner_, waitSet>>

-----------------------------------------------------------------------------
\* mutation: pthread_cond_wait is called with owner_ still set
WaitsAsOwner(t) ==
    /\ Goto(t, "in", "sleeping")
    /\ UNCHANGED <<holder, owner_, waitSet>>

(* wait() and waitForSec().                                                *)
WaitUnassight(t) ==
    /\ Goto(t, "in", "sleeping")
    /\ owner_' = NoThread
    /\ UNCHANGED <<holder, waitSet>>

\* pthread_cond_wait releases the mutex and blocks in one step.
PthreadWait(t) ==
    /\ Goto(t, "sleeping", "waiting")
    /\ holder' = NoThread
    /\ waitSet' = waitSet \cup {t}
    /\ UNCHANGED owner_

\* The wait may end spuriously, and the one of waitForSec() times out.
Wakeup(t) ==
    /\ life = "alive" /\ t \in waitSet
    /\ waitSet' = waitSet \ {t}
    /\ UNCHANGED <<holder, owner_, pc, life>>

\* Before it returns, it takes the mutex like everybody else.
PthreadWaitReturns(t) ==
    /\ Goto(t, "waiting", "locked")
    /\ t \notin waitSet /\ holder = NoThread
    /\ holder' = t
    /\ UNCHANGED <<owner_, waitSet>>

(* notify() and notifyAll(), by any thread, with the mutex or without it.  *)
notify ==
    /\ life = "alive"
    /\ \E t \in waitSet : waitSet' = waitSet \ {t}
    /\ UNCHANGED <<holder, owner_, pc, life>>

notifyAll ==
    /\ life = "alive" /\ waitSet # {}
    /\ waitSet' = {}
    /\ UNCHANGED <<holder, owner_, pc, life>>

-----------------------------------------------------------------------------
(* ~Mutex().  As of any object, its members no longer run by then.         *)
Destroy ==
    /\ life = "alive" /\ \A t \in Thread : pc[t] = "out"
    /\ life' = IF owner_ # NoThread THEN "exit" ELSE "destroyed"
    /\ UNCHANGED <<holder, owner_, waitSet, pc>>

Lock(t) == PthreadLock(t) \/ assight(t)
Unlock(t) == unassight(t) \/ PthreadUnlock(t)
Wait(t) == WaitUnassight(t) \/ PthreadWait(t) \/ Wakeup(t) \/ PthreadWaitReturns(t)

Next ==
    \/ \E t \in Thread : Lock(t) \/ Unlock(t) \/ Wait(t)
    \/ notify
    \/ notifyAll
    \/ Destroy

Spec == Init /\ [][Next]_vars

-----------------------------------------------------------------------------
(* The types of the variables; owner_ is a thread's id or 0.               *)
TypeOK ==
    /\ holder \in Thread \cup {NoThread}
    /\ owner_ \in Thread \cup {NoThread}
    /\ waitSet \subseteq Thread
    /\ pc \in [Thread -> {"out", "locked", "in", "unlocking", "sleeping", "waiting"}]
    /\ life \in {"alive", "destroyed", "exit"}

(* "owner_ is kept consistent with the lock" (the comment at Mutex.h:45):  *)
(* a thread finds itself in owner_, by getOwner(), exactly while it is     *)
(* inside its critical section, also after a wait(), and whoever is in     *)
(* owner_ holds the pthread mutex.                                         *)
OwnerTellsSelf ==
    /\ \A t \in Thread : owner_ = t <=> pc[t] = "in"
    /\ owner_ # NoThread => holder = owner_

(* ~Mutex finds no owner once all threads are done with the mutex          *)
(* (Mutex.h:24-28), however often they have waited.                        *)
NeverExits == life # "exit"

Abstract == INSTANCE OwnerLock WITH owner <- owner_

(* Read without the mutex, as condTest.cc does, owner_ is still a lock: it *)
(* never passes from one thread to another without showing nobody between  *)
(* (Mutex.h:31-49, Condition.h:22-38).                                     *)
ImplementsOwnerLock == Abstract!Spec
=============================================================================
