-------------------------- MODULE OwnedMutexProofs --------------------------
(***************************************************************************)
(* For every set of threads, owner_ tells the truth and is a lock.         *)
(*                                                                         *)
(* AssignedUnderMutex makes OwnerTellsSelf inductive: an assignment to     *)
(* owner_ is made by the holder, so no other thread is inside then.        *)
(***************************************************************************)
EXTENDS OwnedMutex, TLAPS

(* Why OwnerTellsSelf holds: exactly the threads that have taken the       *)
(* pthread mutex and not yet given it back are its holder, so that every   *)
(* assignment to owner_ is made under the mutex (Mutex.h:34 and 38).       *)
AssignedUnderMutex ==
    /\ \A t \in Thread : holder = t <=> pc[t] \in {"locked", "in", "unlocking", "sleeping"}
    /\ \A t \in waitSet : pc[t] = "waiting"

IInv == TypeOK /\ AssignedUnderMutex /\ OwnerTellsSelf /\ NeverExits

LEMMA InitIInv == Init => IInv
BY ThreadAssumption DEF Init, IInv, TypeOK, AssignedUnderMutex, OwnerTellsSelf, NeverExits

(* The steps of a thread.  Each changes the position of that thread only.  *)
LEMMA ThreadStep ==
    ASSUME IInv, NEW t \in Thread, Lock(t) \/ Unlock(t) \/ Wait(t)
    PROVE  IInv'
<1> USE ThreadAssumption DEF IInv, TypeOK, AssignedUnderMutex, OwnerTellsSelf, NeverExits, Goto
<1>1. CASE PthreadLock(t)
  BY <1>1 DEF PthreadLock
<1>2. CASE assight(t)
  BY <1>2 DEF assight
<1>3. CASE unassight(t)
  BY <1>3 DEF unassight
<1>4. CASE PthreadUnlock(t)
  BY <1>4 DEF PthreadUnlock
<1>5. CASE WaitUnassight(t)
  BY <1>5 DEF WaitUnassight
<1>6. CASE PthreadWait(t)
  BY <1>6 DEF PthreadWait
<1>7. CASE Wakeup(t)
  BY <1>7 DEF Wakeup
<1>8. CASE PthreadWaitReturns(t)
  BY <1>8 DEF PthreadWaitReturns
<1>9. QED
  BY <1>1, <1>2, <1>3, <1>4, <1>5, <1>6, <1>7, <1>8 DEF Lock, Unlock, Wait

(* Notifications wake threads and change nothing else.                     *)
LEMMA NotifyStep == ASSUME IInv, notify \/ notifyAll PROVE IInv'
<1> USE DEF IInv, TypeOK, AssignedUnderMutex, OwnerTellsSelf, NeverExits
<1>1. CASE notify
  BY <1>1 DEF notify
<1>2. CASE notifyAll
  BY <1>2 DEF notifyAll
<1>3. QED BY <1>1, <1>2

(* With every thread out, nobody is in owner_.                             *)
LEMMA DestroyStep == ASSUME IInv, Destroy PROVE IInv'
<1>1. owner_ = NoThread
  BY DEF IInv, TypeOK, OwnerTellsSelf, Destroy
<1>2. life' = "destroyed" /\ UNCHANGED <<holder, owner_, waitSet, pc>>
  BY <1>1 DEF Destroy
<1>3. QED BY <1>2 DEF IInv, TypeOK, AssignedUnderMutex, OwnerTellsSelf, NeverExits

LEMMA NextIInv == IInv /\ [Next]_vars => IInv'
<1> SUFFICES ASSUME IInv, [Next]_vars PROVE IInv'
  OBVIOUS
<1>1. CASE Next
  BY <1>1, ThreadStep, NotifyStep, DestroyStep DEF Next
<1>2. CASE UNCHANGED vars
  BY <1>2 DEF IInv, TypeOK, AssignedUnderMutex, OwnerTellsSelf, NeverExits, vars
<1>3. QED BY <1>1, <1>2

LEMMA Invariance == Spec => []IInv
<1>1. QED BY InitIInv, NextIInv, PTL DEF Spec

(* Every variable of the mutex keeps its type.                             *)
THEOREM TypeCorrect == Spec => []TypeOK
<1>1. IInv => TypeOK
  BY DEF IInv
<1>2. QED BY Invariance, <1>1, PTL

(* A thread finds itself in owner_ exactly while it is inside its critical *)
(* section, a return from wait() included (Mutex.h:45-49).                 *)
THEOREM OwnerIsRight == Spec => []OwnerTellsSelf
<1>1. IInv => OwnerTellsSelf
  BY DEF IInv
<1>2. QED BY Invariance, <1>1, PTL

(* ~Mutex never takes its exit(-1) when all threads are done with the      *)
(* mutex (Mutex.h:24-28).                                                  *)
THEOREM NoExit == Spec => []NeverExits
<1>1. IInv => NeverExits
  BY DEF IInv
<1>2. QED BY Invariance, <1>1, PTL

-----------------------------------------------------------------------------
(* A step that changes owner_ is an Acquire or a Release of OwnerLock.     *)
LEMMA StepRefines == IInv /\ [Next]_vars => [Abstract!Next]_owner_
<1> SUFFICES ASSUME IInv, [Next]_vars PROVE Abstract!Next \/ UNCHANGED owner_
  OBVIOUS
<1>1. ASSUME NEW t \in Thread, assight(t) PROVE Abstract!Acquire(t)
  <2>1. holder = t /\ pc[t] = "locked"
    BY <1>1 DEF IInv, AssignedUnderMutex, assight, Goto
  <2>2. owner_ # t
    BY <2>1 DEF IInv, OwnerTellsSelf
  <2>3. owner_ = NoThread
    BY <2>1, <2>2 DEF IInv, OwnerTellsSelf
  <2>4. QED BY <1>1, <2>3 DEF assight, Abstract!Acquire
<1>2. ASSUME NEW t \in Thread, unassight(t) \/ WaitUnassight(t) PROVE Abstract!Release(t)
  BY <1>2 DEF IInv, OwnerTellsSelf, unassight, WaitUnassight, Goto, Abstract!Release
<1>3. CASE Next
  <2>1. ASSUME NEW t \in Thread, Lock(t) \/ Unlock(t) \/ Wait(t)
        PROVE  Abstract!Next \/ UNCHANGED owner_
    BY <1>1, <1>2, <2>1
       DEF Lock, Unlock, Wait, PthreadLock, PthreadUnlock, PthreadWait, Wakeup, PthreadWaitReturns, Abstract!Next
  <2>2. CASE notify \/ notifyAll \/ Destroy
    BY <2>2 DEF notify, notifyAll, Destroy
  <2>3. QED BY <1>3, <2>1, <2>2 DEF Next
<1>4. CASE UNCHANGED vars
  BY <1>4 DEF vars
<1>5. QED BY <1>3, <1>4

(* owner_ by itself is a lock: it passes from nobody to a thread and back, *)
(* never from one thread to another (Mutex.h:31-49, Condition.h:22-38).    *)
THEOREM OwnerIsALock == Spec => ImplementsOwnerLock
<1>1. Init => Abstract!Init
  BY DEF Init, Abstract!Init
<1>2. QED BY <1>1, StepRefines, Invariance, PTL DEF Spec, ImplementsOwnerLock, Abstract!Spec
=============================================================================
