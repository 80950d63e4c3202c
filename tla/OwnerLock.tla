----------------------------- MODULE OwnerLock -----------------------------
(***************************************************************************)
(* What Mutex promises of owner_: read by itself, the member is a lock.    *)
(* It goes from nobody to a thread and from that thread back to nobody,    *)
(* never from one thread to another.                                       *)
(***************************************************************************)
CONSTANTS Thread, NoThread

VARIABLE owner

Init == owner = NoThread

Acquire(t) == owner = NoThread /\ owner' = t

Release(t) == owner = t /\ owner' = NoThread

Next == \E t \in Thread : Acquire(t) \/ Release(t)

Spec == Init /\ [][Next]_owner
=============================================================================
