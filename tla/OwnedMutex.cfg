\* Three threads: one inside, one waiting, one blocked in lock().
CONSTANTS
    Thread = {t1, t2, t3}
    NoThread = NoThread
SPECIFICATION Spec
INVARIANTS TypeOK OwnerTellsSelf NeverExits
PROPERTIES ImplementsOwnerLock
\* Nothing runs after the mutex has been destroyed.
CHECK_DEADLOCK FALSE
