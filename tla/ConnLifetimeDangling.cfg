\* One connection is enough: an event after main() has erased.
CONSTANTS
    N = 1
    MaxSent = 1
    PerRead = 2
SPECIFICATION Spec
INVARIANTS EpollPointsToEvents
\* The process may end, and the clients may be silent.
CHECK_DEADLOCK FALSE
