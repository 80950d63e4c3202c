\* Two connections, so that begin() may change while main() clears; each sends
\* once, as client2.cc does, and closes, before, during or after what main() does.
CONSTANTS
    N = 2
    MaxSent = 1
    PerRead = 2
SPECIFICATION FairSpec
INVARIANTS TypeOK AliveDuringCall OnlyClearedDie
PROPERTIES DestroyedInTheEnd OthersServed
\* The process may end, and the clients may be silent.
CHECK_DEADLOCK FALSE
