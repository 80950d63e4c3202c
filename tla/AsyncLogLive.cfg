\* As in logTest.cc, threads log only after start() has returned.  The fairness
\* is AsyncLog!Fairness; no symmetry, no constraint.
CONSTANTS
    Null = Null
    BufSize = 3
    LineLens = {1, 2}
    DropLimit = 2
    MaxAppends = 4
    EarlyAppends = FALSE
SPECIFICATION FairSpec
INVARIANTS FullBlockWakesBackend
PROPERTIES EveryLineSettled BackendStops
\* The program does stop: start() may hang, and stop() ends the rest.
CHECK_DEADLOCK FALSE
