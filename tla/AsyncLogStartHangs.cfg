\* logTest.cc: nobody logs before start() has returned.
CONSTANTS
    Null = Null
    BufSize = 3
    LineLens = {1}
    DropLimit = 2
    MaxAppends = 1
    EarlyAppends = FALSE
SPECIFICATION FairSpec
PROPERTIES StartReturns
\* The program does stop: start() may hang, and stop() ends the rest.
CHECK_DEADLOCK FALSE
