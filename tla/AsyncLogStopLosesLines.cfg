\* One line is enough.
CONSTANTS
    Null = Null
    BufSize = 3
    LineLens = {1}
    DropLimit = 2
    MaxAppends = 2
    EarlyAppends = FALSE
SPECIFICATION FairSpec
PROPERTIES LinesBeforeStopSettled
\* The program does stop: start() may hang, and stop() ends the rest.
CHECK_DEADLOCK FALSE
