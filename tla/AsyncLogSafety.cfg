\* Blocks of 3 bytes: a line of 1 fits twice, a line of 2 once, a line of 3
\* into no block.  With DropLimit 3, four filled blocks in one round are too
\* many.
CONSTANTS
    Null = Null
    BufSize = 3
    LineLens = {1, 2, 3}
    DropLimit = 3
    MaxAppends = 6
    EarlyAppends = TRUE
SPECIFICATION Spec
INVARIANTS TypeOK NoFault SparesMatchBlocks
PROPERTIES ShedsNewest ImplementsQueue
\* The program does stop: start() may hang, and stop() ends the rest.
CHECK_DEADLOCK FALSE
