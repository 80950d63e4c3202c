\* Two loops, one of them with the acceptor, and descriptors for two
\* connections: the turns come round to loop 0, which then has two sources of
\* events.  A third client finds the table full.  A client sends more than one
\* read() takes.
CONSTANTS
    Num = 2
    Client = {c1, c2, c3}
    Acceptor = Acceptor
    NoConn = NoConn
    MaxEvents = 2
    ReadMax = 1
    MaxSent = 2
    FdLimit = 2
SPECIFICATION FairSpec
INVARIANTS TypeOK OneLoopPerConnection Balanced NeverBlocks
PROPERTIES EverySentIsRead
\* Every client may be idle.
CHECK_DEADLOCK FALSE
