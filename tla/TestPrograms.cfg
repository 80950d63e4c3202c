\* bufferNetTest: two clients and standard input on a table of three numbers,
\* one of them the listening socket, so that the second client waits for a
\* number and may get 0; a separator line of 5 bytes, and a vector of 3 bytes that
\* overflows and grows, up to the 15 of a size_t of 5 bits, where it throws: after
\* 2 bytes read at the earliest, while some orders bring in all 3 of them.
\* perSec: two threads make three connections each, three more than fit.
CONSTANTS
    Word = 32
    kinitSize = 3
    kinitPreSize = 2
    ExtraSize = 2
    SeparatorLen = 5
    NClients = 2
    MaxSent <- Bytes
    Fds = {0, 1, 2}
    listenfd = 1
    Resettable = {1}
    Threads = {1, 2}
    Goal = 3
    Descriptors = 3
    MaxPending = 2
    MaxJump = 2
    MaxFired = 5
    MaxLines = 3
SPECIFICATION Spec
INVARIANTS
    TypeOK
    ChunksIntact EveryConnectionWatched NoCallBlocks StaysUp
    Accounted LoopNeverBlocks
    ToggleReadNeverBlocks
PROPERTIES
    EveryByteRead ClosedReleased
    EveryConnectionPrinted GateOpens
    EveryExpirationPrinted
    InputRead
\* bufferNetTest ends by a failed read or a full vector; a run of the others ends at its bounds.
CHECK_DEADLOCK FALSE
