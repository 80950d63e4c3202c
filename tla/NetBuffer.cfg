\* A vector of 6 bytes, 2 of them for prepend(), which two short appends
\* fill; 3 bytes of extrabuf.  With a size_t of 5 bits the vector cannot grow
\* beyond 15 bytes, so that it also throws.
CONSTANTS
    Word = 32
    kinitSize = 6
    kinitPreSize = 2
    ExtraSize = 3
    Lens = {1, 2, 3}
    MaxBytes = 7
    ReadErrors = TRUE
SPECIFICATION Spec
INVARIANTS TypeOK Window NeverOverruns
PROPERTIES ImplementsByteQueue
\* An overrun, a failed assert or an exception ends the program.
CHECK_DEADLOCK FALSE
