\* readv() may fail.
CONSTANTS
    Word = 64
    kinitSize = 6
    kinitPreSize = 2
    ExtraSize = 3
    Lens = {1, 2, 3}
    MaxBytes = 7
    ReadErrors = TRUE
SPECIFICATION Spec
INVARIANTS ReadErrorIsReported
CHECK_DEADLOCK FALSE
