\* Callers that use the reserved bytes and then append, as any legal caller.
CONSTANTS
    Word = 64
    kinitSize = 6
    kinitPreSize = 2
    ExtraSize = 3
    Lens = {1, 2, 3}
    MaxBytes = 7
    ReadErrors = FALSE
SPECIFICATION Spec
INVARIANTS AssertsHold
CHECK_DEADLOCK FALSE
