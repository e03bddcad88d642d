SPECIFICATION RxSpec
CONSTANTS
    Chars = {"a", "b"}
    LineMax = 3
    MaxBytes = 6
INVARIANT WholeLines
CHECK_DEADLOCK FALSE
