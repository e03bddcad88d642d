SPECIFICATION FairSpec
CONSTANTS
    Names = {volt}
    NoName = NoName
    MaxChannels = 1
    HistoryLen = 1
    MaxTime = 6
    Callers = {main, other}
    NoCaller = NoCaller
    MaxQueries = 2
    Chars = {"a"}
    LineMax = 3
    MaxBytes = 6
INVARIANT InStep
 
 
PROPERTY QueryReturns
CHECK_DEADLOCK FALSE
