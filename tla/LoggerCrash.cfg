SPECIFICATION Spec
CONSTANTS
    Names = {volt}
    NoName = NoName
    MaxChannels = 2
    HistoryLen = 2
    MaxTime = 4
    Faults = {"append", "create", "close", "rename", "erase", "format"}
    MaxFaults = 2
    logcsv = logcsv
    other = other
    long54 = long54
    long62 = long62
    long64 = long64
    torn = torn
    Callers = {lvgl}
    LogNames = {other, long54, long62, long64}
    DefaultName = logcsv
    TornName = torn
    NameLen <- MCNameLen
    MaxRows = 4
    Ops = {"start", "stop", "delete", "clear"}
    Overlap = FALSE
    Reuse = FALSE
    MaxCalls = 3
    MaxBoots = 1
INVARIANT RowsInOrder
INVARIANT CurrentFileComplete
PROPERTY NothingLost
CHECK_DEADLOCK FALSE
