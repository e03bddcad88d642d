SPECIFICATION Spec
CONSTANTS
    Names = {volt}
    NoName = NoName
    MaxChannels = 2
    HistoryLen = 1
    MaxTime = 3
    Faults = {"short"}
    MaxFaults = 1
    logcsv = logcsv
    other = other
    long54 = long54
    long62 = long62
    long64 = long64
    torn = torn
    Callers = {lvgl, httpd}
    LogNames = {other}
    DefaultName = logcsv
    TornName = torn
    NameLen <- MCNameLen
    MaxRows = 3
    Ops = {"start", "stop", "delete", "clear"}
    Overlap = TRUE
    Reuse = TRUE
    MaxCalls = 3
    MaxBoots = 0
SYMMETRY CallerSymmetry
INVARIANT BookmarkBacked
CHECK_DEADLOCK FALSE
