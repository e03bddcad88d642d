SPECIFICATION DownloadSpec
CONSTANTS
    Names = {volt}
    NoName = NoName
    MaxChannels = 2
    HistoryLen = 2
    MaxTime = 5
    Faults = {"read"}
    MaxFaults = 2
    logcsv = logcsv
    other = other
    long54 = long54
    long62 = long62
    long64 = long64
    torn = torn
    Callers = {lvgl}
    LogNames = {logcsv, other, long62}
    DefaultName = logcsv
    TornName = torn
    NameLen <- MCNameLen
    MaxRows = 4
    Ops = {"start", "stop", "delete", "clear"}
    Overlap = FALSE
    Reuse = FALSE
    MaxCalls = 3
    MaxBoots = 0
    Chunk = 2
INVARIANT WellFormed
INVARIANT CurrentFileComplete
INVARIANT SoftCap
PROPERTY DownloadWhole
PROPERTY NothingLost
CHECK_DEADLOCK FALSE
