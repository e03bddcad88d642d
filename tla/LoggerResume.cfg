SPECIFICATION FairSpec
CONSTANTS
    Names = {volt}
    NoName = NoName
    MaxChannels = 2
    HistoryLen = 2
    MaxTime = 4
    Faults = {"append", "rename"}
    MaxFaults = 2
    logcsv = logcsv
    other = other
    long54 = long54
    long62 = long62
    long64 = long64
    torn = torn
    Callers = {lvgl, httpd}
    LogNames = {}
    DefaultName = logcsv
    TornName = torn
    NameLen <- MCNameLen
    MaxRows = 4
    Ops = {"start", "stop"}
    Overlap = TRUE
    Reuse = FALSE
    MaxCalls = 4
    MaxBoots = 0
INVARIANT WellFormed
PROPERTY SamplesReachCard
CHECK_DEADLOCK FALSE
