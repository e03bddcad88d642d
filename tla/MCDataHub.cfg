SPECIFICATION HubSpec
CONSTANTS
    Names = {volt, temp, curr}
    NoName = NoName
    MaxChannels = 2
    HistoryLen = 3
    MaxTime = 8
INVARIANTS
    TableShape
    HistoryOrdered
    ReadersAgree
PROPERTY SlidingWindow
CHECK_DEADLOCK FALSE
