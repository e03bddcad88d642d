SPECIFICATION EntriesSpec
CONSTANTS
    Channels = {volt, amp}
    Values <- MCValues
    s_tick_seconds <- MCTicks
    s_span_seconds <- MCSpans
    GRAPH_MAX_POINTS = 2
    MaxSamples = 3
    FieldMax = 4
    BodyMax = 6
    FormLen = 4
    None = None
INVARIANT StatsOfTaken
INVARIANT ChartInAxis
INVARIANT ChartIsTail
INVARIANT UsedAsMeant
