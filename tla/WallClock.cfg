SPECIFICATION Spec
CONSTANTS
    MaxSets = 3
    TzCount = 3
    None = None
INVARIANT DatedByOneSet
INVARIANT ClockAgrees
INVARIANT TimezoneKept
