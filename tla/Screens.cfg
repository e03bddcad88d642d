SPECIFICATION FairSpec
CONSTANTS
    f1 = f1
    f2 = f2
    Files = {f1, f2}
    Channels = {"ch"}
    t1 = t1
    t2 = t2
    Timers = {t1, t2}
    c1 = c1
    c2 = c2
    ClearTasks = {c1, c2}
    RegistryMax = 16
    StackMax = 8
    CreateFails = {"forget"}
    None = None
INVARIANT NavPath
INVARIANT ActiveIsShown
INVARIANT OnlyLeftoversUseDeleted
INVARIANT TimerPointers
INVARIANT ArmedWillDisarm
INVARIANT OffersWhatItDoes
PROPERTY ConfirmedByTwoTaps
PROPERTY ClearEnds
