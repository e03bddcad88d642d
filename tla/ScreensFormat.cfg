SPECIFICATION Spec
CONSTANTS
    f1 = f1
    f2 = f2
    Files = {f1, f2}
    Channels = {"ch"}
    t1 = t1
    t2 = t2
    Timers = {t1, t2}
    c1 = c1
    c2 = c2
    ClearTasks = {c1, c2}
    RegistryMax = 16
    StackMax = 8
    CreateFails = {}
    None = None
INVARIANT UiAliveDuringFormat
