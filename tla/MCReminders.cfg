SPECIFICATION FairSpec
CONSTANTS
    k1 = k1
    k2 = k2
    k3 = k3
    Keys = {k1, k2, k3}
    Notes = {k2}
    Later = {k2}
    Slot <- MCSlot
    From <- MCFrom
    Buffer = 0
    Sessions = {s1, s2}
    Deliverers = {d1, d2}
    None = None
    MaxAttempts = 1
    MaxTries = 2
VIEW View
PROPERTIES
    RemindersFollow
    RemindersSettle
CHECK_DEADLOCK FALSE
