SPECIFICATION Spec
CONSTANTS
    e1 = e1
    k1 = k1
    Events = {e1}
    Keys = {k1}
    KeyOf <- OneEvent
    Succeeds = {}
    Sessions = {}
    Sweepers = {w1, w2}
    MaxRisk = 1
    Alarm = 1
    None = None
    Wanted = {}
    MaxClosed = 0
INVARIANT ReplicasSafe
CHECK_DEADLOCK FALSE
