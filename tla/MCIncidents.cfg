SPECIFICATION FairSpec
CONSTANTS
    e1 = e1
    k1 = k1
    Events = {e1}
    Keys = {k1}
    KeyOf <- OneEvent
    Succeeds = {e1}
    Sessions = {p1, p2}
    Sweepers = {p1}
    MaxRisk = 2
    Alarm = 2
    None = None
    Wanted = {"INVESTIGATING", "FALSE_POSITIVE"}
    MaxClosed = 1
INVARIANTS
    EventsCounted
PROPERTIES
    IncidentKept
    EventsAssessed
