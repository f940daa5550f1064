SPECIFICATION PlatformSpec
CONSTANTS
    k1 = k1
    k2 = k2
    k3 = k3
    k4 = k4
    Keys = {k1, k2, k3, k4}
    Slot <- MCSlot
    From <- MCFrom
    Buffer = 1
    Sessions = {s1, s2}
    None = None
    MaxAttempts = 1
    Contents = {c1, c2}
    Users = {u1, u2}
    Distinct = TRUE
    Editors = {s1, s2}
    Nil = Nil
    MaxVersion = 2
    Samples = {m1}
    AnalyzeTries = 2
    PersistTries = 2
    Events = {u1, u2}
    Attempts = 2
    QueueSize = 1
    OutKeys = {c1, c2}
    Senders = {s1, s2}
    GraphTries = 2
    MaxCopies = 3
    Day = 6
    Hours <- MCHours
    ClockChange = 15
    Zones <- MCZones
    Duration = 2
    Pause = 1
    Step = 1
    Notice = 2
    MaxDays = 3
    MaxSlots = 2
    OfferTtl = 1
    Earliest = {0, 7}
    AskedDays = {2, 7}
    Meetings <- MCMeetings
    MaxAsks = 2
    MaxMinute = 2
CONSTRAINT KnowledgeBound
SYMMETRY Symmetry
CHECK_DEADLOCK FALSE
INVARIANTS
    SlotsHold
    SamplesJudged
    TrailHolds
    DeliveredOnce
PROPERTIES
    BookingsHold
    KnowledgeKept
