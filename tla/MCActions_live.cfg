SPECIFICATION LiveSpec
CONSTANTS
    a1 = a1
    a2 = a2
    a3 = a3
    ip = ip
    Actions = {a1, a2}
    LowRisk = {a1}
    Timed = {a1}
    Automatable = {a1, a2}
    Key <- OwnKeys
    Address <- OneTarget
    InSet = {a1, a2}
    Tickets = {t1}
    Sessions = {s1}
    Sweeper = sweeper
    None = None
    MaxGrants = 1
    RuleIds = {}
    Manual = manual
    Jobs = {j1}
    Handlers = {h1, h2}
    Activities = {w1}
    MaxConcurrent = 1
    ScanGrants = 1
PROPERTIES
    TimedEnds
    StartedEnds
