SPECIFICATION ActionsSpec
CONSTANTS
    a1 = a1
    a2 = a2
    a3 = a3
    ip = ip
    Actions = {a1, a2, a3}
    LowRisk = {a1, a3}
    Timed = {a1, a3}
    Automatable = {a1, a2, a3}
    Key <- OwnKeys
    Address <- OneTarget
    InSet = {a1, a2}
    Tickets = {t1, t2}
    Sessions = {s1, s2}
    Sweeper = sweeper
    None = None
    MaxGrants = 1
    RuleIds = {x1, x2}
    Manual = manual
    Jobs = {j1}
    Handlers = {s1, s2}
    Activities = {w1}
    MaxConcurrent = 1
    ScanGrants = 2
SYMMETRY Symmetry
CONSTRAINTS
    ScanBound
    DefenseBound
INVARIANTS
    RulesBacked
    RulesTracked
    ScansBacked
    JobsHaveWorkflows
PROPERTIES
    FollowsFlow
    FinalUnlessStale
