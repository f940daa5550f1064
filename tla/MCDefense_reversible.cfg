SPECIFICATION Spec
CONSTANTS
    a1 = a1
    a2 = a2
    ip = ip
    Actions = {a1}
    LowRisk = {a1}
    Timed = {a1}
    Automatable = {a1}
    Key <- OneTarget
    Address <- OneTarget
    InSet = {}
    Tickets = {t1}
    Sessions = {s1}
    Sweeper = sweeper
    None = None
    MaxGrants = 1
    RuleIds = {x1}
    Manual = manual
SYMMETRY Symmetry
INVARIANT EveryRuleReversible
