SPECIFICATION FairSpec
CONSTANTS
    Requests = {r1}
    lo = lo
    hi = hi
    Payloads <- MCPayloads
    LowRisk <- MCLowRisk
    Ttl <- MCTtl
    Humans = {ann, bob}
    Agent = Agent
    PolicyActor = PolicyActor
    None = None
    Sessions = {s1, s2}
    MaxTime = 2
INVARIANTS
    FourEyes
    SignatureMatchesApprover
    RedemptionsBacked
    SingleUseUnlessOverwritten
PROPERTIES
    OutcomesAgree
    FinalUnlessOverwritten
    EveryRequestSettles
    ImplementsVoucher
