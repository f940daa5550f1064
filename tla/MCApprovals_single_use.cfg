SPECIFICATION Spec
CONSTANTS
    Requests = {r1}
    lo = lo
    hi = hi
    Payloads <- MCPayloads
    LowRisk <- MCLowRisk
    Ttl <- MCTtl
    Humans = {ann, bob, cyd}
    Agent = Agent
    PolicyActor = PolicyActor
    None = None
    Sessions = {s1, s2, s3}
    MaxTime = 2
SYMMETRY Symmetry
INVARIANT SingleUse
