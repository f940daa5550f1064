SPECIFICATION GatesSpec
CONSTANTS
    v1 = v1
    v2 = v2
    t1 = t1
    t2 = t2
    p1 = p1
    p2 = p2
    RoleSets <- MCRoleSets
    Persons = {u1, u2}
    TenantAdmin = tenant_admin
    Roles = {tenant_admin, sales}
    Sids = {c1, c2}
    Calls = {s1, s2}
    IdleTime = 1
    AbsoluteTime = 2
    Nobody = nobody
    MaxTime = 3
    Jtis = {s1, s2, j3}
    Ttl = 1
    Leeway = 1
    Capacity = 2
    MaxNow = 4
    Visits = {v1, v2}
    Posts = {p1, p2}
    Texts = {t1, t2}
    NoText = no_text
    MaxRepeat = 2
    TenantLimit = 3
    VisitLimit = 2
    Window = 2
    MaxMoment = 3
    Admins = {s1, s2}
    Challenges = {c1, c2}
    ChallengeTtl = 1
    Validity = 1
    Expiries = {0, 3}
    MaxDate = 3
    Tenants = {u1, u2}
    Services = {"svc_fatma", "svc_samiir", "svc_notifications", "svc_audit", "svc_gateway_admin"}
    Tables = {"incidents", "agent_runs", "notifications", "audit_logs", "user_roles"}
    Conns = {s1, s2}
    Null = Null
    MaxWrites = 1
CONSTRAINT Bound
SYMMETRY Symmetry
CHECK_DEADLOCK FALSE
INVARIANTS
    AdministratorLeft
    SessionsEnd
    SidesApart
    UsedOnce
    WidgetHeld
PROPERTIES
    AssetsHold
    TenantsApart
