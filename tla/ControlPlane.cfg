SPECIFICATION MCSpec
CONSTANTS
    Agents = {a1}
    Tenants = {t1, t2}
    Callers = {w1, w2}
    Unregistered = Unregistered
    MaxEvents = 3
    Home <- MCHome
    Handlers = {w1, w2}
    Operators = {o1}
    MaxSessions = 3
    MaxChanges = 2
    AccessTTL = 1
    MaxClock = 3
    NoOne = NoOne
    Arrivals = {w1, w2, w3}
    Limit = 2
    Window = 2
    MaxMoment = 4
    MaxAdmitted = 6
    Officers = {w1, w2}
    CatalogTools = {n1}
    BoundAgents = {b1}
    Products = {p1, p2}
    AgentHome <- MCAgentHome
    MaxBindings = 2
    Absent = Absent
    Curators = {w1, w2}
    SkillAgents = {b1}
    Nobodys = Nobodys
    Versions = {1, 2}
    MaxSkills = 2
    MaxHour = 2
    Members = {m1, m2, m3, m4}
    DagMembers = {m1, m2}
    Operations = {n1}
    MaxLinks = 3
    MaxHooks = 2
    Desks = {w1, w2}
    Emails = {e1, e2}
    Identities = {g1, g2}
    Subs = {s1, s2}
    NoOwner = NoOwner
    AgentIds = {m1, m2}
    MaxWrites = 4
    MaxFlips = 2
    Users = {w1, w2}
    TTLs = {0, 1}
    MaxSecond = 3
    Unbuilt = Unbuilt
    Verifiers = {w1, w2}
    Kids = {m1, m2}
    m1 = m1
    s1 = s1
    Uris = {s1, s2}
    Tokens <- MCTokens
    SsoSettings <- MCSsoSettings
    TTL = 1
    MaxTick = 2
    MaxMoves = 1
    Void = Void
    Builders = {w1, w2}
    RecordTimes = {0, 1, 2}
    PageSize = 2
    MaxRecords = 3
    Installed = {}
CHECK_DEADLOCK FALSE
SYMMETRY MCSymmetry
INVARIANTS
    LogIsSound
    LogReplays
    LimitHolds
    KnowledgeIsSound
    CacheHolds
    
PROPERTIES
    NeverReprovisioned
    ImplementsPolicy
    SessionsEnd
    ToolsAreGoverned
    HierarchyHolds
    
    
