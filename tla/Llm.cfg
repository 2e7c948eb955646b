SPECIFICATION MCSpec
CONSTANTS
    Desk = {d1}
    Scrapes = {s1}
    NoKey = NoKey
    Cooldown = 1
    MaxTime = 3
    t1 = t1
    t2 = t2
    u1 = u1
    Threads = {t1, t2}
    Customers = {u1}
    Nobody = Nobody
    Costs <- MCCosts
    Caps <- MCCaps
    DefaultCap <- MCDefaultCap
    DaysPerMonth = 2
    MaxDay = 3
    MaxCalls = 4
    Recorders = {t1, t2}
    Missions = {u1}
    Usages <- MCUsages
    Overrides <- MCOverrides
    Questions <- MCQuestions
    RouterSettings <- MCRouterSettings
    RingLimit = 2
    MaxAnswers = 3
    MaxRequests = 4
CHECK_DEADLOCK FALSE
INVARIANTS
    RoutingHolds
    BudgetIsKept
    
    InfusionHolds
PROPERTIES
    EveryCallEnds
    ExhaustedHolds
