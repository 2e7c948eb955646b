SPECIFICATION Spec
CONSTANTS
    Desk = {d1}
    Scrapes = {}
    NoKey = NoKey
    Cooldown = 1
    MaxTime = 2
CHECK_DEADLOCK FALSE
INVARIANTS
    TenantKeyOnly
