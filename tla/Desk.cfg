SPECIFICATION MCSpec
CONSTANTS
    p1 = p1
    m1 = m1
    g1 = g1
    g2 = g2
    s1 = s1
    s2 = s2
    Requests = {q1, q2, q3}
    Tools = {t1}
    PlainKeys = {p1}
    OAuthKeys = {m1}
    OrgIds = {g1, g2}
    BlockLists <- MCBlockLists
    MaxOrgTools = 1
    Gone = Gone
    Emails = {"e1"}
    Secrets = {"x", "y"}
    SignUpRoles = {"contributor", "founder"}
    Doors = {c1, c2}
    SessionLife = 2
    LinkLife = 1
    MaxHours = 1
    MaxAccounts = 2
    MaxPapers = 2
    Seats = {s1, s2}
    Clerks = {c1, c2}
    RoleWords = {"", "growth"}
    Agents = {"seo_specialist", "sql_assistant", "log_analyzer", "campaign_analyst"}
    MaxItems = 2
    NoDesk = NoDesk
    NoProfile = NoProfile
    Slots = {t1}
    GateKeys = {"web_read", "outlook_mail", "remedy", "slack", "custom"}
    MaxCalls = 2
    NoTool = NoTool
    Patterns <- MCPatterns
    Restricted <- MCRestricted
    Internal <- MCInternal
    Prompts <- MCPrompts
    Systems <- MCSystems
    MaxText = 2
CHECK_DEADLOCK FALSE
SYMMETRY MCSymmetry
INVARIANTS
    
    
    AccountsHold
    DesksHold
    
    
