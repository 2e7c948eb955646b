SPECIFICATION FairSpec
CONSTANTS
    t1 = t1
    t2 = t2
    alice = alice
    bob = bob
    c1 = c1
    c2 = c2
    Threads = {t1}
    Users = {alice, bob}
    Requests = {r1, r2}
    Tools = {c1, c2}
    CloudTools = {c2}
    ToolOwner <- OwnerOfTools
    NoUser = NoUser
    NoRequest = NoRequest
    NoTool = NoTool
    MaxFaults = 0
INVARIANTS
    ExecutesOnce
    RejectedHasNoEffect
PROPERTIES
    ApprovalSettles
