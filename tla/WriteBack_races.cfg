SPECIFICATION Spec
CONSTANTS
    t1 = t1
    t2 = t2
    alice = alice
    bob = bob
    c1 = c1
    c2 = c2
    Threads = {t1, t2}
    Users = {alice, bob}
    Requests = {r1}
    Tools = {c1}
    CloudTools = {}
    ToolOwner <- OwnerOfTools
    NoUser = NoUser
    NoRequest = NoRequest
    NoTool = NoTool
    MaxFaults = 1
SYMMETRY ThreadSymmetry
INVARIANTS
    EffectsAreGoverned
    ReceiptsAreTrue
    HaltDrains
    Inv
PROPERTIES
    NeverReopened
    ImplementsGate
