SPECIFICATION Spec
CONSTANTS
    a1 = a1
    a2 = a2
    Agents = {a1, a2}
    Callers = {c1}
    Operators = {}
    Jobs = {j1, j2}
    Actions = {x1}
    NoBridge = NoBridge
    NoJob = NoJob
    NoAction = NoAction
    MaxWork = 2
    MaxFaults = 0
SYMMETRY Symmetry
INVARIANTS
    BridgeIsSound
PROPERTIES
    DeadWithoutSnapshots
