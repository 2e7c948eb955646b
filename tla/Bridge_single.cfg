SPECIFICATION FairSpec
CONSTANTS
    a1 = a1
    a2 = a2
    Agents = {a1}
    Callers = {c1}
    Operators = {o1}
    Jobs = {j1}
    Actions = {x1}
    NoBridge = NoBridge
    NoJob = NoJob
    NoAction = NoAction
    MaxWork = 2
    MaxFaults = 1
INVARIANTS
    WorkedAtMostOnce
PROPERTIES
    NothingComesUndone
    EnqueuedIsSettled
    CallReturns
