SPECIFICATION Spec
CONSTANTS
    Agents = {a1}
    Tenants = {t1, t2}
    Callers = {c1, c2}
    Unregistered = Unregistered
    MaxEvents = 2
    Home <- MCHome
PROPERTY TerminatedIsFinal
