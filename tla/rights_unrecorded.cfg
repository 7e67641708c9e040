SPECIFICATION Spec
CONSTANTS
    Requests = {r1}
    Sources = {s1}
    Erasable = {s1}
    Handlers = {h1}
    Workers = {w1}
    Tasks = {t1, t2}
    NoRequest = NoRequest
    NoTask = NoTask
    OperatorStatuses = {"received", "in_progress", "pending_approval", "completed", "rejected"}
    AlertTypes <- MigratedAlertTypes
    FaultKinds = {}
    MaxFaults = 0
SYMMETRY Symmetry
INVARIANT AuditTrail
