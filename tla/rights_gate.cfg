SPECIFICATION Spec
CONSTANTS
    Requests = {r1}
    Sources = {s1, s2}
    Erasable = {s1}
    Handlers = {h1, h2}
    Workers = {w1}
    Tasks = {t1, t2}
    NoRequest = NoRequest
    NoTask = NoTask
    OperatorStatuses = {}
    AlertTypes <- WidenedAlertTypes
    FaultKinds = {"error"}
    MaxFaults = 1
SYMMETRY Symmetry
INVARIANTS TypeOK ErasureTaskApproved ErasureGated
