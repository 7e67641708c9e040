SPECIFICATION Spec
CONSTANTS
    Requests = {r1}
    Sources = {s1}
    Erasable = {s1}
    Handlers = {h1}
    Workers = {w1, w2}
    Tasks = {t1, t2}
    NoRequest = NoRequest
    NoTask = NoTask
    OperatorStatuses = {"pending_approval"}
    AlertTypes <- WidenedAlertTypes
    FaultKinds = {"handler", "crash", "redeliver", "error"}
    MaxFaults = 2
SYMMETRY Symmetry
INVARIANTS ReportTruthful DeletionsRecorded AckedServed
PROPERTY ImplementsGate
