SPECIFICATION FairSpec
CONSTANTS
    Requests = {r1}
    Sources = {s1}
    Erasable = {s1}
    Handlers = {h1}
    Workers = {w1}
    Tasks = {t1, t2}
    NoRequest = NoRequest
    NoTask = NoTask
    OperatorStatuses = {"pending_approval", "completed"}
    AlertTypes <- WidenedAlertTypes
    FaultKinds = {"crash", "redeliver", "error"}
    MaxFaults = 1
PROPERTIES SearchServed ErasureServed
