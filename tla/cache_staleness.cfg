SPECIFICATION Spec
CONSTANTS
    Gateways = {g1, g2}
    Requests = {q1}
    Interval = 1
    MaxDelay = 1
    MaxVersion = 1
    MaxTime = 5
    NoEntry = NoEntry
    NoGateway = NoGateway
SYMMETRY Symmetry
INVARIANTS TypeOK BoundedStaleness
