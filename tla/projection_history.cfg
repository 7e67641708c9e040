SPECIFICATION Spec
CONSTANTS
    Sessions = {a, b}
    RuleIds = {g1, g2, g3}
    d1 = d1
    d2 = d2
    Rules = {d1, d2}
    DslAction <- MaskAndUnknown
    CreateInputs <- OneCreate
    UpdateInputs <- HistoryBodies
    RuleInputs <- RuleBodies
    RuleActions = {"block"}
    ManualOps = {}
    MaxVersion = 3
    Keep = Keep
    NoRules = NoRules
    NoRule = NoRule
    NoSession = NoSession
SYMMETRY Symmetry
INVARIANTS TypeOK HistoryComplete SingleRule
PROPERTIES SnapshotsImmutable ImplementsVersions
