SPECIFICATION Spec
CONSTANTS
    Sessions = {a, b}
    RuleIds = {g1, g2}
    d1 = d1
    d2 = d2
    Rules = {d1, d2}
    DslAction <- MaskAndEncrypt
    CreateInputs <- OneCreate
    UpdateInputs <- Bodies
    RuleInputs <- RuleBodies
    RuleActions = {"block"}
    ManualOps = {"create", "update", "delete"}
    MaxVersion = 2
    Keep = Keep
    NoRules = NoRules
    NoRule = NoRule
    NoSession = NoSession
SYMMETRY Symmetry
INVARIANTS FreshProjection
