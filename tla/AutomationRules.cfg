CONSTANTS
    RuleIds = {h1, h2}
    RuleDefs <- MCRules
    Admins = {a1, a2}
    Start = Start
    Requests = {r1}
    Indicators = {i1}
    NoRule = NoRule
    MaxRestarts = 1
SPECIFICATION Spec
SYMMETRY MCSymmetry
INVARIANTS TypeOK LoadedRulesAreCurrent EveryMatchIsScheduled EnrichmentsHaveIndicators
CHECK_DEADLOCK FALSE
