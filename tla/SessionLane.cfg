\* A Managed Session and an agent's key, two rules, windows of two ticks.
SPECIFICATION Spec
CONSTANTS
    p1 = p1
    p2 = p2
    None = None
    Keys = {agent, server}
    Managed = {server}
    RuleIds = {r1, r2}
    Payees = {p1, p2}
    Clauses <- MCClauses
    Window = 2
    Caps = {0, 1, 2}
    Lifetimes = {0, 2}
    Amounts = {1, 2}
    Funds = 4
    MaxTime = 3
    MaxEdits = 4
SYMMETRY Symmetry
INVARIANTS
    TypeOK
    RuleBudget
PROPERTY
    GlobalBinds
CHECK_DEADLOCK FALSE
