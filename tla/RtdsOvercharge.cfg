CONSTANTS
    Vcpu = {v1, v2}
    Helper = {}
    Injected = {v1, v2}
    Idle = idle
    None = None
    Period = 4
    Budget = 2
    StartTime = 2
    MaxTime = 12
    LateTime = 0
SPECIFICATION PromptSpec
SYMMETRY Sym
INVARIANT
    BudgetChargedInPeriod
