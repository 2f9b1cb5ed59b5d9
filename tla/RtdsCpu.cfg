CONSTANTS
    Vcpu = {v1}
    Helper = {h1}
    Injected = {v1}
    Idle = idle
    None = None
    Period = 4
    Budget = 2
    StartTime = 3
    MaxTime = 12
    LateTime = 8
SPECIFICATION BudgetSpec
INVARIANTS
    QueuesMatchStatus
    QueuesMatchBudget
    PreemptionArmed
PROPERTIES
    EdfPick
    ImplementsSchedule
    FullBudget
