CONSTANTS
    OneShot = {t1, t2}
    Periodic = {p1}
    Period = 2
    Delay = {0, 1, 3}
    MAX_TIMER_ACTIONS = 4
    MaxDelta = 2
    MaxTime = 6
    End = End
SPECIFICATION Spec
SYMMETRY Sym
INVARIANTS
    TypeOK
    SortedList
    HardwareArmed
PROPERTY
    PeriodicOnGrid
