CONSTANTS
    Vcpu = {v1}
    Helper = {h1}
    Injected = {v1}
    Idle = idle
    None = None
    Mcu = 2
    CSA = 1
    VcpuRatio = 3
    HelperRatio = 1
    WarpValue = 1
    WarpLimit = 1
    UnwarpPeriod = 1
    StartTime = 1
    MaxTime = 5
SPECIFICATION BvtSpec
INVARIANTS
    RunqueueIsAwake
    SortedByEvt
    BoundedOverrun
    AvtIsLedger
PROPERTY
    ImplementsSchedule
