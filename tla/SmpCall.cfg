CONSTANTS
    k1 = k1
    k2 = k2
    Cpu <- Cpus
    Active <- UpCpus
    Call = {k1, k2}
    Settings <- QuietAndNoisy
    AnyMask = FALSE
    NULL = NULL
SPECIFICATION FairSpec
INVARIANTS
    DataIsAlive
PROPERTIES
    UndisturbedCallsRan
    CallReturns
