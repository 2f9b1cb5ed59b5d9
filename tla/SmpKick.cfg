CONSTANTS
    k1 = k1
    k2 = k2
    Cpu <- Cpus
    Active <- Cpus
    Call = {k1, k2}
    Settings <- OnlyKicked
    AnyMask = FALSE
    NULL = NULL
SPECIFICATION Spec
PROPERTY
    CompletedCallsRan
