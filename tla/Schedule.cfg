CONSTANTS
    Vcpu = {v1, v2}
    Helper = {h1}
    Injected = {v1, v2}
    Idle = idle
    None = None
SPECIFICATION FairSpec
INVARIANTS
    TypeOK
    OneOwner
    RescheduleRequested
    
PROPERTIES
    ClearPreservesFairness
    ImplementsOwner
    SleepCompletes
