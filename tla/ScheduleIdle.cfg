CONSTANTS
    Vcpu = {v1}
    Helper = {}
    Injected = {v1}
    Idle = idle
    None = None
SPECIFICATION Spec
INVARIANT
    IdleWakeupNotLost
