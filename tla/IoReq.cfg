CONSTANTS
    Thread = {v1, v2}
    Idle = idle
    None = None
    Kind <- Kinds
    Polling = {v2}
    Injected = {v1}
    Ringing = {v2}
    Addr = {a, b}
    Slots = 1
    EleNum = 3
SPECIFICATION AioFairSpec
INVARIANTS
    ExclusiveWaiting
    SignalWakes
    AnswerBeforeResume
    HaltHasNoInterrupt
    RingIsQueue
PROPERTIES
    RequestCompletes
    RingAdmits
    
