CONSTANTS
    Thread = {v1}
    Idle = idle
    None = None
    Kind <- Kinds
    Polling = {}
    Injected = {}
    Ringing = {}
    Addr = {}
    Slots = 1
    EleNum = 2
SPECIFICATION AioSpec
INVARIANT
    ZombieStaysStopped
