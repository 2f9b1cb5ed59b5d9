CONSTANTS
    sgi = sgi
    spi = spi
    ppi = ppi
    None = None
    Off = Off
    Sgi = {sgi}
    Spi = {spi}
    Timer = ppi
    Order <- MCOrder
    NLR = 2
    MaxDelay = 1
    Written = {spi}
    Scenes <- MCScenes
SPECIFICATION FairSpec
INVARIANTS
    SyncedEdgeKept
    OneLrPerIrq
    PendingHasExit
    MaskedTimerOwned
PROPERTIES
    CleanBoot
    TimerDelivered
    LineServed
