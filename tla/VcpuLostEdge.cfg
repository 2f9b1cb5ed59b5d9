CONSTANTS
    sgi = sgi
    spi = spi
    ppi = ppi
    None = None
    Off = Off
    Sgi = {sgi}
    Spi = {spi}
    Timer = ppi
    Order <- MCOrder
    NLR = 2
    MaxDelay = 1
    Written = {spi}
    Scenes <- LostScenes
SPECIFICATION Spec
INVARIANTS
    EdgeKept
