SPECIFICATION Spec
CONSTANTS
    PetDoors = {pd}
    pd = pd
    cf = cf
    CatFlaps = {cf}
    DevId = cf
    StateOnStartup = FALSE
    MaxFrames = 2
    MaxInFlight = 2
INVARIANT QuietShowsNewest
