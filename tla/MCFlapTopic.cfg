SPECIFICATION Spec
CONSTANTS
    PetDoors = {pd}
    pd = pd
    cf = cf
    CatFlaps = {cf}
    DevId = pd
    StateOnStartup = FALSE
    MaxFrames = 2
    MaxInFlight = 2

PROPERTY NoCrossTalk
