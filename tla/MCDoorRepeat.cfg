SPECIFICATION UserSpec
CONSTANTS
    pd = pd
    cf = cf
    PetDoors = {pd}
    CatFlaps = {cf}
    DevId = cf
    StateOnStartup = FALSE
    MaxFrames = 2
    MaxInFlight = 3
    Habits = {"repeat"}
INVARIANT SettledAsWanted
