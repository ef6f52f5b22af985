SPECIFICATION UserSpec
CONSTANTS
    pd = pd
    cf = cf
    PetDoors = {pd}
    CatFlaps = {cf}
    DevId = cf
    StateOnStartup = TRUE
    MaxFrames = 2
    MaxInFlight = 3
    Habits = {}
INVARIANT SettledAsWanted
PROPERTY RequestTakesEffect
