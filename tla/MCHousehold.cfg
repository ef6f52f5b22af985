SPECIFICATION Spec
CONSTANTS
    Hub = "hub"
    PetDoors = {"door"}
    CatFlaps = {"flap"}
    Feeders = {"feeder"}
    Felaquas = {"felaqua"}
    Pets = {"tom"}
    Spans = {"night", "noon"}
    Clouds <- MCClouds
    Slots <- MCSlots
    Texts <- MCTexts
    Stamps <- MCStamps
    Chips <- MCChips
    DoorChips <- MCDoorChips
    Batches <- MCBatches
    MaxFailures = 1
    MaxUptime = 1
    MaxMessages = 2
    Scenarios = {{"hub", "build"}, {"hub", "uptime", "pets"}, {"pets", "flaps"}, {"times", "cli"}}
INVARIANTS
    TypeOK
    HubTells
    PetTells
    CurfewTells
    HouseShownIsStored
    LoadedIsSafe
    BuiltStarts
    BuiltIsCloud
