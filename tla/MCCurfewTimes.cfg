SPECIFICATION Spec
CONSTANTS
    Hub = "hub"
    PetDoors = {"door"}
    CatFlaps = {"flap"}
    Feeders = {"feeder"}
    Felaquas = {"felaqua"}
    Pets = {"tom"}
    Spans = {"night", "noon"}
    Clouds <- MCOneCloud
    Slots <- MCSlots
    Texts <- MCTexts
    Stamps <- MCStamps
    Chips <- MCChips
    DoorChips <- MCDoorChips
    Batches <- MCBatches
    MaxFailures = 1
    MaxUptime = 1
    MaxMessages = 2
    Scenarios = {{"times"}}
PROPERTY
    TimeChangeKeepsCurfew
