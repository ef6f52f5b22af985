SPECIFICATION FairSpec
CONSTANTS
    fd = fd
    cat = cat
    Feeders = {fd}
    Pets = {cat}
    Strays = {}
    MaxFrames = 2
    MaxEvents = 3
    MaxInFlight = 2
INVARIANTS TypeOK AcknowledgedIsStored ShownIsStored
PROPERTY AcknowledgedInTheEnd
