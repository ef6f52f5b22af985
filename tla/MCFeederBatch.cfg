SPECIFICATION Spec
CONSTANTS
    fd = fd
    cat = cat
    Feeders = {fd}
    Pets = {cat}
    Strays = {stray}
    stray = stray
    MaxFrames = 2
    MaxEvents = 3
    MaxInFlight = 2
INVARIANT ShownAtRest
