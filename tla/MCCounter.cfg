SPECIFICATION Spec
CONSTANTS
    fd = fd
    cf = cf
    fq = fq
    pethub = pethub
    Feeders = {fd}
    CatFlaps = {cf}
    Felaquas = {fq}
    Processes = {pethub}
    Largest = 1
    MaxCalls = 3
INVARIANTS TypeOK NoReuse
PROPERTY ImplementsTickets
CHECK_DEADLOCK FALSE
