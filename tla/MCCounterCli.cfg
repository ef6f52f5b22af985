SPECIFICATION Spec
CONSTANTS
    cf = cf
    pethub = pethub
    cli = cli
    Feeders = {}
    CatFlaps = {cf}
    Felaquas = {}
    Processes = {pethub, cli}
    Largest = 7
    MaxCalls = 2
INVARIANT NoReuse
CHECK_DEADLOCK FALSE
